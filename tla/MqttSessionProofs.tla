------------------------- MODULE MqttSessionProofs -------------------------
(***************************************************************************)
(* Proofs about the MQTT client and its broker, for every number of        *)
(* identifiers, size of the send buffer and of the socket, all calls, any  *)
(* number of timeouts, repetitions, partial writes and new connections.    *)
(***************************************************************************)
EXTENDS MqttSession, SequenceTheorems, MinMaxProofs

-----------------------------------------------------------------------------
(* The inductive invariant: types.                                         *)

WithoutId == {"CONNECT", "PINGREQ", "DISCONNECT", "CONNACK", "PINGRESP", "GARBLED"}
Numbered(p) == IF p.type \in WithoutId THEN p.pid = None ELSE p.pid \in Pids

PacketsOf(types) == [type : types, qos : 0..2, pid : Pids \cup {None}, val : Nat]
Sendable == {p \in PacketsOf(Types \cup {"GARBLED"}) : Numbered(p)}
Receivable == {p \in PacketsOf({"PUBLISH"} \cup DOMAIN Origin) :
                 (p.type = "PUBLISH" /\ p.qos = 0) \/ Numbered(p)}
Queued == {m \in Messages : Numbered(m.packet)}

QueueTyped(q) == q \in Seq(Queued) /\ Len(q) <= QueueCap
DrawnTyped == /\ drawn \in [Threads -> {"no", "read", "written"} \X (0..NPids)]
              /\ \A t \in Threads : drawn[t] = Idle \/ drawn[t][2] \in Pids
ClientTyped ==
  /\ error \in Errors
  /\ lfsr \in 0..NPids /\ offset \in 0..1 /\ quiet \in 0..KeepAlive
  /\ pc \in {"connect", "idle", "reconnected", "recv", "between", "send"}
  /\ i \in Nat \ {0} /\ inflight \in BOOLEAN
  /\ DrawnTyped
  /\ reconnects \in BOOLEAN /\ calls \in Nat /\ ticks \in Nat
WireTyped == toBroker \in Seq(Sendable) /\ toClient \in Seq(Receivable)
BrokerTyped == /\ published \in Nat
               /\ pending \subseteq {p \in Receivable : p.type \in {"PUBLISH", "PUBREL"} /\ p.pid \in Pids}
-----------------------------------------------------------------------------
(* One publish of QoS 2 at a time; identifiers.                            *)

\* Of two QoS 2 publishes the later one does not wait for an answer while the
\* earlier one is not complete.
OneAwaits(q) ==
  \A j, k \in DOMAIN q :
    (j < k /\ IsQos2(q[j]) /\ IsQos2(q[k]) /\ q[j].state # "COMPLETE") => q[k].state # "AWAITING_ACK"

\* The loop of __mqtt_send knows of those it has passed.
LoopKnows == (pc = "send" /\ i <= Len(mq)) =>
               \A j \in DOMAIN mq : (j < i /\ IsQos2(mq[j]) /\ mq[j].state # "COMPLETE") => inflight

\* No two requests of mqtt_publish and mqtt_subscribe have the same identifier,
\* and none that of a PUBREL, unless it is complete.
Distinct(q) ==
  \A j, k \in DOMAIN q :
    (j # k /\ q[j].packet.pid = q[k].packet.pid /\ Draws(q[j].packet.type)) =>
      /\ ~Draws(q[k].packet.type)
      /\ q[k].packet.type = "PUBREL" => q[j].state = "COMPLETE"

NoUnsubscribe(q) == Threads = {} => \A k \in DOMAIN q : q[k].packet.type # "UNSUBSCRIBE"

QueueOK(q) == QueueTyped(q) /\ OneAwaits(q) /\ Distinct(q) /\ NoUnsubscribe(q)
Inv == ClientTyped /\ WireTyped /\ BrokerTyped /\ QueueOK(mq) /\ LoopKnows

\* Before mqtt_connect there is nothing.
Nothing == pc = "connect" => /\ mq = <<>> /\ toBroker = <<>> /\ toClient = <<>>
                             /\ held = {} /\ pending = {} /\ ~accepted

-----------------------------------------------------------------------------
(* Publishes of the broker are passed on once.                             *)

AtQos2(p) == p.type = "PUBLISH" /\ p.qos = 2
Passed(v) == \E j \in DOMAIN delivered : delivered[j].qos = 2 /\ delivered[j].val = v

\* A PUBREC in the queue keeps p from being passed on.
Guarded(p) == \E k \in DOMAIN mq : /\ mq[k].packet.type = "PUBREC" /\ mq[k].packet.pid = p.pid
                                   /\ mq[k].state # "COMPLETE"
Releases(x, p) == x.type = "PUBREL" /\ x.pid = p.pid

\* What the client may still receive, and what it may receive after the m-th packet
\* that is under way.
Coming == pending \cup {toClient[n] : n \in DOMAIN toClient}
Later(p, m) == p \in pending \/ \E n \in DOMAIN toClient : m < n /\ toClient[n] = p

OnePending == \A x, y \in pending : x.pid = y.pid => x = y
ValsKnown == /\ \A p \in Coming : AtQos2(p) => p.val <= published
             /\ \A j \in DOMAIN delivered : delivered[j].qos = 2 => delivered[j].val <= published
ValsApart == \A p, q \in Coming : (AtQos2(p) /\ AtQos2(q) /\ p.val = q.val) => p = q
PassedGuarded == \A p \in Coming : (AtQos2(p) /\ Passed(p.val)) => Guarded(p)

\* After a PUBREL only new publishes come with its identifier, and between two
\* copies of a publish there is no PUBREL of it.
NewAfterRelease ==
  \A m \in DOMAIN toClient, p \in Coming :
    (AtQos2(p) /\ Releases(toClient[m], p) /\ Later(p, m)) => ~Passed(p.val)
NoneReleasedBetween ==
  \A a, m \in DOMAIN toClient :
    (a < m /\ AtQos2(toClient[a]) /\ Later(toClient[a], m)) => ~Releases(toClient[m], toClient[a])
OnceInv == /\ delivered \in Seq(Receivable) /\ PassedOnce /\ OnePending /\ ValsKnown /\ ValsApart
           /\ PassedGuarded /\ NewAfterRelease /\ NoneReleasedBetween

-----------------------------------------------------------------------------
(* Answers find their requests, if none is sent twice.                     *)

\* No message is sent again because its answer is late.
SentOnce == Send => ~Overdue(mq[i])

Asks(p) == p.type # "GARBLED" /\ AfterSend(p) = "AWAITING_ACK"
Waits(m, type, pid) == m.state = "AWAITING_ACK" /\ m.packet.type = type /\ m.packet.pid = pid

\* What is under way and will complete a message: answers, and requests the broker answers.
Claim(side, n, type, pid) == [side |-> side, at |-> n, type |-> type, pid |-> pid]
Answering == {Claim("client", n, Origin[toClient[n].type], toClient[n].pid) :
                n \in {k \in DOMAIN toClient : toClient[k].type # "PUBLISH"}}
Asking == {Claim("broker", n, toBroker[n].type, toBroker[n].pid) :
             n \in {k \in DOMAIN toBroker : Asks(toBroker[k])}}
Claims == Answering \cup Asking

\* Each has a message of its own that waits for it.
Accounts(f, C, q) == /\ \A c \in C : f[c] \in DOMAIN q /\ Waits(q[f[c]], c.type, c.pid)
                     /\ \A c, d \in C : f[c] = f[d] => c = d
Accounted(C, q) == \E f \in [C -> DOMAIN q] : Accounts(f, C, q)
KnownInv == error # "ACK_OF_UNKNOWN" /\ resends = 0 /\ Accounted(Claims, mq)

-----------------------------------------------------------------------------
(* What is complete has been received, if identifiers are not drawn too early. *)

Acks == {"PUBACK", "PUBREC", "PUBCOMP"}

\* The identifiers of the exchanges of which a packet is under way or a publish held.
OnTheWay == {toClient[n].pid : n \in {k \in DOMAIN toClient : toClient[k].type \in Acks}}
            \cup {toBroker[n].pid : n \in {k \in DOMAIN toBroker : toBroker[k].type \in {"PUBLISH", "PUBREL"}}}
            \cup {h.pid : h \in held}

\* No identifier is drawn that belongs to one of them.  __mqtt_next_pid sees the queue
\* only, but draws all other identifiers before one comes round.
DrawsFree == \A c \in Calls : (Draws(c[1]) /\ Call(c[1], c[2])) => lfsr' \notin OnTheWay

Taken(v) == \E j \in DOMAIN got : got[j].val = v
Received(p) == Taken(p.val) \/ \E h \in held : h.pid = p.pid /\ h.val = p.val
Is(m, type, pid) == m.packet.type = type /\ m.packet.pid = pid
HasRelease(q, pid) == \E j \in DOMAIN q : Is(q[j], "PUBREL", pid)

\* While a publish is in the queue, the packets with its identifier are its own.
SentAsQueued(q) ==
  \A n \in DOMAIN toBroker, k \in DOMAIN q :
    Is(q[k], "PUBLISH", toBroker[n].pid) =>
      /\ toBroker[n].type = "PUBLISH" => toBroker[n] = q[k].packet /\ q[k].state # "UNSENT"
      /\ toBroker[n].type = "PUBREL" => HasRelease(q, toBroker[n].pid)
AnswersPublish(x, m, q) ==
  /\ x.type = "PUBACK" => m.state # "UNSENT" /\ m.packet.qos = 1 /\ Taken(m.packet.val)
  /\ x.type = "PUBREC" => m.state # "UNSENT" /\ m.packet.qos = 2 /\ Received(m.packet)
  /\ x.type = "PUBCOMP" => HasRelease(q, x.pid)
AnsweredAsQueued(q) ==
  \A n \in DOMAIN toClient, k \in DOMAIN q :
    /\ Is(q[k], "PUBLISH", toClient[n].pid) => AnswersPublish(toClient[n], q[k], q)
    /\ (toClient[n].type = "PUBCOMP" /\ Is(q[k], "PUBREL", toClient[n].pid)) => Taken(q[k].packet.val)
HeldAsQueued(q) == \A h \in held, k \in DOMAIN q :
                     Is(q[k], "PUBLISH", h.pid) => h = q[k].packet /\ q[k].state # "UNSENT"

\* A PUBREL comes after its PUBLISH, which the broker has received.
ReleaseFollows(q) ==
  \A k \in DOMAIN q : q[k].packet.type = "PUBREL" =>
    /\ Received(q[k].packet)
    /\ \A j \in DOMAIN q : (j # k /\ q[j].packet.pid = q[k].packet.pid) =>
         /\ q[j].packet.type # "PUBREL"
         /\ q[j].packet.type = "PUBLISH" => j < k
CompleteIsTaken(q) ==
  \A k \in DOMAIN q : q[k].state = "COMPLETE" =>
    /\ (q[k].packet.type = "PUBLISH" /\ q[k].packet.qos = 1) => Taken(q[k].packet.val)
    /\ IsQos2(q[k]) => Received(q[k].packet)
    /\ q[k].packet.type = "PUBREL" => Taken(q[k].packet.val)
OneSent(q) ==
  \A j, k \in DOMAIN q :
    (j < k /\ IsQos2(q[j]) /\ IsQos2(q[k]) /\ q[j].state # "COMPLETE") => q[k].state = "UNSENT"
ReceivedOK(q) == /\ SentAsQueued(q) /\ AnsweredAsQueued(q) /\ HeldAsQueued(q) /\ ReleaseFollows(q)
                 /\ CompleteIsTaken(q) /\ OneSent(q)
HeldTyped == /\ got \in Seq(Sendable) /\ held \subseteq Sendable
             /\ \A h, g \in held : AtQos2(h) /\ (h.pid = g.pid => h = g)

\* What the broker holds or will hold is finished by a message that waits in the queue.
Open(q, p) == \E k \in DOMAIN q : /\ q[k].packet.type \in {"PUBLISH", "PUBREL"} /\ q[k].state # "COMPLETE"
                                  /\ q[k].packet.pid = p.pid /\ q[k].packet.val = p.val
AllOpen(q) == /\ \A h \in held : Open(q, h)
              /\ \A n \in DOMAIN toBroker : AtQos2(toBroker[n]) => Open(q, toBroker[n])

\* None of its publishes comes after its PUBREL.
NoneAfterRelease ==
  /\ \A m, n \in DOMAIN toBroker : (m < n /\ toBroker[m].type = "PUBREL" /\ AtQos2(toBroker[n]))
                                   => toBroker[m].pid # toBroker[n].pid
  /\ \A n \in DOMAIN toClient : toClient[n].type = "PUBCOMP" =>
       /\ \A h \in held : h.pid # toClient[n].pid
       /\ \A m \in DOMAIN toBroker : AtQos2(toBroker[m]) => toBroker[m].pid # toClient[n].pid
ReceivedInv == ReceivedOK(mq) /\ HeldTyped /\ (error = "OK" => AllOpen(mq)) /\ NoneAfterRelease

-----------------------------------------------------------------------------
(* What the broker publishes is passed on, if its identifiers are not used *)
(* too early.                                                              *)

HasPubrec(pid) == \E k \in DOMAIN mq : Is(mq[k], "PUBREC", pid)
GivenOn(v) == \E k \in DOMAIN delivered : delivered[k].val = v
UnderWay(v) == \E k \in DOMAIN toClient : toClient[k].type = "PUBLISH" /\ toClient[k].val = v

\* The broker starts no exchange of QoS 2 with an identifier for which the client has a
\* PUBREC in its queue, complete or not, or of which a publish is still under way.
BrokerDrawsFree ==
  \A qos \in OutQos : (qos = 2 /\ BrokerPublishes(qos)) =>
    \A x \in pending' \ pending :
      ~HasPubrec(x.pid) /\ \A n \in DOMAIN toClient : AtQos2(toClient[n]) => toClient[n].pid # x.pid

\* What comes with one identifier is one publish, and what the client would take for a
\* duplicate has been passed on.
CopiesAlike == \A p, q \in Coming : (AtQos2(p) /\ AtQos2(q) /\ p.pid = q.pid) => p.val = q.val
DroppedArePassed == \A p \in Coming : (AtQos2(p) /\ HasPubrec(p.pid)) => Passed(p.val)
PassedInv == /\ reconnects \in MayReconnect /\ (pc = "connect" => published = 0)
             /\ CopiesAlike /\ (error = "OK" => DroppedArePassed) /\ (~reconnects => PassedOn)

\* Then they come in order: what has not been passed on yet is later than all that was, the
\* first copy of each is under way in that order, and none has been lost.
LaterUnpassed == \A p \in Coming, j \in DOMAIN delivered :
  (AtQos2(p) /\ ~Passed(p.val) /\ delivered[j].qos = 2) => delivered[j].val < p.val
FirstsFirst == \A n \in DOMAIN toClient, p \in Coming :
  (AtQos2(toClient[n]) /\ AtQos2(p) /\ ~Passed(p.val) /\ p.val < toClient[n].val)
    => \E m \in DOMAIN toClient : m < n /\ toClient[m] = p
NoneLost == \A p \in pending : AtQos2(p) => Passed(p.val) \/ \E n \in DOMAIN toClient : toClient[n] = p
TwosInOrder == /\ InOrder(delivered, 2) /\ LaterUnpassed
               /\ error = "OK" => FirstsFirst /\ (up => NoneLost)

\* Those of QoS 0 come once, and are not kept.
Zero(p) == p.type = "PUBLISH" /\ p.qos = 0
ZerosInOrder ==
  /\ InOrder(delivered, 0) /\ \A p \in pending : ~Zero(p)
  /\ \A m, n \in DOMAIN toClient :
       (m < n /\ Zero(toClient[m]) /\ Zero(toClient[n])) => toClient[m].val < toClient[n].val
  /\ \A n \in DOMAIN toClient : Zero(toClient[n]) =>
       /\ toClient[n].val <= published
       /\ \A j \in DOMAIN delivered : delivered[j].qos = 0 => delivered[j].val < toClient[n].val
  /\ \A j \in DOMAIN delivered : delivered[j].qos = 0 => delivered[j].val <= published

-----------------------------------------------------------------------------
(* Messages and packets.                                                   *)

LEMMA Constants ==
  /\ NPids \in Nat \ {0} /\ QueueCap \in Nat \ {0} /\ QueueCap < NPids /\ KeepAlive \in Nat \ {0}
  /\ BrokerPids \in 1..NPids /\ Pids = 1..NPids /\ None = 0 /\ Pids \cup {None} = 0..NPids
<1>1. NPids \in Nat \ {0}
  BY WireAssumption
<1>2. BrokerPids \in 1..NPids
  BY BrokerAssumption DEF Pids
<1> QED BY <1>1, <1>2, ClientAssumption DEF Pids, None

LEMMA MessageParts ==
  ASSUME NEW m \in Queued
  PROVE  /\ m.packet \in PacketsOf(Types) /\ Numbered(m.packet) /\ m.packet \in Sendable
         /\ m.state \in States /\ m.age \in 0..TimedOut
         /\ m = [packet |-> m.packet, state |-> m.state, age |-> m.age]
BY DEF Queued, Messages, PacketsOf, Sendable

LEMMA MessageBuilt ==
  ASSUME NEW p \in PacketsOf(Types), Numbered(p), NEW s \in States, NEW a \in 0..TimedOut
  PROVE  [packet |-> p, state |-> s, age |-> a] \in Queued
BY DEF Queued, Messages, PacketsOf

LEMMA NewMessage ==
  ASSUME NEW p \in PacketsOf(Types), Numbered(p)
  PROVE  New(p) \in Queued /\ New(p).packet = p /\ New(p).state = "UNSENT"
<1>1. "UNSENT" \in States /\ 0 \in 0..TimedOut
  BY DEF States, TimedOut
<1> QED BY <1>1, MessageBuilt DEF New

LEMMA ChangedMessage ==
  ASSUME NEW m \in Queued, NEW s \in States, NEW a \in 0..TimedOut
  PROVE  /\ [m EXCEPT !.state = s] \in Queued
         /\ [m EXCEPT !.state = s].packet = m.packet /\ [m EXCEPT !.state = s].state = s
         /\ [m EXCEPT !.age = a] \in Queued
         /\ [m EXCEPT !.age = a].packet = m.packet /\ [m EXCEPT !.age = a].state = m.state
<1>1. m = [packet |-> m.packet, state |-> m.state, age |-> m.age]
  BY MessageParts
<1>2. /\ [m EXCEPT !.state = s] = [packet |-> m.packet, state |-> s, age |-> m.age]
      /\ [m EXCEPT !.age = a] = [packet |-> m.packet, state |-> m.state, age |-> a]
  BY <1>1
<1> QED BY <1>2, MessageParts, MessageBuilt

-----------------------------------------------------------------------------
(* The queue.                                                              *)

LEMMA QueueParts ==
  ASSUME NEW q \in Seq(Queued)
  PROVE  Len(q) \in Nat /\ DOMAIN q = 1..Len(q) /\ \A k \in 1..Len(q) : q[k] \in Queued
BY LenProperties, ElementOfSeq

\* Cleaning takes complete messages away, from the oldest on.
LEMMA CleanedQueue ==
  ASSUME NEW q \in Seq(Queued)
  PROVE  \E n \in 0..Len(q) : /\ \A j \in 1..n : q[j].state = "COMPLETE"
                              /\ Cleaned(q) \in Seq(Queued) /\ Len(Cleaned(q)) = Len(q) - n
                              /\ \A j \in 1..(Len(q) - n) : Cleaned(q)[j] = q[j + n]
<1>1. Len(q) \in Nat /\ DOMAIN q = 1..Len(q) /\ \A k \in 1..Len(q) : q[k] \in Queued
  BY QueueParts
<1> DEFINE open == {k \in DOMAIN q : q[k].state # "COMPLETE"}
<1>2. CASE open = {}
  <2>1. Cleaned(q) = <<>>
    BY <1>2 DEF Cleaned
  <2>2. Cleaned(q) \in Seq(Queued) /\ Len(Cleaned(q)) = 0
    BY <2>1
  <2>3. \A j \in 1..Len(q) : q[j].state = "COMPLETE"
    BY <1>1, <1>2
  <2>4. Len(q) \in 0..Len(q) /\ Len(q) - Len(q) = 0
    BY <1>1
  <2> QED BY <2>2, <2>3, <2>4
<1>3. CASE open # {}
  <2>1. open \subseteq 0..Len(q)
    BY <1>1
  <2>2. Min(open) \in open /\ \A y \in open : Min(open) <= y
    <3> HIDE DEF open
    <3> QED BY <1>1, <1>3, <2>1, Minimum
  <2>3. PICK m : m = Min(open)
    OBVIOUS
  <2>4. m \in 1..Len(q) /\ \A y \in open : m <= y
    BY <1>1, <2>2, <2>3
  <2>5. \A j \in 1..(m - 1) : q[j].state = "COMPLETE"
    BY <1>1, <2>4
  <2>6. Cleaned(q) = SubSeq(q, m, Len(q))
    BY <1>3, <2>3 DEF Cleaned
  <2>7. m \in Int /\ Len(q) \in Int /\ \A j \in m..Len(q) : q[j] \in Queued
    BY <1>1, <2>4
  <2>8. /\ SubSeq(q, m, Len(q)) \in Seq(Queued)
        /\ Len(SubSeq(q, m, Len(q))) = IF m <= Len(q) THEN Len(q) - m + 1 ELSE 0
        /\ \A j \in 1..(Len(q) - m + 1) : SubSeq(q, m, Len(q))[j] = q[m + j - 1]
    BY <2>7, SubSeqProperties
  <2>9. PICK n : n = m - 1
    OBVIOUS
  <2>10. /\ n \in 0..Len(q) /\ Len(q) - m + 1 = Len(q) - n /\ m <= Len(q)
         /\ \A j \in 1..(Len(q) - n) : m + j - 1 = j + n
    BY <1>1, <2>4, <2>9
  <2>11. \A j \in 1..n : q[j].state = "COMPLETE"
    BY <2>5, <2>9
  <2>12. Cleaned(q) \in Seq(Queued) /\ Len(Cleaned(q)) = Len(q) - n
    BY <2>6, <2>8, <2>10
  <2>13. \A j \in 1..(Len(q) - n) : Cleaned(q)[j] = q[j + n]
    BY <2>6, <2>8, <2>10
  <2> HIDE DEF open
  <2> QED BY <2>10, <2>11, <2>12, <2>13
<1> QED BY <1>2, <1>3

\* r is q without its first n messages, which are complete, and perhaps with a new
\* one for p: what MQTT_CLIENT_TRY_PACK makes of the queue.
Packed(q, p, n, r) ==
  /\ n \in 0..Len(q) /\ \A j \in 1..n : q[j].state = "COMPLETE"
  /\ QueueTyped(r)
  /\ Len(r) = Len(q) - n \/ (Len(r) = Len(q) - n + 1 /\ r[Len(r)] = New(p))
  /\ \A j \in 1..(Len(q) - n) : r[j] = q[j + n]

LEMMA Appended ==
  ASSUME NEW q, NEW c \in Seq(Queued), NEW n \in 0..Len(q), Len(q) \in Nat,
         \A j \in 1..n : q[j].state = "COMPLETE",
         Len(c) = Len(q) - n, \A j \in 1..(Len(q) - n) : c[j] = q[j + n],
         Len(c) < QueueCap, NEW p, New(p) \in Queued
  PROVE  Packed(q, p, n, Append(c, New(p))) /\ Len(Append(c, New(p))) = Len(q) - n + 1
<1>1. PICK r : r = Append(c, New(p))
  OBVIOUS
<1>2. /\ r \in Seq(Queued) /\ Len(r) = Len(c) + 1 /\ r[Len(c) + 1] = New(p)
      /\ \A j \in 1..Len(c) : r[j] = c[j]
  BY <1>1, AppendProperties
<1>3. Len(r) <= QueueCap
  BY <1>2, LenProperties, Constants
<1> QED BY <1>1, <1>2, <1>3 DEF Packed, QueueTyped

LEMMA Shortened ==
  ASSUME NEW q, NEW c \in Seq(Queued), NEW n \in 0..Len(q), Len(q) \in Nat,
         \A j \in 1..n : q[j].state = "COMPLETE",
         Len(c) = Len(q) - n, \A j \in 1..(Len(q) - n) : c[j] = q[j + n],
         Len(c) <= QueueCap, NEW p
  PROVE  Packed(q, p, n, c)
BY DEF Packed, QueueTyped

\* MQTT_CLIENT_TRY_PACK stores the packet, or there is an error.
LEMMA Packing ==
  ASSUME NEW q, QueueTyped(q), NEW p, New(p) \in Queued, error \in Errors, TryPack(q, p)
  PROVE  \E n \in 0..Len(q) :
           /\ Packed(q, p, n, mq')
           /\ \/ error = "OK" /\ error' = "OK" /\ Len(mq') = Len(q) - n + 1
              \/ error # "OK" /\ error' = error /\ mq' = q /\ n = 0
              \/ error = "OK" /\ error' = "SEND_BUFFER_IS_FULL" /\ Len(mq') = Len(q) - n
<1>1. Len(q) \in Nat /\ QueueCap \in Nat /\ q \in Seq(Queued) /\ Len(q) <= QueueCap
  BY QueueParts, Constants DEF QueueTyped
<1>2. /\ 0 \in 0..Len(q) /\ \A j \in 1..0 : q[j].state = "COMPLETE"
      /\ Len(q) = Len(q) - 0 /\ \A j \in 1..(Len(q) - 0) : q[j] = q[j + 0]
  BY <1>1
<1>3. CASE error # "OK" /\ mq' = q /\ UNCHANGED error
  <2>1. Packed(q, p, 0, q)
    BY <1>1, <1>2, Shortened
  <2> QED BY <1>2, <1>3, <2>1
<1>4. CASE error = "OK" /\ Len(q) < QueueCap /\ mq' = Append(q, New(p)) /\ UNCHANGED error
  <2>1. Packed(q, p, 0, Append(q, New(p))) /\ Len(Append(q, New(p))) = Len(q) - 0 + 1
    BY <1>1, <1>2, <1>4, Appended
  <2> QED BY <1>2, <1>4, <2>1
<1>5. ASSUME error = "OK", Len(q) >= QueueCap,
             IF Len(Cleaned(q)) < QueueCap
               THEN mq' = Append(Cleaned(q), New(p)) /\ UNCHANGED error
               ELSE mq' = Cleaned(q) /\ error' = "SEND_BUFFER_IS_FULL"
      PROVE  \E n \in 0..Len(q) :
               /\ Packed(q, p, n, mq')
               /\ \/ error = "OK" /\ error' = "OK" /\ Len(mq') = Len(q) - n + 1
                  \/ error = "OK" /\ error' = "SEND_BUFFER_IS_FULL" /\ Len(mq') = Len(q) - n
  <2>1. PICK n \in 0..Len(q) : /\ \A j \in 1..n : q[j].state = "COMPLETE"
                               /\ Cleaned(q) \in Seq(Queued) /\ Len(Cleaned(q)) = Len(q) - n
                               /\ \A j \in 1..(Len(q) - n) : Cleaned(q)[j] = q[j + n]
    BY <1>1, CleanedQueue
  <2>2. Len(Cleaned(q)) <= QueueCap
    BY <1>1, <2>1
  <2>3. Packed(q, p, n, Cleaned(q))
    BY <1>1, <2>1, <2>2, Shortened
  <2>4. Len(Cleaned(q)) < QueueCap => /\ Packed(q, p, n, Append(Cleaned(q), New(p)))
                                      /\ Len(Append(Cleaned(q), New(p))) = Len(q) - n + 1
    BY <1>1, <2>1, Appended
  <2> QED BY <1>5, <2>1, <2>3, <2>4
<1> QED BY <1>3, <1>4, <1>5 DEF TryPack

\* A packet may join a queue if its identifier is in use by no message there, as far
\* as Distinct is concerned.
Joins(q, p) ==
  /\ Draws(p.type) => \A k \in DOMAIN q : q[k].packet.pid # p.pid
  /\ p.type = "PUBREL" => \A k \in DOMAIN q :
                            (Draws(q[k].packet.type) /\ q[k].packet.pid = p.pid) => q[k].state = "COMPLETE"
  /\ p.type = "UNSUBSCRIBE" => Threads # {}

LEMMA PackedIsOK ==
  ASSUME NEW q, QueueOK(q), NEW p, New(p) \in Queued, Joins(q, p), NEW n, NEW r, Packed(q, p, n, r)
  PROVE  QueueOK(r)
<1>1. /\ Len(q) \in Nat /\ DOMAIN q = 1..Len(q) /\ \A k \in 1..Len(q) : q[k] \in Queued
      /\ Len(r) \in Nat /\ DOMAIN r = 1..Len(r)
  BY QueueParts DEF QueueOK, QueueTyped, Packed
<1>2. /\ n \in 0..Len(q) /\ \A j \in 1..(Len(q) - n) : r[j] = q[j + n]
      /\ Len(r) = Len(q) - n \/ (Len(r) = Len(q) - n + 1 /\ r[Len(r)] = New(p))
  BY DEF Packed
<1>3. /\ Len(q) \in Nat /\ Len(r) \in Nat /\ n \in Nat /\ n <= Len(q)
      /\ Len(r) = Len(q) - n \/ Len(r) = Len(q) - n + 1
  <2>1. n \in 0..Len(q) /\ (Len(r) = Len(q) - n \/ Len(r) = Len(q) - n + 1)
    BY <1>2
  <2>2. Len(q) \in Nat /\ Len(r) \in Nat
    BY <1>1
  <2> QED BY <2>1, <2>2
<1>4. New(p).packet = p /\ New(p).state = "UNSENT"
  BY DEF New
<1>5. \A j \in DOMAIN r : \/ j \in 1..(Len(q) - n) /\ j + n \in DOMAIN q /\ r[j] = q[j + n]
                          \/ j = Len(q) - n + 1 /\ r[j] = New(p)
  <2>1. \A j \in 1..(Len(q) - n) : j + n \in 1..Len(q)
    BY <1>3
  <2>2. \A j \in 1..Len(r) : j \in 1..(Len(q) - n) \/ (j = Len(r) /\ j = Len(q) - n + 1)
    BY <1>3
  <2> QED BY <1>1, <1>2, <2>1, <2>2
<1>6. OneAwaits(r)
  <2>1. SUFFICES ASSUME NEW j \in DOMAIN r, NEW k \in DOMAIN r, j < k, IsQos2(r[j]), IsQos2(r[k]),
                        r[j].state # "COMPLETE", r[k].state = "AWAITING_ACK"
                 PROVE  FALSE
    BY DEF OneAwaits
  <2>2. k + n \in DOMAIN q /\ r[k] = q[k + n] /\ k \in 1..(Len(q) - n)
    BY <1>4, <1>5, <2>1
  <2>3. j + n \in DOMAIN q /\ r[j] = q[j + n] /\ j + n < k + n
    <3>1. j \in 1..Len(r) /\ k \in 1..Len(r)
      BY <1>1
    <3>2. j # Len(q) - n + 1 /\ j + n < k + n
      BY <1>3, <2>1, <2>2, <3>1
    <3> QED BY <1>5, <3>2
  <2> QED BY <2>1, <2>2, <2>3 DEF QueueOK, OneAwaits
<1>7. Distinct(r)
  <2>1. SUFFICES ASSUME NEW j \in DOMAIN r, NEW k \in DOMAIN r, j # k,
                        r[j].packet.pid = r[k].packet.pid, Draws(r[j].packet.type)
                 PROVE  /\ ~Draws(r[k].packet.type)
                        /\ r[k].packet.type = "PUBREL" => r[j].state = "COMPLETE"
    BY DEF Distinct
  <2>2. CASE j + n \in DOMAIN q /\ r[j] = q[j + n] /\ k + n \in DOMAIN q /\ r[k] = q[k + n]
    <3>1. j \in 1..Len(r) /\ k \in 1..Len(r)
      BY <1>1
    <3>2. j + n # k + n
      BY <1>3, <2>1, <3>1
    <3> QED BY <2>1, <2>2, <3>2 DEF QueueOK, Distinct
  <2>3. CASE j = Len(q) - n + 1 /\ r[j] = New(p) /\ k + n \in DOMAIN q /\ r[k] = q[k + n]
    BY <1>4, <2>1, <2>3 DEF Joins
  <2>4. CASE j + n \in DOMAIN q /\ r[j] = q[j + n] /\ k = Len(q) - n + 1 /\ r[k] = New(p)
    BY <1>4, <2>1, <2>4 DEF Joins
  <2> QED BY <1>5, <2>1, <2>2, <2>3, <2>4
<1>8. NoUnsubscribe(r)
  <2>1. SUFFICES ASSUME Threads = {}, NEW k \in DOMAIN r, r[k].packet.type = "UNSUBSCRIBE" PROVE FALSE
    BY DEF NoUnsubscribe
  <2> QED BY <1>4, <1>5, <2>1 DEF QueueOK, NoUnsubscribe, Joins
<1> QED BY <1>6, <1>7, <1>8 DEF QueueOK, Packed

\* r has the messages of q, some of them complete now.
Updated(q, r) == /\ r \in Seq(Queued) /\ Len(r) = Len(q)
                 /\ \A j \in 1..Len(q) : r[j].packet = q[j].packet
Completed(q, r) == Updated(q, r) /\ \A j \in 1..Len(q) : r[j].state \in {q[j].state, "COMPLETE"}

LEMMA CompletedIsOK ==
  ASSUME NEW q, QueueOK(q), NEW r, Completed(q, r)
  PROVE  QueueOK(r)
<1>1. Len(q) \in Nat /\ DOMAIN q = 1..Len(q) /\ DOMAIN r = 1..Len(q)
  BY QueueParts DEF QueueOK, QueueTyped, Completed, Updated
<1>2. \A j \in DOMAIN q : r[j].packet = q[j].packet /\ r[j].state \in {q[j].state, "COMPLETE"}
  BY <1>1 DEF Completed, Updated
<1>3. QueueTyped(r)
  BY DEF QueueOK, QueueTyped, Completed, Updated
<1>4. OneAwaits(r)
  BY <1>1, <1>2 DEF QueueOK, OneAwaits, IsQos2
<1>5. Distinct(r)
  BY <1>1, <1>2 DEF QueueOK, Distinct
<1>6. NoUnsubscribe(r)
  BY <1>1, <1>2 DEF QueueOK, NoUnsubscribe
<1> QED BY <1>3, <1>4, <1>5, <1>6 DEF QueueOK

LEMMA Released ==
  ASSUME NEW k \in DOMAIN mq, mq \in Seq(Queued)
  PROVE  /\ Completed(mq, Release(k)) /\ Release(k)[k].state = "COMPLETE"
         /\ \A j \in 1..Len(mq) : j # k => Release(k)[j].state = mq[j].state
<1>1. Len(mq) \in Nat /\ DOMAIN mq = 1..Len(mq) /\ \A j \in 1..Len(mq) : mq[j] \in Queued
  BY QueueParts
<1>2. PICK m : m = [mq[k] EXCEPT !.state = "COMPLETE"]
  OBVIOUS
<1>3. m \in Queued /\ m.packet = mq[k].packet /\ m.state = "COMPLETE"
  <2>1. "COMPLETE" \in States /\ mq[k].age \in 0..TimedOut
    BY <1>1, MessageParts DEF States
  <2> QED BY <1>1, <1>2, <2>1, ChangedMessage
<1>4. Release(k) = [mq EXCEPT ![k] = m]
  BY <1>2 DEF Release
<1>5. /\ Release(k) \in Seq(Queued) /\ Len(Release(k)) = Len(mq)
      /\ \A j \in 1..Len(mq) : Release(k)[j] = IF j = k THEN m ELSE mq[j]
  BY <1>1, <1>3, <1>4, ExceptSeq
<1> QED BY <1>1, <1>3, <1>5 DEF Completed, Updated

-----------------------------------------------------------------------------
(* __mqtt_next_pid always finds an identifier, for the queue holds fewer   *)
(* messages than there are identifiers.                                    *)

LEMMA ImageIsSmall ==
  ASSUME NEW S, IsFiniteSet(S), NEW f, DOMAIN f = S
  PROVE  IsFiniteSet({f[x] : x \in S}) /\ Cardinality({f[x] : x \in S}) <= Cardinality(S)
<1> DEFINE T == {f[x] : x \in S}
<1>1. PICK g : g = [x \in S |-> f[x]]
  OBVIOUS
<1>2. g \in [S -> T] /\ \A t \in T : \E x \in S : g[x] = t
  BY <1>1
<1>3. g \in Surjection(S, T)
  <2> HIDE DEF T
  <2> QED BY <1>2 DEF Surjection
<1>4. IsFiniteSet(T) /\ Cardinality(T) <= Cardinality(S)
  <2> HIDE DEF T
  <2> QED BY <1>3, FS_Surjection
<1> QED BY <1>4

LEMMA FreeIdentifier ==
  ASSUME QueueTyped(mq), NEW g \in Leftovers
  PROVE  Pids \ (Used \cup g) # {}
<1>1. Len(mq) \in Nat /\ DOMAIN mq = 1..Len(mq) /\ Len(mq) <= QueueCap
  BY QueueParts DEF QueueTyped
<1>2. IsFiniteSet(DOMAIN mq) /\ Cardinality(DOMAIN mq) = Len(mq)
  <2>1. PICK n \in Nat : n = Len(mq)
    BY <1>1
  <2>2. IsFiniteSet(1..n) /\ Cardinality(1..n) = n
    BY FS_Interval
  <2> QED BY <1>1, <2>1, <2>2
<1> DEFINE With == {k \in DOMAIN mq : mq[k].packet.pid # None}
           Without == {k \in DOMAIN mq : mq[k].packet.pid = None}
           Pid == [k \in With |-> mq[k].packet.pid]
           Taking == {Pid[k] : k \in With}
<1>3. With \in SUBSET DOMAIN mq /\ Without \in SUBSET DOMAIN mq
  OBVIOUS
<1>4. With \cap Without = {} /\ With \cup Without = DOMAIN mq
  OBVIOUS
<1>5. IsFiniteSet(With) /\ IsFiniteSet(Without)
  <2> HIDE DEF With, Without
  <2> QED BY <1>2, <1>3, FS_Subset
<1>6. Cardinality(With) + Cardinality(Without) = Len(mq)
  <2> HIDE DEF With, Without
  <2>1. Cardinality(With \cup Without)
          = Cardinality(With) + Cardinality(Without) - Cardinality(With \cap Without)
    BY <1>5, FS_Union
  <2>2. Cardinality(With) \in Nat /\ Cardinality(Without) \in Nat
    BY <1>5, FS_CardinalityType
  <2>3. Cardinality(With \cap Without) = 0
    BY <1>4, FS_EmptySet
  <2> QED BY <1>2, <1>4, <2>1, <2>2, <2>3
<1>7. IsFiniteSet(Taking) /\ Cardinality(Taking) <= Cardinality(With)
  <2>1. DOMAIN Pid = With
    OBVIOUS
  <2> HIDE DEF With, Pid
  <2> QED BY <1>5, <2>1, ImageIsSmall
<1>8. g \subseteq Pids /\ Cardinality(g) <= Cardinality(Without)
  BY DEF Leftovers
<1>9. IsFiniteSet(Pids) /\ Cardinality(Pids) = NPids
  BY Constants, FS_Interval
<1>10. IsFiniteSet(g)
  BY <1>8, <1>9, FS_Subset
<1>11. IsFiniteSet(Taking \cup g) /\ Cardinality(Taking \cup g) < NPids
  <2> HIDE DEF Taking, With, Without
  <2>1. IsFiniteSet(Taking \cup g)
        /\ Cardinality(Taking \cup g) = Cardinality(Taking) + Cardinality(g) - Cardinality(Taking \cap g)
    BY <1>7, <1>10, FS_Union
  <2>2. IsFiniteSet(Taking \cap g)
    BY <1>7, FS_Intersection
  <2>3. /\ Cardinality(Taking) \in Nat /\ Cardinality(g) \in Nat /\ Cardinality(Taking \cap g) \in Nat
        /\ Cardinality(With) \in Nat /\ Cardinality(Without) \in Nat
    BY <1>5, <1>7, <1>10, <2>2, FS_CardinalityType
  <2> QED BY <1>1, <1>6, <1>7, <1>8, <2>1, <2>3, Constants
<1>12. SUFFICES ASSUME Pids \subseteq Used \cup g PROVE FALSE
  OBVIOUS
<1>13. Pids \subseteq Taking \cup g
  <2>1. \A x \in Used : x = None \/ x \in Taking
    BY DEF Used
  <2>2. None \notin Pids
    BY Constants
  <2> HIDE DEF Taking
  <2> QED BY <1>12, <2>1, <2>2
<1> HIDE DEF Taking, With, Without
<1>14. Cardinality(Pids) <= Cardinality(Taking \cup g)
  <2>1. Pids \in SUBSET (Taking \cup g)
    BY <1>13
  <2> QED BY <1>11, <2>1, FS_Subset
<1>15. Cardinality(Taking \cup g) \in Nat
  BY <1>11, FS_CardinalityType
<1> QED BY <1>9, <1>11, <1>14, <1>15, Constants

\* So the identifier drawn is one, and no message of the queue has it.
LEMMA DrawnIsFree ==
  ASSUME QueueTyped(mq), NEW last, NEW pid \in NextPid(last)
  PROVE  pid \in Pids /\ \A k \in DOMAIN mq : mq[k].packet.pid # pid
<1>1. PICK g \in Leftovers : pid = Following(last, Used \cup g)
  BY DEF NextPid
<1> DEFINE free == Pids \ (Used \cup g)
           later == {p \in free : p > last}
<1>2. free # {} /\ free \subseteq Pids
  BY FreeIdentifier
<1>3. pid = IF \E p \in free : p > last THEN Min(later) ELSE Min(free)
  BY <1>1 DEF Following
<1>4. NPids \in Nat /\ Pids \subseteq 0..NPids
  BY Constants
<1>5. pid \in free
  <2>1. CASE \E p \in free : p > last
    <3>1. later # {} /\ later \subseteq free
      BY <2>1
    <3>2. later \subseteq 0..NPids
      <4> HIDE DEF later, free
      <4> QED BY <1>2, <1>4, <3>1
    <3>3. Min(later) \in later
      <4> HIDE DEF later
      <4> QED BY <1>4, <3>1, <3>2, Minimum
    <3>4. pid = Min(later)
      BY <1>3, <2>1
    <3> HIDE DEF later, free
    <3> QED BY <3>1, <3>3, <3>4
  <2>2. CASE ~\E p \in free : p > last
    <3>1. free \subseteq 0..NPids
      <4> HIDE DEF free
      <4> QED BY <1>2, <1>4
    <3>2. Min(free) \in free
      <4> HIDE DEF free
      <4> QED BY <1>2, <1>4, <3>1, Minimum
    <3>3. pid = Min(free)
      BY <1>3, <2>2
    <3> HIDE DEF free
    <3> QED BY <3>2, <3>3
  <2> QED BY <2>1, <2>2
<1> QED BY <1>5 DEF Used

-----------------------------------------------------------------------------
(* Every step keeps the invariant.                                         *)

LEMMA FirstMessage ==
  ASSUME NEW p \in {Simple("CONNECT", None)}, NEW q, q \in {<<New(p)>>, Append(<<>>, New(p))}
  PROVE  QueueOK(q) /\ Len(q) = 1 /\ q[1] = New(p)
<1>1. p.type = "CONNECT" /\ p \in PacketsOf(Types) /\ Numbered(p)
  BY DEF Simple, Packet, PacketsOf, Types, Numbered, WithoutId, None
<1>2. New(p) \in Queued /\ New(p).packet = p
  BY <1>1, NewMessage
<1>3. q \in Seq(Queued) /\ Len(q) = 1 /\ q[1] = New(p) /\ DOMAIN q = 1..1
  <2>1. PICK m \in Queued : m = New(p)
    BY <1>2
  <2>2. <<m>> \in Seq(Queued) /\ Len(<<m>>) = 1 /\ <<m>>[1] = m /\ DOMAIN <<m>> = 1..1
    OBVIOUS
  <2>3. Append(<<>>, m) = <<m>>
    OBVIOUS
  <2> QED BY <2>1, <2>2, <2>3
<1>4. \A k \in DOMAIN q : k = 1 /\ q[k].packet.type = "CONNECT"
  BY <1>1, <1>2, <1>3
<1>5. OneAwaits(q) /\ Distinct(q) /\ NoUnsubscribe(q)
  BY <1>4 DEF OneAwaits, Distinct, NoUnsubscribe, Draws
<1>6. QueueTyped(q)
  BY <1>3, Constants DEF QueueTyped
<1> QED BY <1>3, <1>5, <1>6 DEF QueueOK

LEMMA EmptyQueue ==
  QueueOK(<<>>)
<1>1. <<>> \in Seq(Queued) /\ Len(<<>>) = 0 /\ DOMAIN <<>> = {}
  OBVIOUS
<1>2. OneAwaits(<<>>) /\ Distinct(<<>>) /\ NoUnsubscribe(<<>>)
  BY <1>1 DEF OneAwaits, Distinct, NoUnsubscribe
<1> QED BY <1>1, <1>2, Constants DEF QueueOK, QueueTyped

LEMMA InvInitially ==
  Init => Inv
<1>1. SUFFICES ASSUME Init PROVE Inv
  OBVIOUS
<1> USE <1>1 DEF Init
<1>2. QueueOK(mq)
  BY EmptyQueue DEF ClientInit
<1>3. ClientTyped
  <2>1. error \in Errors /\ pc \in {"connect", "idle"} /\ reconnects \in BOOLEAN /\ lfsr \in 0..NPids
    BY Constants, ClientAssumption DEF ClientInit, Errors
  <2>2. offset = 0 /\ quiet \in 0..KeepAlive /\ i = 1 /\ inflight = FALSE /\ calls = 0 /\ ticks = 0
    BY DEF ClientInit
  <2>3. DrawnTyped
    BY Constants DEF ClientInit, DrawnTyped, Idle
  <2>4. offset \in 0..1 /\ i \in Nat \ {0} /\ calls \in Nat /\ ticks \in Nat
    BY <2>2
  <2>5. inflight \in BOOLEAN /\ quiet \in 0..KeepAlive
    BY <2>2
  <2>6. pc \in {"connect", "idle", "reconnected", "recv", "between", "send"}
    BY <2>1
  <2> QED BY <2>1, <2>3, <2>4, <2>5, <2>6 DEF ClientTyped
<1>4. WireTyped
  BY DEF WireInit, WireTyped
<1>5. BrokerTyped
  BY DEF BrokerInit, BrokerTyped
<1>6. LoopKnows
  BY DEF ClientInit, LoopKnows
<1> QED BY <1>2, <1>3, <1>4, <1>5, <1>6 DEF Inv

LEMMA ConnectSteps ==
  ASSUME Inv, Connect, UNCHANGED <<reconnects, broker>>
  PROVE  Inv'
<1>1. QueueOK(mq')
  BY FirstMessage DEF Connect
<1>2. ClientTyped'
  BY DEF Inv, Connect, ClientTyped, DrawnTyped, Errors
<1>3. WireTyped' /\ BrokerTyped'
  BY DEF Inv, Connect, WireTyped, BrokerTyped, wire, broker
<1>4. LoopKnows'
  BY DEF Connect, LoopKnows
<1> QED BY <1>1, <1>2, <1>3, <1>4 DEF Inv

LEMMA PackSteps ==
  ASSUME NEW q, QueueOK(q), error \in Errors, NEW p \in PacketsOf(Types), Numbered(p), Joins(q, p),
         TryPack(q, p)
  PROVE  QueueOK(mq') /\ error' \in Errors
<1>1. New(p) \in Queued
  BY NewMessage
<1>2. PICK n \in 0..Len(q) :
        /\ Packed(q, p, n, mq')
        /\ \/ error = "OK" /\ error' = "OK" /\ Len(mq') = Len(q) - n + 1
           \/ error # "OK" /\ error' = error /\ mq' = q /\ n = 0
           \/ error = "OK" /\ error' = "SEND_BUFFER_IS_FULL" /\ Len(mq') = Len(q) - n
  BY <1>1, Packing DEF QueueOK
<1>3. QueueOK(mq')
  BY <1>1, <1>2, PackedIsOK
<1>4. error' \in Errors
  BY <1>2 DEF Errors
<1> QED BY <1>3, <1>4

LEMMA CallSteps ==
  ASSUME Inv, NEW c \in Calls, Call(c[1], c[2]), UNCHANGED <<reconnects, broker>>
  PROVE  Inv'
<1>1. c[1] \in {"PUBLISH", "SUBSCRIBE", "PINGREQ", "DISCONNECT"} /\ c[2] \in 0..2
  BY ClientAssumption
<1>2. calls \in Nat /\ calls' = calls + 1 /\ calls' \in Nat /\ lfsr \in 0..NPids /\ error \in Errors
  BY DEF Inv, ClientTyped, Call, Called
<1>3. QueueOK(mq) /\ QueueTyped(mq)
  BY DEF Inv, QueueOK
<1>4. QueueOK(mq') /\ error' \in Errors /\ lfsr' \in 0..NPids
  <2>1. ASSUME Draws(c[1]), lfsr' \in NextPid(lfsr), TryPack(mq, Packet(c[1], c[2], lfsr', calls'))
        PROVE  QueueOK(mq') /\ error' \in Errors /\ lfsr' \in 0..NPids
    <3>1. PICK p : p = Packet(c[1], c[2], lfsr', calls')
      OBVIOUS
    <3>2. lfsr' \in Pids /\ \A k \in DOMAIN mq : mq[k].packet.pid # lfsr'
      BY <1>3, <2>1, DrawnIsFree
    <3>3. c[1] \in {"PUBLISH", "SUBSCRIBE"}
      BY <2>1 DEF Draws
    <3>4. p.type = c[1] /\ p.pid = lfsr'
      BY <3>1 DEF Packet
    <3>5. p \in PacketsOf(Types)
      BY <1>1, <1>2, <3>1, <3>2, <3>3 DEF Packet, PacketsOf, Types
    <3>6. Numbered(p)
      BY <3>2, <3>3, <3>4 DEF Numbered, WithoutId
    <3>7. Joins(mq, p)
      BY <3>2, <3>3, <3>4 DEF Joins
    <3>8. QueueOK(mq') /\ error' \in Errors
      BY <1>2, <1>3, <2>1, <3>1, <3>5, <3>6, <3>7, PackSteps
    <3> QED BY <3>2, <3>8, Constants
  <2>2. ASSUME ~Draws(c[1]), UNCHANGED lfsr, TryPack(mq, Simple(c[1], None))
        PROVE  QueueOK(mq') /\ error' \in Errors /\ lfsr' \in 0..NPids
    <3>1. PICK p : p = Simple(c[1], None)
      OBVIOUS
    <3>2. c[1] \in {"PINGREQ", "DISCONNECT"} /\ p.type = c[1] /\ p.pid = None
      BY <1>1, <2>2, <3>1 DEF Draws, Simple, Packet
    <3>3. p \in PacketsOf(Types)
      BY <3>1, <3>2 DEF Simple, Packet, PacketsOf, Types
    <3>4. Numbered(p) /\ Joins(mq, p)
      BY <3>2 DEF Numbered, WithoutId, Joins, Draws
    <3>5. QueueOK(mq') /\ error' \in Errors
      BY <1>2, <1>3, <2>2, <3>1, <3>3, <3>4, PackSteps
    <3> QED BY <1>2, <2>2, <3>5
  <2> QED BY <2>1, <2>2 DEF Call
<1>5. ClientTyped'
  BY <1>2, <1>4 DEF Inv, Call, ClientTyped, DrawnTyped
<1>6. WireTyped' /\ BrokerTyped'
  BY DEF Inv, Call, WireTyped, BrokerTyped, wire, broker
<1>7. LoopKnows'
  BY DEF Call, Unlocked, LoopKnows
<1> QED BY <1>4, <1>5, <1>6, <1>7 DEF Inv

LEMMA UnsubscribeSteps ==
  ASSUME Inv, NEW t \in Threads, UnsubscribeReads(t) \/ UnsubscribeWrites(t) \/ Unsubscribe(t),
         UNCHANGED <<reconnects, broker>>
  PROVE  Inv'
<1>1. QueueOK(mq) /\ QueueTyped(mq) /\ error \in Errors /\ lfsr \in 0..NPids /\ calls \in Nat
  BY DEF Inv, QueueOK, ClientTyped
<1>2. /\ drawn \in [Threads -> {"no", "read", "written"} \X (0..NPids)]
      /\ \A s \in Threads : drawn[s] = Idle \/ drawn[s][2] \in Pids
      /\ drawn[t] \in {"no", "read", "written"} \X (0..NPids) /\ Pids \subseteq 0..NPids /\ Idle[1] = "no"
  BY Constants DEF Inv, ClientTyped, DrawnTyped, Idle
<1>3. CASE UnsubscribeReads(t)
  <2>1. PICK pid \in NextPid(lfsr) : drawn' = [drawn EXCEPT ![t] = <<"read", pid>>]
    BY <1>3 DEF UnsubscribeReads
  <2>2. pid \in Pids
    BY <1>1, DrawnIsFree
  <2>3. DrawnTyped'
    BY <1>2, <2>1, <2>2 DEF DrawnTyped
  <2>4. calls' \in Nat
    BY <1>1, <1>3 DEF UnsubscribeReads, Called
  <2>5. ClientTyped' /\ QueueOK(mq')
    BY <1>1, <1>3, <2>3, <2>4 DEF Inv, UnsubscribeReads, ClientTyped
  <2>6. WireTyped' /\ BrokerTyped' /\ LoopKnows'
    BY <1>3 DEF Inv, UnsubscribeReads, WireTyped, BrokerTyped, wire, broker, LoopKnows
  <2> QED BY <2>5, <2>6 DEF Inv
<1>4. CASE UnsubscribeWrites(t)
  <2>1. drawn[t][2] \in Pids
    BY <1>2, <1>4 DEF UnsubscribeWrites
  <2>2. lfsr' \in Pids /\ drawn' = [drawn EXCEPT ![t] = <<"written", lfsr'>>]
    BY <1>4, <2>1 DEF UnsubscribeWrites
  <2>3. DrawnTyped'
    BY <1>2, <2>2 DEF DrawnTyped
  <2>4. ClientTyped' /\ QueueOK(mq')
    BY <1>1, <1>2, <1>4, <2>2, <2>3 DEF Inv, UnsubscribeWrites, ClientTyped
  <2>5. WireTyped' /\ BrokerTyped' /\ LoopKnows'
    BY <1>4 DEF Inv, UnsubscribeWrites, WireTyped, BrokerTyped, wire, broker, LoopKnows
  <2> QED BY <2>4, <2>5 DEF Inv
<1>5. CASE Unsubscribe(t)
  <2>1. drawn[t][2] \in Pids
    BY <1>2, <1>5 DEF Unsubscribe
  <2>2. PICK p : p = Simple("UNSUBSCRIBE", drawn[t][2])
    OBVIOUS
  <2>3. p.type = "UNSUBSCRIBE" /\ p.pid \in Pids
    BY <2>1, <2>2 DEF Simple, Packet
  <2>4. p \in PacketsOf(Types)
    BY <2>1, <2>2 DEF Simple, Packet, PacketsOf, Types
  <2>5. Numbered(p) /\ Joins(mq, p)
    BY <2>3 DEF Numbered, WithoutId, Joins, Draws
  <2>6. QueueOK(mq') /\ error' \in Errors
    BY <1>1, <1>5, <2>2, <2>4, <2>5, PackSteps DEF Unsubscribe
  <2>7. DrawnTyped'
    <3>1. drawn' = [drawn EXCEPT ![t] = Idle] /\ Idle \in {"no", "read", "written"} \X (0..NPids)
      BY <1>5, Constants DEF Unsubscribe, Idle
    <3> QED BY <1>2, <3>1 DEF DrawnTyped
  <2>8. ClientTyped'
    BY <1>1, <1>5, <2>6, <2>7 DEF Inv, Unsubscribe, ClientTyped
  <2>9. WireTyped' /\ BrokerTyped'
    BY <1>5 DEF Inv, Unsubscribe, WireTyped, BrokerTyped, wire, broker
  <2>10. LoopKnows'
    BY <1>5 DEF Unsubscribe, Unlocked, LoopKnows
  <2> QED BY <2>6, <2>8, <2>9, <2>10 DEF Inv
<1> QED BY <1>3, <1>4, <1>5

LEMMA FirstPacket ==
  ASSUME Inv, toClient # <<>>
  PROVE  /\ Head(toClient) \in Receivable /\ Tail(toClient) \in Seq(Receivable)
         /\ Len(toClient) \in Nat \ {0} /\ Len(Tail(toClient)) = Len(toClient) - 1
         /\ Head(toClient) = toClient[1]
         /\ \A n \in 1..Len(Tail(toClient)) : Tail(toClient)[n] = toClient[n + 1]
<1>1. toClient \in Seq(Receivable)
  BY DEF Inv, WireTyped
<1> QED BY <1>1, HeadTailProperties, EmptySeq

\* Where an acknowledgement is looked for, and what is found.
LEMMA Found ==
  ASSUME NEW type, NEW pid, mq \in Seq(Queued)
  PROVE  /\ \A k \in Find(type, pid) :
              /\ k \in 1..Len(mq) /\ mq[k].packet.type = type
              /\ pid # None => mq[k].packet.pid = pid
              /\ pid = None => mq[k].state # "COMPLETE"
         /\ Find(type, pid) # {} => Min(Find(type, pid)) \in Find(type, pid)
<1>1. Len(mq) \in Nat /\ DOMAIN mq = 1..Len(mq)
  BY QueueParts
<1>2. \A k \in Find(type, pid) : /\ k \in 1..Len(mq) /\ mq[k].packet.type = type
                                 /\ pid # None => mq[k].packet.pid = pid
                                 /\ pid = None => mq[k].state # "COMPLETE"
  BY <1>1 DEF Find
<1>3. Find(type, pid) \subseteq 0..Len(mq)
  BY <1>1, <1>2
<1> QED BY <1>1, <1>2, <1>3, Minimum

\* What an acknowledgement does: nothing, an error, or it completes the message k.
LEMMA AcknowledgeParts ==
  ASSUME Inv, NEW p \in Receivable, p.type # "PUBLISH", Acknowledge(p)
  PROVE  \/ Duplicate(p) /\ UNCHANGED <<mq, error, pc>>
         \/ Find(Origin[p.type], p.pid) = {} /\ error' = "ACK_OF_UNKNOWN" /\ pc' = "idle" /\ UNCHANGED mq
         \/ \E k \in 1..Len(mq) :
              /\ ~Duplicate(p) /\ k = Min(Find(Origin[p.type], p.pid)) /\ k \in Find(Origin[p.type], p.pid)
              /\ \/ /\ p.type = "PUBREC" /\ (pc' = pc \/ pc' = "idle")
                    /\ TryPack(Release(k), Packet("PUBREL", 0, p.pid, mq[k].packet.val))
                 \/ /\ p.type = "PUBREL" /\ (pc' = pc \/ pc' = "idle")
                    /\ TryPack(Release(k), Simple("PUBCOMP", p.pid))
                 \/ /\ p.type \notin {"PUBREC", "PUBREL"} /\ mq' = Release(k)
                    /\ \/ error' = error /\ pc' = pc
                       \/ error' \in {"CONNECTION_REFUSED", "SUBSCRIBE_FAILED"} /\ pc' = "idle"
<1>1. mq \in Seq(Queued)
  BY DEF Inv, QueueOK, QueueTyped
<1> DEFINE found == Find(Origin[p.type], p.pid)
<1>2. CASE Duplicate(p) /\ UNCHANGED <<mq, error>> /\ GoOn
  BY <1>2 DEF GoOn
<1>3. CASE ~Duplicate(p) /\ found = {} /\ UNCHANGED mq /\ Fail("ACK_OF_UNKNOWN")
  BY <1>3 DEF Fail, Return
<1>4. CASE ~Duplicate(p) /\ found # {} /\ Acknowledged(p, Min(found))
  <2>1. PICK k : k = Min(found)
    OBVIOUS
  <2>2. k \in found /\ k \in 1..Len(mq)
    BY <1>1, <1>4, <2>1, Found
  <2>3. Acknowledged(p, k)
    BY <1>4, <2>1
  <2>4. CASE p.type = "PUBREC"
    BY <1>4, <2>1, <2>2, <2>3, <2>4 DEF Acknowledged, Answer, GoOn, Return
  <2>5. CASE p.type = "PUBREL"
    BY <1>4, <2>1, <2>2, <2>3, <2>5 DEF Acknowledged, Answer, GoOn, Return
  <2>6. CASE p.type \notin {"PUBREC", "PUBREL"}
    <3>1. mq' = Release(k)
          /\ \/ error' = error /\ pc' = pc
             \/ error' \in {"CONNECTION_REFUSED", "SUBSCRIBE_FAILED"} /\ pc' = "idle"
      BY <2>3, <2>6 DEF Acknowledged, Fail, GoOn, Return
    <3> QED BY <1>4, <2>1, <2>2, <2>6, <3>1
  <2> QED BY <2>4, <2>5, <2>6
<1> QED BY <1>2, <1>3, <1>4 DEF Acknowledge

LEMMA DeliverParts ==
  ASSUME NEW p \in Receivable, Deliver(p)
  PROVE  \/ p.qos = 0 /\ UNCHANGED <<mq, error, pc>> /\ delivered' = Append(delivered, p)
         \/ /\ p.qos = 2 /\ Find("PUBREC", p.pid) # {} /\ UNCHANGED <<mq, error, delivered, pc>>
         \/ /\ p.qos \in {1, 2} /\ (p.qos = 2 => Find("PUBREC", p.pid) = {})
            /\ TryPack(mq, Simple(IF p.qos = 1 THEN "PUBACK" ELSE "PUBREC", p.pid))
            /\ pc' = pc \/ pc' = "idle"
            /\ delivered' = IF error' = "OK" THEN Append(delivered, p) ELSE delivered
BY DEF Deliver, Answer, GoOn, Return

\* The packets that answer one from the broker.
LEMMA AnswerPacket ==
  ASSUME NEW type \in {"PUBACK", "PUBREC", "PUBCOMP", "PUBREL"}, NEW pid \in Pids, NEW val \in Nat, NEW p,
         p \in {Simple(type, pid), Packet(type, 0, pid, val)}
  PROVE  /\ p.type = type /\ p.pid = pid /\ p \in PacketsOf(Types) /\ Numbered(p)
         /\ \A q : type # "PUBREL" => Joins(q, p)
<1>1. p.type = type /\ p.pid = pid
  BY DEF Simple, Packet
<1>2. p \in PacketsOf(Types)
  BY DEF Simple, Packet, PacketsOf, Types
<1>3. Numbered(p)
  BY <1>1 DEF Numbered, WithoutId
<1>4. \A q : type # "PUBREL" => Joins(q, p)
  BY <1>1 DEF Joins, Draws
<1> QED BY <1>1, <1>2, <1>3, <1>4

LEMMA DeliverKeeps ==
  ASSUME Inv, NEW p \in Receivable, p.type = "PUBLISH", Deliver(p)
  PROVE  QueueOK(mq') /\ error' \in Errors /\ (pc' = pc \/ pc' = "idle")
<1>1. QueueOK(mq) /\ error \in Errors
  BY DEF Inv, ClientTyped
<1>2. ASSUME p.qos \in {1, 2}, TryPack(mq, Simple(IF p.qos = 1 THEN "PUBACK" ELSE "PUBREC", p.pid))
      PROVE  QueueOK(mq') /\ error' \in Errors
  <2>1. p.pid \in Pids /\ 0 \in Nat
    BY <1>2 DEF Receivable, Numbered, WithoutId
  <2>2. PICK r : r = Simple(IF p.qos = 1 THEN "PUBACK" ELSE "PUBREC", p.pid)
    OBVIOUS
  <2>3. r \in PacketsOf(Types) /\ Numbered(r) /\ Joins(mq, r)
    <3>1. CASE p.qos = 1
      <4>1. r \in {Simple("PUBACK", p.pid), Packet("PUBACK", 0, p.pid, 0)}
        BY <2>2, <3>1
      <4> QED BY <2>1, <4>1, AnswerPacket
    <3>2. CASE p.qos = 2
      <4>1. r \in {Simple("PUBREC", p.pid), Packet("PUBREC", 0, p.pid, 0)}
        BY <2>2, <3>2
      <4> QED BY <2>1, <4>1, AnswerPacket
    <3> QED BY <1>2, <3>1, <3>2
  <2> QED BY <1>1, <1>2, <2>2, <2>3, PackSteps
<1> QED BY <1>1, <1>2, DeliverParts

\* The PUBREL that follows a PUBREC has the identifier of the PUBLISH just completed,
\* which no other request has.
LEMMA AcknowledgeKeeps ==
  ASSUME Inv, NEW p \in Receivable, p.type # "PUBLISH", Acknowledge(p)
  PROVE  QueueOK(mq') /\ error' \in Errors /\ (pc' = pc \/ pc' = "idle")
<1>1. /\ QueueOK(mq) /\ error \in Errors /\ mq \in Seq(Queued) /\ Len(mq) \in Nat /\ DOMAIN mq = 1..Len(mq)
      /\ \A j \in 1..Len(mq) : mq[j] \in Queued
  <2>1. mq \in Seq(Queued)
    BY DEF Inv, QueueOK, QueueTyped
  <2> QED BY <2>1, QueueParts DEF Inv, ClientTyped
<1>2. CASE Duplicate(p) /\ UNCHANGED <<mq, error, pc>>
  BY <1>1, <1>2
<1>3. CASE Find(Origin[p.type], p.pid) = {} /\ error' = "ACK_OF_UNKNOWN" /\ pc' = "idle" /\ UNCHANGED mq
  BY <1>1, <1>3 DEF Errors
<1>4. ASSUME NEW k \in 1..Len(mq), k \in Find(Origin[p.type], p.pid)
      PROVE  QueueOK(Release(k)) /\ mq[k].packet.type = Origin[p.type] /\ (p.pid # None => mq[k].packet.pid = p.pid)
  <2>1. Completed(mq, Release(k))
    BY <1>1, Released
  <2> QED BY <1>1, <1>4, <2>1, CompletedIsOK, Found
<1>5. ASSUME NEW k \in 1..Len(mq), k \in Find(Origin[p.type], p.pid), p.type = "PUBREC",
             TryPack(Release(k), Packet("PUBREL", 0, p.pid, mq[k].packet.val))
      PROVE  QueueOK(mq') /\ error' \in Errors
  <2>1. PICK r : r = Packet("PUBREL", 0, p.pid, mq[k].packet.val)
    OBVIOUS
  <2>2. p.pid \in Pids /\ p.pid # None
    BY <1>5, Constants DEF Receivable, Numbered, WithoutId
  <2>3. mq[k].packet.val \in Nat
    BY <1>1, MessageParts DEF PacketsOf
  <2>4. r.type = "PUBREL" /\ r.pid = p.pid /\ r \in PacketsOf(Types) /\ Numbered(r)
    <3>1. r \in {Simple("PUBREL", p.pid), Packet("PUBREL", 0, p.pid, mq[k].packet.val)}
      BY <2>1
    <3> QED BY <2>2, <2>3, <3>1, AnswerPacket
  <2>5. Draws(mq[k].packet.type) /\ mq[k].packet.pid = p.pid
    BY <1>4, <1>5, <2>2 DEF Origin, Draws
  <2>6. Joins(Release(k), r)
    <3>1. ASSUME NEW j \in DOMAIN Release(k), Draws(Release(k)[j].packet.type),
                 Release(k)[j].packet.pid = r.pid
          PROVE  Release(k)[j].state = "COMPLETE"
      <4>1. j \in 1..Len(mq) /\ Release(k)[j].packet = mq[j].packet /\ Release(k)[k].state = "COMPLETE"
        <5>1. Completed(mq, Release(k)) /\ Release(k)[k].state = "COMPLETE"
          BY <1>1, Released
        <5>2. DOMAIN Release(k) = 1..Len(mq)
          BY <1>1, <5>1, LenProperties DEF Completed, Updated
        <5> QED BY <5>1, <5>2 DEF Completed, Updated
      <4>2. j = k
        BY <1>1, <2>4, <2>5, <3>1, <4>1 DEF QueueOK, Distinct
      <4> QED BY <4>1, <4>2
    <3> QED BY <2>4, <3>1 DEF Joins, Draws
  <2> QED BY <1>1, <1>4, <1>5, <2>1, <2>4, <2>6, PackSteps
<1>6. ASSUME NEW k \in 1..Len(mq), k \in Find(Origin[p.type], p.pid), p.type = "PUBREL",
             TryPack(Release(k), Simple("PUBCOMP", p.pid))
      PROVE  QueueOK(mq') /\ error' \in Errors
  <2>1. PICK r : r = Simple("PUBCOMP", p.pid)
    OBVIOUS
  <2>2. p.pid \in Pids /\ 0 \in Nat
    BY <1>6 DEF Receivable, Numbered, WithoutId
  <2>3. r \in PacketsOf(Types) /\ Numbered(r) /\ Joins(Release(k), r)
    <3>1. r \in {Simple("PUBCOMP", p.pid), Packet("PUBCOMP", 0, p.pid, 0)}
      BY <2>1
    <3> QED BY <2>2, <3>1, AnswerPacket
  <2> QED BY <1>1, <1>4, <1>6, <2>1, <2>3, PackSteps
<1>7. {"CONNECTION_REFUSED", "SUBSCRIBE_FAILED"} \subseteq Errors
  BY DEF Errors
<1> QED BY <1>1, <1>2, <1>3, <1>4, <1>5, <1>6, <1>7, AcknowledgeParts, ZenonT(60)

LEMMA ReceiveSteps ==
  ASSUME Inv, Receive, UNCHANGED <<reconnects, broker>>
  PROVE  Inv'
<1>1. PICK p : p = Head(toClient)
  OBVIOUS
<1>2. p \in Receivable /\ toClient' = Tail(toClient) /\ toClient' \in Seq(Receivable)
  BY <1>1, FirstPacket DEF Receive
<1>3. IF p.type = "PUBLISH" THEN Deliver(p) ELSE Acknowledge(p)
  BY <1>1 DEF Receive
<1>4. QueueOK(mq') /\ error' \in Errors /\ (pc' = pc \/ pc' = "idle") /\ pc = "recv"
  BY <1>2, <1>3, DeliverKeeps, AcknowledgeKeeps DEF Receive
<1>5. ClientTyped'
  BY <1>4 DEF Inv, Receive, ClientTyped, DrawnTyped
<1>6. WireTyped' /\ BrokerTyped'
  BY <1>2 DEF Inv, Receive, WireTyped, BrokerTyped, broker
<1>7. LoopKnows'
  BY <1>4 DEF LoopKnows
<1> QED BY <1>4, <1>5, <1>6, <1>7 DEF Inv

LEMMA SyncSteps ==
  ASSUME Inv, Sync \/ ReceiveEnds \/ SendStarts, UNCHANGED <<reconnects, broker>>
  PROVE  Inv'
<1>1. QueueOK(mq') /\ WireTyped' /\ BrokerTyped'
  BY DEF Inv, Sync, ReceiveEnds, SendStarts, WireTyped, BrokerTyped, wire, broker
<1>2. ClientTyped'
  <2>1. CASE Sync
    BY <2>1 DEF Inv, Sync, ClientTyped, DrawnTyped
  <2>2. CASE ReceiveEnds
    BY <2>2 DEF Inv, ReceiveEnds, ClientTyped, DrawnTyped, Fail, Return, Errors
  <2>3. CASE SendStarts
    <3>1. pc' \in {"send", "idle"} /\ i' \in {1, i} /\ (inflight' = FALSE \/ inflight' = inflight)
      BY <2>3 DEF SendStarts, Return
    <3>2. i' \in Nat \ {0}
      BY <3>1 DEF Inv, ClientTyped
    <3>3. inflight' \in BOOLEAN
      BY <3>1, Zenon DEF Inv, ClientTyped
    <3>4. UNCHANGED <<error, lfsr, offset, quiet, drawn, reconnects, calls, ticks>>
      BY <2>3 DEF SendStarts
    <3> QED BY <3>1, <3>2, <3>3, <3>4 DEF Inv, ClientTyped, DrawnTyped
  <2> QED BY <2>1, <2>2, <2>3
<1>3. LoopKnows'
  <2>1. CASE pc' = "send"
    <3>1. i' = 1 /\ mq' = mq
      BY <2>1 DEF Sync, ReceiveEnds, SendStarts, Fail, Return
    <3>2. DOMAIN mq = 1..Len(mq) /\ Len(mq) \in Nat
      BY QueueParts DEF Inv, QueueOK, QueueTyped
    <3> QED BY <3>1, <3>2 DEF LoopKnows
  <2> QED BY <2>1 DEF LoopKnows
<1> QED BY <1>1, <1>2, <1>3 DEF Inv

LEMMA SendEndsSteps ==
  ASSUME Inv, SendEnds, UNCHANGED <<reconnects, broker>>
  PROVE  Inv'
<1>1. PICK p : p = Simple("PINGREQ", None)
  OBVIOUS
<1>2. p.type = "PINGREQ" /\ p.pid = None /\ p \in PacketsOf(Types)
  BY <1>1 DEF Simple, Packet, PacketsOf, Types
<1>3. Numbered(p) /\ Joins(mq, p)
  BY <1>2 DEF Numbered, WithoutId, Joins, Draws
<1>4. QueueOK(mq') /\ error' \in Errors
  BY <1>1, <1>2, <1>3, PackSteps DEF Inv, ClientTyped, SendEnds
<1>5. ClientTyped' /\ pc' = "idle"
  BY <1>4 DEF Inv, SendEnds, ClientTyped, DrawnTyped, Return
<1>6. WireTyped' /\ BrokerTyped'
  BY DEF Inv, SendEnds, WireTyped, BrokerTyped, wire, broker
<1> QED BY <1>4, <1>5, <1>6 DEF Inv, LoopKnows

LEMMA TickSteps ==
  ASSUME Inv, Tick, UNCHANGED <<reconnects, broker>>
  PROVE  Inv' /\ Completed(mq, mq') /\ \A k \in 1..Len(mq) : mq'[k].state = mq[k].state
<1>1. /\ Len(mq) \in Nat /\ DOMAIN mq = 1..Len(mq) /\ \A k \in 1..Len(mq) : mq[k] \in Queued
  BY QueueParts DEF Inv, QueueOK, QueueTyped
<1>2. \A k \in 1..Len(mq) : /\ mq'[k] \in Queued /\ mq'[k].packet = mq[k].packet
                            /\ mq'[k].state = mq[k].state
  <2>1. SUFFICES ASSUME NEW k \in 1..Len(mq)
                 PROVE  mq'[k] \in Queued /\ mq'[k].packet = mq[k].packet /\ mq'[k].state = mq[k].state
    OBVIOUS
  <2>2. \/ mq'[k] = mq[k]
        \/ mq[k].age < TimedOut /\ mq'[k] = [mq[k] EXCEPT !.age = mq[k].age + 1]
    BY <1>1 DEF Tick
  <2>3. mq[k].age < TimedOut => mq[k].age + 1 \in 0..TimedOut
    BY <1>1, MessageParts DEF TimedOut
  <2>4. PICK a : a = mq[k].age + 1
    OBVIOUS
  <2>5. "COMPLETE" \in States
    BY DEF States
  <2>6. CASE mq'[k] = mq[k]
    BY <1>1, <2>6
  <2>7. CASE mq[k].age < TimedOut /\ mq'[k] = [mq[k] EXCEPT !.age = a]
    <3>1. mq[k] \in Queued /\ a \in 0..TimedOut
      BY <1>1, <2>3, <2>4, <2>7
    <3>2. PICK m \in Queued : m = mq[k]
      BY <3>1
    <3>3. /\ [m EXCEPT !.age = a] \in Queued /\ [m EXCEPT !.age = a].packet = m.packet
          /\ [m EXCEPT !.age = a].state = m.state
      BY <2>5, <3>1, ChangedMessage
    <3> QED BY <2>7, <3>2, <3>3
  <2> QED BY <2>2, <2>4, <2>6, <2>7
<1>3. mq' = [k \in 1..Len(mq) |-> mq'[k]]
  BY <1>1 DEF Tick
<1>4. mq' \in Seq(Queued) /\ Len(mq') = Len(mq)
  <2>1. mq' \in [1..Len(mq) -> Queued]
    BY <1>2, <1>3
  <2> QED BY <1>1, <2>1
<1>5. Completed(mq, mq')
  BY <1>2, <1>4 DEF Completed, Updated
<1>6. QueueOK(mq')
  BY <1>5, CompletedIsOK DEF Inv
<1>7. ClientTyped'
  <2>1. quiet' \in 0..KeepAlive /\ ticks' \in Nat
    BY Constants DEF Inv, ClientTyped, Tick
  <2>2. UNCHANGED <<error, lfsr, offset, pc, i, inflight, drawn, reconnects, calls>>
    BY DEF Tick
  <2> QED BY <2>1, <2>2 DEF Inv, ClientTyped, DrawnTyped
<1>8. WireTyped' /\ BrokerTyped'
  BY DEF Inv, Tick, WireTyped, BrokerTyped, wire, broker
<1>9. LoopKnows'
  <2>1. DOMAIN mq' = DOMAIN mq /\ UNCHANGED <<pc, i, inflight>>
    BY <1>1, <1>3 DEF Tick
  <2> QED BY <1>1, <1>2, <1>4, <2>1 DEF Inv, LoopKnows, IsQos2
<1> QED BY <1>2, <1>5, <1>6, <1>7, <1>8, <1>9 DEF Inv

-----------------------------------------------------------------------------
(* __mqtt_send.                                                            *)

LEMMA GarbledTyped ==
  Garbled \in Sendable /\ Garbled.type = "GARBLED" /\ ~AtQos2(Garbled)
BY DEF Garbled, Simple, Packet, Sendable, PacketsOf, Numbered, WithoutId, AtQos2

LEMMA SentMessage ==
  ASSUME NEW k \in 1..Len(mq), mq \in Seq(Queued), NEW r, r = [mq EXCEPT ![k] = Sent(mq[k])]
  PROVE  /\ Updated(mq, r) /\ r[k].state = AfterSend(mq[k].packet)
         /\ \A j \in 1..Len(mq) : j # k => r[j] = mq[j]
<1>1. mq[k] \in Queued /\ Len(mq) \in Nat
  BY QueueParts
<1>2. AfterSend(mq[k].packet) \in States /\ 0 \in 0..TimedOut
  BY DEF AfterSend, States, TimedOut
<1>3. Sent(mq[k]) \in Queued /\ Sent(mq[k]).packet = mq[k].packet
      /\ Sent(mq[k]).state = AfterSend(mq[k].packet)
  <2>1. mq[k].packet \in PacketsOf(Types) /\ Numbered(mq[k].packet)
    BY <1>1, MessageParts
  <2> QED BY <1>2, <2>1, MessageBuilt DEF Sent
<1>4. PICK m \in Queued : m = Sent(mq[k])
  BY <1>3
<1>5. /\ r \in Seq(Queued) /\ Len(r) = Len(mq)
      /\ \A j \in 1..Len(mq) : r[j] = IF j = k THEN m ELSE mq[j]
  BY <1>4, ExceptSeq
<1> QED BY <1>3, <1>4, <1>5 DEF Updated

\* What happens to the message at i: it is passed over, sent, sent in part, or not.
LEMMA SendCases ==
  ASSUME Inv, Send
  PROVE  /\ pc = "send" /\ i \in 1..Len(mq) /\ i' \in Nat \ {0} /\ offset' \in 0..1
         /\ pc' \in {"send", "idle"}
         /\ \/ ~Due(mq[i]) /\ UNCHANGED <<mq, error, pc, wire>> /\ i' = i + 1
            \/ /\ Due(mq[i]) /\ mq' = [mq EXCEPT ![i] = Sent(mq[i])] /\ i' = i + 1
               /\ UNCHANGED <<error, pc, toClient, up>>
               /\ IF up THEN \E x \in {mq[i].packet, Garbled} : toBroker' = Append(toBroker, x)
                        ELSE toBroker' = toBroker
            \/ /\ UNCHANGED <<mq, error, pc, toClient, up>> /\ i' = Len(mq) + 1
               /\ toBroker' = toBroker \/ toBroker' = Append(toBroker, Garbled)
            \/ UNCHANGED <<mq, wire>> /\ error' = "SOCKET_ERROR" /\ pc' = "idle"
<1>1. i \in 1..Len(mq) /\ Len(mq) \in Nat /\ pc = "send"
  <2>1. mq \in Seq(Queued) /\ i \in Nat \ {0}
    BY DEF Inv, QueueOK, QueueTyped, ClientTyped
  <2> QED BY <2>1, QueueParts DEF Send
<1>2. Offset(mq[i]) \in 0..1
  BY DEF Inv, ClientTyped, Offset
<1>3. CASE ~Due(mq[i]) /\ i' = i + 1 /\ offset' = Offset(mq[i]) /\ UNCHANGED <<mq, error, quiet, pc, wire>>
  BY <1>1, <1>2, <1>3
<1>4. CASE /\ Due(mq[i]) /\ SendAll(mq[i].packet, Offset(mq[i]))
           /\ mq' = [mq EXCEPT ![i] = Sent(mq[i])]
           /\ i' = i + 1 /\ offset' = 0 /\ quiet' = 0
           /\ UNCHANGED <<error, pc>>
  <2>1. /\ UNCHANGED <<toClient, up>>
        /\ IF up THEN \E x \in {mq[i].packet, Garbled} : toBroker' = Append(toBroker, x)
                 ELSE toBroker' = toBroker
    BY <1>4 DEF SendAll
  <2>2. i' \in Nat \ {0} /\ offset' \in 0..1 /\ pc' \in {"send", "idle"}
    BY <1>1, <1>4
  <2> QED BY <1>1, <1>4, <2>1, <2>2
<1>5. CASE /\ Due(mq[i]) /\ offset' \in Offset(mq[i])..1
           /\ SendPart(mq[i].packet, Offset(mq[i]), offset')
           /\ i' = Len(mq) + 1
           /\ UNCHANGED <<mq, error, quiet, pc>>
  <2>1. /\ UNCHANGED <<toClient, up>>
        /\ toBroker' = toBroker \/ toBroker' = Append(toBroker, Garbled)
    BY <1>5 DEF SendPart
  <2>2. i' \in Nat \ {0} /\ offset' \in 0..1 /\ pc' \in {"send", "idle"}
    BY <1>1, <1>2, <1>5
  <2> QED BY <1>1, <1>5, <2>1, <2>2
<1>6. CASE /\ Due(mq[i]) /\ SendFails /\ offset' = Offset(mq[i]) /\ Fail("SOCKET_ERROR")
           /\ UNCHANGED <<mq, quiet, i>>
  <2>1. UNCHANGED <<mq, wire>> /\ error' = "SOCKET_ERROR" /\ pc' = "idle" /\ i' = i
    BY <1>6 DEF SendFails, Fail, Return
  <2> QED BY <1>1, <1>2, <1>6, <2>1
<1> QED BY <1>3, <1>4, <1>5, <1>6 DEF Send

\* The loop marks the first QoS 2 publish that is not complete, and sends none after it.
LEMMA SendSteps ==
  ASSUME Inv, Send, UNCHANGED <<reconnects, broker>>
  PROVE  Inv'
<1>1. /\ mq \in Seq(Queued) /\ Len(mq) \in Nat /\ DOMAIN mq = 1..Len(mq) /\ QueueOK(mq)
      /\ \A j \in 1..Len(mq) : mq[j] \in Queued
  <2>1. mq \in Seq(Queued) /\ QueueOK(mq)
    BY DEF Inv, QueueOK, QueueTyped
  <2> QED BY <2>1, QueueParts
<1>2. i \in 1..Len(mq) /\ pc = "send" /\ i' \in Nat \ {0} /\ offset' \in 0..1 /\ pc' \in {"send", "idle"}
  BY SendCases
<1>3. inflight' = (inflight \/ (IsQos2(mq[i]) /\ mq[i].state # "COMPLETE"))
  BY DEF Send
<1>4. \A j \in 1..Len(mq) : (j < i /\ IsQos2(mq[j]) /\ mq[j].state # "COMPLETE") => inflight
  BY <1>1, <1>2 DEF Inv, LoopKnows
<1>5. /\ QueueOK(mq') /\ error' \in Errors /\ Len(mq') = Len(mq)
      /\ \A j \in 1..Len(mq) : /\ mq'[j].packet = mq[j].packet
                               /\ j # i => mq'[j].state = mq[j].state
                               /\ mq[j].state = "COMPLETE" => mq'[j].state = "COMPLETE"
  <2>1. CASE mq' = mq
    <3>1. error' \in Errors
      BY SendCases DEF Inv, ClientTyped, Errors
    <3> QED BY <1>1, <2>1, <3>1
  <2>2. CASE Due(mq[i]) /\ mq' = [mq EXCEPT ![i] = Sent(mq[i])] /\ UNCHANGED error
    <3>1. /\ Updated(mq, mq') /\ mq'[i].state = AfterSend(mq[i].packet)
          /\ \A j \in 1..Len(mq) : j # i => mq'[j] = mq[j]
      BY <1>1, <1>2, <2>2, SentMessage
    <3>2. mq' \in Seq(Queued) /\ Len(mq') = Len(mq) /\ DOMAIN mq' = 1..Len(mq)
          /\ \A j \in 1..Len(mq) : mq'[j].packet = mq[j].packet
      BY <3>1, LenProperties DEF Updated
    <3>3. mq[i].state # "COMPLETE" /\ (IsQos2(mq[i]) => ~inflight)
      BY <2>2 DEF Due, Overdue
    <3>4. OneAwaits(mq')
      <4>1. SUFFICES ASSUME NEW j \in 1..Len(mq), NEW k \in 1..Len(mq), j < k, IsQos2(mq'[j]), IsQos2(mq'[k]),
                            mq'[j].state # "COMPLETE", mq'[k].state = "AWAITING_ACK"
                     PROVE  FALSE
        BY <3>2 DEF OneAwaits
      <4>2. IsQos2(mq[j]) /\ IsQos2(mq[k])
        BY <3>2, <4>1 DEF IsQos2
      <4>3. mq[j].state # "COMPLETE"
        BY <3>1, <3>3, <4>1
      <4>4. CASE k = i
        BY <1>4, <3>3, <4>1, <4>2, <4>3, <4>4
      <4>5. CASE k # i
        BY <1>1, <3>1, <4>1, <4>2, <4>3, <4>5 DEF QueueOK, OneAwaits
      <4> QED BY <4>4, <4>5
    <3>5. Distinct(mq')
      <4>1. ASSUME NEW j \in 1..Len(mq), mq[j].state = "COMPLETE" PROVE mq'[j].state = "COMPLETE"
        BY <3>1, <3>3, <4>1
      <4> QED BY <1>1, <3>2, <4>1 DEF QueueOK, Distinct
    <3>6. NoUnsubscribe(mq') /\ QueueTyped(mq')
      BY <1>1, <3>2 DEF QueueOK, NoUnsubscribe, QueueTyped
    <3>7. error' \in Errors
      BY <2>2 DEF Inv, ClientTyped
    <3> QED BY <3>1, <3>2, <3>3, <3>4, <3>5, <3>6, <3>7 DEF QueueOK
  <2> QED BY <2>1, <2>2, SendCases
<1>6. ClientTyped'
  <2>1. quiet' \in 0..KeepAlive
    BY Constants DEF Inv, ClientTyped, Send
  <2>2. inflight' \in BOOLEAN
    BY <1>3
  <2>3. UNCHANGED <<lfsr, drawn, reconnects, calls, ticks>>
    BY DEF Send
  <2> QED BY <1>2, <1>5, <2>1, <2>2, <2>3 DEF Inv, ClientTyped, DrawnTyped
<1>7. WireTyped'
  <2>1. toBroker \in Seq(Sendable) /\ toClient \in Seq(Receivable) /\ mq[i].packet \in Sendable /\ toClient' = toClient
    BY <1>1, <1>2, MessageParts, SendCases DEF Inv, WireTyped, wire
  <2>2. \/ toBroker' = toBroker \/ \E x \in {mq[i].packet, Garbled} : toBroker' = Append(toBroker, x)
    BY SendCases DEF wire
  <2> QED BY <2>1, <2>2, GarbledTyped, AppendProperties DEF WireTyped
<1>8. BrokerTyped'
  BY DEF Inv, BrokerTyped, broker
<1>9. LoopKnows'
  <2>1. SUFFICES ASSUME pc' = "send", i' <= Len(mq), NEW j \in 1..Len(mq), j < i', IsQos2(mq'[j]),
                        mq'[j].state # "COMPLETE"
                 PROVE  inflight'
    <3>1. Len(mq') = Len(mq) /\ DOMAIN mq' = 1..Len(mq)
      BY <1>1, <1>5, QueueParts DEF QueueOK, QueueTyped
    <3> QED BY <3>1 DEF LoopKnows
  <2>2. i' = i + 1
    BY <1>1, <2>1, SendCases
  <2>3. IsQos2(mq[j]) /\ mq[j].state # "COMPLETE"
    BY <1>5, <2>1 DEF IsQos2
  <2>4. j < i \/ j = i
    BY <1>2, <2>1, <2>2
  <2> QED BY <1>3, <1>4, <2>3, <2>4
<1> QED BY <1>5, <1>6, <1>7, <1>8, <1>9 DEF Inv

-----------------------------------------------------------------------------
(* The broker, and the connection.                                         *)

LEMMA NextPacket ==
  ASSUME Inv, toBroker # <<>>
  PROVE  /\ Head(toBroker) \in Sendable /\ Tail(toBroker) \in Seq(Sendable)
         /\ Len(toBroker) \in Nat \ {0} /\ Len(Tail(toBroker)) = Len(toBroker) - 1
         /\ Head(toBroker) = toBroker[1]
         /\ \A n \in 1..Len(Tail(toBroker)) : Tail(toBroker)[n] = toBroker[n + 1]
<1>1. toBroker \in Seq(Sendable)
  BY DEF Inv, WireTyped
<1> QED BY <1>1, HeadTailProperties, EmptySeq

\* What the broker does with the packet p.
LEMMA BrokerCases ==
  ASSUME BrokerReceives, NEW p, p = Head(toBroker)
  PROVE  \/ Close
         \/ /\ p.type = "CONNECT" /\ accepted' = TRUE
            /\ \E v \in {0, 1} : toClient' = Append(toClient, Packet("CONNACK", 0, None, v))
            /\ UNCHANGED <<held, got, pending, up>>
         \/ /\ accepted /\ UNCHANGED <<accepted, up>>
            /\ \/ p.type = "PUBLISH" /\ OnPublish(p) /\ UNCHANGED pending
               \/ p.type = "PUBREL" /\ OnPubrel(p) /\ UNCHANGED pending
               \/ OnRequest(p) /\ UNCHANGED pending
               \/ OnAnswer(p) /\ UNCHANGED <<held, got>>
<1>1. Verdicts \subseteq {0, 1}
  BY DEF Verdicts
<1> QED BY <1>1 DEF BrokerReceives, OnConnect, Reply

LEMMA ReplyTyped ==
  ASSUME NEW type \in {"PUBACK", "PUBREC", "PUBREL", "PUBCOMP", "SUBACK", "UNSUBACK"}, NEW pid \in Pids,
         NEW v \in {0, 1}, NEW x, x \in {Simple(type, pid), Packet(type, 0, pid, v)}
  PROVE  x \in Receivable /\ x.type = type /\ x.pid = pid
<1>1. x.type = type /\ x.pid = pid
  BY DEF Simple, Packet
<1>2. Numbered(x)
  BY <1>1 DEF Numbered, WithoutId
<1>3. type \in DOMAIN Origin
  BY DEF Origin
<1>4. x \in PacketsOf({"PUBLISH"} \cup DOMAIN Origin)
  BY <1>3 DEF Simple, Packet, PacketsOf
<1> QED BY <1>1, <1>2, <1>4 DEF Receivable

LEMMA PlainReplyTyped ==
  ASSUME NEW type \in {"CONNACK", "PINGRESP"}, NEW v \in {0, 1}, NEW x,
         x \in {Simple(type, None), Packet(type, 0, None, v)}
  PROVE  x \in Receivable /\ x.type = type /\ x.pid = None
<1>1. x.type = type /\ x.pid = None
  BY DEF Simple, Packet
<1>2. Numbered(x)
  BY <1>1 DEF Numbered, WithoutId
<1>3. type \in DOMAIN Origin
  BY DEF Origin
<1>4. x \in PacketsOf({"PUBLISH"} \cup DOMAIN Origin)
  BY <1>3 DEF Simple, Packet, PacketsOf
<1> QED BY <1>1, <1>2, <1>4 DEF Receivable

\* Its replies: none, or one of the type that answers p, with the identifier of p.
LEMMA BrokerReplies ==
  ASSUME Inv, BrokerReceives, NEW p, p = Head(toBroker)
  PROVE  \/ toClient' = toClient
         \/ \E x \in Receivable :
              /\ toClient' = Append(toClient, x)
              /\ x.type # "PUBLISH" /\ Origin[x.type] = p.type /\ x.pid = p.pid
              /\ \/ x.type = "PUBREL" /\ pending' = NotPending(p.pid, {"PUBLISH", "PUBREL"}) \cup {x}
                 \/ x.type # "PUBREL" /\ pending' = pending
<1>1. p \in Sendable /\ 0 \in {0, 1}
  BY NextPacket DEF BrokerReceives
<1>2. p.type \notin WithoutId => p.pid \in Pids
  BY <1>1 DEF Sendable, Numbered
<1>3. p.type \in WithoutId => p.pid = None
  BY <1>1 DEF Sendable, Numbered
<1>4. CASE Close
  BY <1>4 DEF Close, Quiet
<1>5. CASE /\ p.type = "CONNECT" /\ accepted' = TRUE
           /\ \E v \in {0, 1} : toClient' = Append(toClient, Packet("CONNACK", 0, None, v))
           /\ UNCHANGED <<held, got, pending, up>>
  <2>1. PICK v \in {0, 1} : toClient' = Append(toClient, Packet("CONNACK", 0, None, v))
    BY <1>5
  <2>2. PICK x : x = Packet("CONNACK", 0, None, v)
    OBVIOUS
  <2>3. x \in Receivable /\ x.type = "CONNACK" /\ x.pid = None
    BY <2>2, PlainReplyTyped
  <2> QED BY <1>3, <1>5, <2>1, <2>2, <2>3 DEF Origin, WithoutId
<1>6. CASE p.type = "PUBLISH" /\ OnPublish(p) /\ UNCHANGED pending
  <2>1. p.pid \in Pids
    BY <1>2, <1>6 DEF WithoutId
  <2>2. ASSUME NEW type \in {"PUBACK", "PUBREC"}, toClient' = Append(toClient, Simple(type, p.pid))
        PROVE  \E x \in Receivable : /\ toClient' = Append(toClient, x)
                                     /\ x.type # "PUBLISH" /\ Origin[x.type] = p.type /\ x.pid = p.pid
                                     /\ x.type # "PUBREL" /\ pending' = pending
    <3>1. PICK x : x = Simple(type, p.pid)
      OBVIOUS
    <3>2. x \in Receivable /\ x.type = type /\ x.pid = p.pid
      BY <1>1, <2>1, <3>1, ReplyTyped
    <3> QED BY <1>6, <2>2, <3>1, <3>2 DEF Origin
  <2> QED BY <1>6, <2>2 DEF OnPublish, Reply, Quiet
<1>7. CASE p.type = "PUBREL" /\ OnPubrel(p) /\ UNCHANGED pending
  <2>1. p.pid \in Pids
    BY <1>2, <1>7 DEF WithoutId
  <2>2. PICK x : x = Simple("PUBCOMP", p.pid) /\ toClient' = Append(toClient, x)
    BY <1>7 DEF OnPubrel, Reply
  <2>3. x \in Receivable /\ x.type = "PUBCOMP" /\ x.pid = p.pid
    BY <1>1, <2>1, <2>2, ReplyTyped
  <2> QED BY <1>7, <2>2, <2>3 DEF Origin
<1>8. CASE OnRequest(p) /\ UNCHANGED pending
  <2>1. CASE p.type = "SUBSCRIBE" /\ \E v \in Verdicts : Reply(Packet("SUBACK", 0, p.pid, v))
    <3>1. PICK v \in {0, 1} : toClient' = Append(toClient, Packet("SUBACK", 0, p.pid, v))
      BY <2>1 DEF Verdicts, Reply
    <3>2. PICK x : x = Packet("SUBACK", 0, p.pid, v)
      OBVIOUS
    <3>3. x \in Receivable /\ x.type = "SUBACK" /\ x.pid = p.pid
      BY <1>2, <2>1, <3>2, ReplyTyped DEF WithoutId
    <3> QED BY <1>8, <2>1, <3>1, <3>2, <3>3 DEF Origin
  <2>2. CASE p.type = "UNSUBSCRIBE" /\ Reply(Simple("UNSUBACK", p.pid))
    <3>1. PICK x : x = Simple("UNSUBACK", p.pid) /\ toClient' = Append(toClient, x)
      BY <2>2 DEF Reply
    <3>2. x \in Receivable /\ x.type = "UNSUBACK" /\ x.pid = p.pid
      BY <1>1, <1>2, <2>2, <3>1, ReplyTyped DEF WithoutId
    <3> QED BY <1>8, <2>2, <3>1, <3>2 DEF Origin
  <2>3. CASE p.type = "PINGREQ" /\ Reply(Simple("PINGRESP", None))
    <3>1. PICK x : x = Simple("PINGRESP", None) /\ toClient' = Append(toClient, x)
      BY <2>3 DEF Reply
    <3>2. x \in Receivable /\ x.type = "PINGRESP" /\ x.pid = None
      BY <1>1, <3>1, PlainReplyTyped
    <3> QED BY <1>3, <1>8, <2>3, <3>1, <3>2 DEF Origin, WithoutId
  <2> QED BY <1>8, <2>1, <2>2, <2>3 DEF OnRequest
<1>9. CASE OnAnswer(p) /\ UNCHANGED <<held, got>>
  <2>1. CASE p.type = "PUBREC" /\ Reply(Simple("PUBREL", p.pid))
             /\ pending' = NotPending(p.pid, {"PUBLISH", "PUBREL"}) \cup {Simple("PUBREL", p.pid)}
    <3>1. PICK x : x = Simple("PUBREL", p.pid)
      OBVIOUS
    <3>2. x \in Receivable /\ x.type = "PUBREL" /\ x.pid = p.pid
      BY <1>1, <1>2, <2>1, <3>1, ReplyTyped DEF WithoutId
    <3> QED BY <2>1, <3>1, <3>2 DEF Origin, Reply
  <2> QED BY <1>9, <2>1 DEF OnAnswer, Quiet
<1> QED BY <1>4, <1>5, <1>6, <1>7, <1>8, <1>9, BrokerCases

\* What waits for an answer is fewer, or a PUBREL takes the place of what its
\* identifier had.
LEMMA BrokerPending ==
  ASSUME Inv, BrokerReceives
  PROVE  \/ pending' \subseteq pending
         \/ \E x \in Receivable : /\ x.type = "PUBREL" /\ toClient' = Append(toClient, x)
                                  /\ pending' = NotPending(x.pid, {"PUBLISH", "PUBREL"}) \cup {x}
<1>1. PICK p : p = Head(toBroker)
  OBVIOUS
<1>2. CASE toClient' = toClient
  <2>1. \/ Close
        \/ p.type = "PUBLISH" /\ UNCHANGED pending
        \/ p.type = "PUBREL" /\ UNCHANGED pending
        \/ OnRequest(p) /\ UNCHANGED pending
        \/ OnAnswer(p)
        \/ UNCHANGED pending
    BY <1>1, BrokerCases
  <2>2. OnAnswer(p) => \/ \E types : pending' = NotPending(p.pid, types)
                       \/ toClient' = Append(toClient, Simple("PUBREL", p.pid))
    BY DEF OnAnswer, Reply
  <2>3. toClient' # Append(toClient, Simple("PUBREL", p.pid))
    <3>1. toClient \in Seq(Receivable)
      BY DEF Inv, WireTyped
    <3>2. Len(Append(toClient, Simple("PUBREL", p.pid))) # Len(toClient)
      BY <3>1
    <3> QED BY <1>2, <3>2
  <2> QED BY <2>1, <2>2, <2>3 DEF Close, NotPending
<1> QED BY <1>1, <1>2, BrokerReplies

LEMMA BrokerReceivesSteps ==
  ASSUME Inv, BrokerReceives, UNCHANGED client
  PROVE  Inv'
<1>1. QueueOK(mq') /\ ClientTyped' /\ LoopKnows'
  BY DEF Inv, client, ClientTyped, DrawnTyped, LoopKnows
<1>2. toBroker' \in Seq(Sendable)
  BY NextPacket DEF BrokerReceives
<1>3. toClient \in Seq(Receivable)
  BY DEF Inv, WireTyped
<1>4. toClient' \in Seq(Receivable)
  BY <1>3, BrokerReplies, AppendProperties
<1>5. BrokerTyped'
  <2>1. published' = published
    BY DEF BrokerReceives
  <2>2. \A x \in Receivable : x.type = "PUBREL" => x.pid \in Pids
    BY DEF Receivable, Numbered, WithoutId
  <2> QED BY <2>1, <2>2, BrokerPending DEF Inv, BrokerTyped, NotPending
<1> QED BY <1>1, <1>2, <1>4, <1>5 DEF Inv, WireTyped

LEMMA Rotation ==
  ASSUME NEW n \in Nat
  PROVE  1 + (n % BrokerPids) \in Pids
<1>1. BrokerPids \in Nat \ {0} /\ BrokerPids <= NPids /\ NPids \in Nat /\ Pids = 1..NPids
  BY Constants
<1>2. n % BrokerPids \in 0..(BrokerPids - 1)
  BY <1>1
<1> QED BY <1>1, <1>2

\* A publish of the broker has an identifier of its own, and a number none has had.
LEMMA BrokerPublishParts ==
  ASSUME Inv, NEW qos \in OutQos, BrokerPublishes(qos)
  PROVE  \E x \in Receivable :
           /\ x.type = "PUBLISH" /\ x.qos = qos /\ x.val = published + 1 /\ published' = published + 1
           /\ toClient' = Append(toClient, x)
           /\ IF qos = 0 THEN pending' = pending ELSE pending' = pending \cup {x} /\ x.pid \in Pids
           /\ \A y \in pending : y.pid # x.pid
<1>1. qos \in 0..2 /\ published \in Nat
  BY BrokerAssumption DEF Inv, BrokerTyped
<1>2. PICK pid : pid = IF qos = 0 THEN None ELSE 1 + (published % BrokerPids)
  OBVIOUS
<1>3. PICK x : x = Packet("PUBLISH", qos, pid, published')
  OBVIOUS
<1>4. IF qos = 0 THEN pid = None ELSE pid \in Pids
  BY <1>1, <1>2, Rotation
<1>5. x.type = "PUBLISH" /\ x.qos = qos /\ x.pid = pid /\ x.val = published' /\ published' = published + 1
  BY <1>3 DEF Packet, BrokerPublishes
<1>6. x \in Receivable
  <2>1. x \in PacketsOf({"PUBLISH"} \cup DOMAIN Origin)
    BY <1>1, <1>3, <1>4, <1>5 DEF Packet, PacketsOf
  <2>2. qos # 0 => Numbered(x)
    BY <1>4, <1>5 DEF Numbered, WithoutId
  <2> QED BY <1>5, <2>1, <2>2 DEF Receivable
<1>7. /\ \A y \in pending : y.pid # pid
      /\ pending' = IF qos = 0 THEN pending ELSE pending \cup {x}
      /\ toClient' = Append(toClient, x)
  BY <1>2, <1>3 DEF BrokerPublishes, Reply
<1> QED BY <1>4, <1>5, <1>6, <1>7

LEMMA BrokerSendSteps ==
  ASSUME Inv, BrokerResends \/ \E qos \in OutQos : BrokerPublishes(qos), UNCHANGED client
  PROVE  Inv'
<1>1. QueueOK(mq') /\ ClientTyped' /\ LoopKnows'
  BY DEF Inv, client, ClientTyped, DrawnTyped, LoopKnows
<1>2. toBroker \in Seq(Sendable) /\ toBroker' = toBroker /\ toClient \in Seq(Receivable) /\ published \in Nat
      /\ pending \subseteq {p \in Receivable : p.type \in {"PUBLISH", "PUBREL"} /\ p.pid \in Pids}
  BY DEF Inv, WireTyped, BrokerTyped, BrokerResends, BrokerPublishes
<1>3. CASE BrokerResends
  <2>1. PICK x \in pending : toClient' = Append(toClient, x)
    BY <1>3 DEF BrokerResends, Reply
  <2>2. toClient' \in Seq(Receivable)
    BY <1>2, <2>1, AppendProperties
  <2>3. BrokerTyped'
    BY <1>3 DEF Inv, BrokerTyped, BrokerResends
  <2> QED BY <1>1, <1>2, <2>2, <2>3 DEF Inv, WireTyped
<1>4. ASSUME NEW qos \in OutQos, BrokerPublishes(qos) PROVE Inv'
  <2>1. PICK x \in Receivable :
           /\ x.type = "PUBLISH" /\ x.qos = qos /\ x.val = published + 1 /\ published' = published + 1
           /\ toClient' = Append(toClient, x)
           /\ IF qos = 0 THEN pending' = pending ELSE pending' = pending \cup {x} /\ x.pid \in Pids
    BY <1>4, BrokerPublishParts
  <2>2. toClient' \in Seq(Receivable) /\ published' \in Nat
    BY <1>2, <2>1, AppendProperties
  <2>3. BrokerTyped'
    BY <1>2, <2>1, <2>2 DEF BrokerTyped
  <2> QED BY <1>1, <1>2, <2>2, <2>3 DEF Inv, WireTyped
<1> QED BY <1>3, <1>4

LEMMA ReconnectParts ==
  ASSUME Reconnect
  PROVE  /\ mq' = Append(<<>>, New(Simple("CONNECT", None))) /\ error' = "OK"
         /\ pc = "idle" /\ pc' = "reconnected" /\ error # "OK"
         /\ toBroker' = <<>> /\ toClient' = <<>> /\ up' = TRUE
<1>1. Len(<<>>) < QueueCap
  BY Constants
<1> QED BY <1>1 DEF Reconnect, Emptied, NewConnection, Failed

LEMMA ReconnectSteps ==
  ASSUME Inv, Reconnect, CleanSession
  PROVE  Inv'
<1>1. QueueOK(mq')
  BY ReconnectParts, FirstMessage
<1>2. ClientTyped'
  BY ReconnectParts DEF Inv, Reconnect, ClientTyped, DrawnTyped, Errors
<1>3. WireTyped' /\ BrokerTyped'
  BY ReconnectParts DEF Inv, CleanSession, WireTyped, BrokerTyped
<1>4. LoopKnows'
  BY ReconnectParts DEF LoopKnows
<1> QED BY <1>1, <1>2, <1>3, <1>4 DEF Inv

\* The packets that are left of those to the client are the first ones.
LEMMA BreakParts ==
  ASSUME Inv, Break
  PROVE  /\ toBroker' = <<>> /\ up' = FALSE /\ toClient' \in Seq(Receivable)
         /\ Len(toClient') \in 0..Len(toClient)
         /\ \A n \in 1..Len(toClient') : toClient'[n] = toClient[n]
<1>1. toClient \in Seq(Receivable) /\ Len(toClient) \in Nat
  BY LenProperties DEF Inv, WireTyped
<1>2. PICK n \in 0..Len(toClient) : toClient' = SubSeq(toClient, 1, n)
  BY DEF Break
<1>3. \A k \in 1..n : toClient[k] \in Receivable
  BY <1>1, ElementOfSeq
<1>4. /\ SubSeq(toClient, 1, n) \in Seq(Receivable)
      /\ Len(SubSeq(toClient, 1, n)) = IF 1 <= n THEN n - 1 + 1 ELSE 0
      /\ \A k \in 1..(n - 1 + 1) : SubSeq(toClient, 1, n)[k] = toClient[1 + k - 1]
  BY <1>1, <1>3, SubSeqProperties
<1>5. Len(toClient') = n
  BY <1>1, <1>2, <1>4
<1>6. \A k \in 1..n : k \in 1..(n - 1 + 1) /\ 1 + k - 1 = k
  BY <1>1
<1> QED BY <1>2, <1>4, <1>5, <1>6 DEF Break

LEMMA BreakSteps ==
  ASSUME Inv, Break, UNCHANGED <<client, broker>>
  PROVE  Inv'
<1>1. QueueOK(mq') /\ ClientTyped' /\ LoopKnows'
  BY DEF Inv, client, ClientTyped, DrawnTyped, LoopKnows
<1>2. WireTyped'
  BY BreakParts DEF WireTyped
<1>3. BrokerTyped'
  BY DEF Inv, BrokerTyped, broker
<1> QED BY <1>1, <1>2, <1>3 DEF Inv

-----------------------------------------------------------------------------
(* What the first invariant gives.                                         *)

\* A step of the system is one of these.
LEMMA Steps ==
  ASSUME [Next]_vars
  PROVE  \/ Connect /\ UNCHANGED <<reconnects, broker>>
         \/ (Sync \/ ReceiveEnds \/ SendStarts) /\ UNCHANGED <<reconnects, broker>>
         \/ Receive /\ UNCHANGED <<reconnects, broker>>
         \/ Send /\ UNCHANGED <<reconnects, broker>>
         \/ SendEnds /\ UNCHANGED <<reconnects, broker>>
         \/ Tick /\ UNCHANGED <<reconnects, broker>>
         \/ \E c \in Calls : Call(c[1], c[2]) /\ UNCHANGED <<reconnects, broker>>
         \/ \E t \in Threads : /\ UnsubscribeReads(t) \/ UnsubscribeWrites(t) \/ Unsubscribe(t)
                               /\ UNCHANGED <<reconnects, broker>>
         \/ Reconnect /\ CleanSession
         \/ BrokerReceives /\ UNCHANGED client
         \/ (BrokerResends \/ \E qos \in OutQos : BrokerPublishes(qos)) /\ UNCHANGED client
         \/ Break /\ UNCHANGED <<client, broker>>
         \/ UNCHANGED vars
BY DEF Next, ClientNext, SyncStep, BrokerNext

LEMMA InvSteps ==
  ASSUME Inv, [Next]_vars
  PROVE  Inv'
<1>1. CASE UNCHANGED vars
  BY <1>1 DEF vars, client, broker, wire, Inv, ClientTyped, DrawnTyped, WireTyped, BrokerTyped, LoopKnows
<1> QED BY <1>1, Steps, ConnectSteps, SyncSteps, ReceiveSteps, SendSteps, SendEndsSteps, TickSteps, CallSteps,
           UnsubscribeSteps, ReconnectSteps, BrokerReceivesSteps, BrokerSendSteps, BreakSteps

LEMMA Invariant ==
  Spec => []Inv
<1>1. Init => Inv
  BY InvInitially
<1>2. Inv /\ [Next]_vars => Inv'
  BY InvSteps
<1> QED BY <1>1, <1>2, PTL DEF Spec

\* The client keeps its types: the queue never grows past its buffer's capacity, and
\* an identifier is always found (mqtt.c __mqtt_next_pid would otherwise not return).
THEOREM TypeCorrect ==
  Spec => []TypeOK
<1>1. Inv => TypeOK
  <2>1. SUFFICES ASSUME Inv PROVE TypeOK
    OBVIOUS
  <2>2. mq \in Seq(Messages)
    <3>1. mq \in Seq(Queued) /\ Queued \subseteq Messages
      BY <2>1 DEF Inv, QueueOK, QueueTyped, Queued
    <3> QED BY <3>1, SeqMonotonic
  <2> QED BY <2>1, <2>2 DEF Inv, QueueOK, QueueTyped, ClientTyped, DrawnTyped, TypeOK
<1> QED BY <1>1, Invariant, PTL

\* Of two QoS 2 publishes in the queue the later one never waits for an answer while
\* the earlier one is not complete, through every timeout, error and new connection.
THEOREM OneAwaitsAnswer ==
  Spec => []OneAwaits(mq)
<1>1. Inv => OneAwaits(mq)
  BY DEF Inv, QueueOK
<1> QED BY <1>1, Invariant, PTL

\* Without threads that call mqtt_unsubscribe, which draws its identifier unlocked, no
\* two requests in the queue have the same one, and none has that of a PUBREL.
THEOREM IdentifiersUnique ==
  ASSUME Threads = {}
  PROVE  Spec => []PidsUnique
<1>1. Inv => PidsUnique
  <2>1. SUFFICES ASSUME Inv, NEW j \in DOMAIN mq, NEW k \in DOMAIN mq, j # k,
                        mq[j].packet.pid = mq[k].packet.pid, mq[j].packet.type \in Drawing
                 PROVE  /\ mq[k].packet.type \notin Drawing
                        /\ mq[k].packet.type = "PUBREL" => mq[j].state = "COMPLETE"
    BY DEF PidsUnique
  <2>2. Distinct(mq) /\ \A n \in DOMAIN mq : mq[n].packet.type # "UNSUBSCRIBE"
    BY <2>1 DEF Inv, QueueOK, NoUnsubscribe
  <2>3. \A n \in DOMAIN mq : mq[n].packet.type \in Drawing <=> Draws(mq[n].packet.type)
    BY <2>2 DEF Drawing, Draws
  <2> QED BY <2>1, <2>2, <2>3 DEF Distinct
<1> QED BY <1>1, Invariant, PTL

-----------------------------------------------------------------------------
(* What the client may still receive.                                      *)

\* toClient keeps its packets, but perhaps the first and the last ones.
LEMMA Shifted ==
  ASSUME Inv, Inv', NEW d \in {0, 1}, Len(toClient') <= Len(toClient) - d,
         \A n \in 1..Len(toClient') : toClient'[n] = toClient[n + d]
  PROVE  \A n \in DOMAIN toClient' : n \in Nat \ {0} /\ n + d \in DOMAIN toClient /\ toClient'[n] = toClient[n + d]
<1>1. /\ Len(toClient) \in Nat /\ DOMAIN toClient = 1..Len(toClient)
      /\ Len(toClient') \in Nat /\ DOMAIN toClient' = 1..Len(toClient')
  BY LenProperties DEF Inv, WireTyped
<1>2. PICK a, b : a = Len(toClient') /\ b = Len(toClient)
  OBVIOUS
<1>3. a \in Nat /\ b \in Nat /\ a <= b - d
  BY <1>1, <1>2
<1>4. \A n \in 1..a : n \in Nat \ {0} /\ n + d \in 1..b
  BY ONLY <1>3, d \in {0, 1}
<1> QED BY <1>1, <1>2, <1>4

\* toClient keeps its packets, but perhaps the first and the last ones, and nothing
\* is added to pending.
LEMMA FewerComing ==
  ASSUME Inv, Inv', NEW d \in {0, 1}, Len(toClient') <= Len(toClient) - d,
         \A n \in 1..Len(toClient') : toClient'[n] = toClient[n + d], pending' \subseteq pending
  PROVE  /\ \A p \in Coming' : p \in Coming
         /\ \A p : \A m \in DOMAIN toClient' : Later(p, m)' => Later(p, m + d)
         /\ \A m \in DOMAIN toClient' : m + d \in DOMAIN toClient
         /\ \A p : d = 1 => (p \in Coming' => Later(p, 1))
<1>1. \A n \in DOMAIN toClient' : n \in Nat /\ n + d \in DOMAIN toClient /\ toClient'[n] = toClient[n + d]
  BY Shifted
<1>2. \A p \in Coming' : p \in Coming
  BY <1>1 DEF Coming
<1>3. ASSUME NEW p, NEW m \in DOMAIN toClient', Later(p, m)'
      PROVE  Later(p, m + d)
  <2>1. CASE p \in pending'
    BY <2>1 DEF Later
  <2>2. ASSUME NEW n \in DOMAIN toClient', m < n, toClient'[n] = p
        PROVE  Later(p, m + d)
    <3>1. m + d < n + d
      BY <1>1, <2>2
    <3> QED BY <1>1, <2>2, <3>1 DEF Later
  <2> QED BY <1>3, <2>1, <2>2 DEF Later
<1>4. ASSUME NEW p, d = 1, p \in Coming'
      PROVE  Later(p, 1)
  <2>1. \A n \in DOMAIN toClient' : 1 < n + d
    BY <1>1, <1>4
  <2> QED BY <1>1, <1>4, <2>1 DEF Coming, Later
<1> QED BY <1>1, <1>2, <1>3, <1>4

\* Then what concerns only the packets under way stays true.
LEMMA ComingApart ==
  ASSUME Inv, Inv', OnceInv, NEW d \in {0, 1}, Len(toClient') <= Len(toClient) - d,
         \A n \in 1..Len(toClient') : toClient'[n] = toClient[n + d], pending' \subseteq pending
  PROVE  OnePending' /\ ValsApart' /\ NoneReleasedBetween'
<1>1. /\ \A p \in Coming' : p \in Coming
      /\ \A p : \A m \in DOMAIN toClient' : Later(p, m)' => Later(p, m + d)
      /\ \A m \in DOMAIN toClient' : m + d \in DOMAIN toClient
  BY FewerComing
<1>2. OnePending'
  BY DEF OnceInv, OnePending
<1>3. ValsApart'
  BY <1>1 DEF OnceInv, ValsApart
<1>4. NoneReleasedBetween'
  <2>1. SUFFICES ASSUME NEW a \in DOMAIN toClient', NEW m \in DOMAIN toClient', NEW p, p = toClient'[a],
                        a < m, AtQos2(p), Later(p, m)', Releases(toClient'[m], p)
                 PROVE  FALSE
    BY DEF NoneReleasedBetween, Later
  <2>2. a \in 1..Len(toClient') /\ m \in 1..Len(toClient') /\ Len(toClient') \in Nat
    BY LenProperties DEF Inv, WireTyped
  <2>3. toClient'[a] = toClient[a + d] /\ toClient'[m] = toClient[m + d]
    BY <2>2
  <2>4. a + d < m + d
    BY <2>1, <2>2
  <2> QED BY <1>1, <2>1, <2>3, <2>4 DEF OnceInv, NoneReleasedBetween
<1> QED BY <1>2, <1>3, <1>4

\* If nothing more is passed on and the PUBRECs stay, so does all of it.
LEMMA NothingPassed ==
  ASSUME Inv, Inv', OnceInv, NEW d \in {0, 1}, Len(toClient') <= Len(toClient) - d,
         \A n \in 1..Len(toClient') : toClient'[n] = toClient[n + d], pending' \subseteq pending,
         published' = published, delivered' \in Seq(Receivable), PassedOnce', \A v : Passed(v)' <=> Passed(v),
         \A p \in Coming' : (AtQos2(p) /\ Passed(p.val) /\ Guarded(p)) => Guarded(p)'
  PROVE  OnceInv'
<1>1. /\ \A p \in Coming' : p \in Coming
      /\ \A p : \A m \in DOMAIN toClient' : Later(p, m)' => Later(p, m + d)
      /\ \A m \in DOMAIN toClient' : m + d \in DOMAIN toClient
  BY FewerComing
<1>2. OnePending' /\ ValsApart' /\ NoneReleasedBetween'
  BY ComingApart
<1>3. \A v : Passed(v) => v <= published
  BY DEF OnceInv, ValsKnown, Passed
<1>4. ValsKnown'
  <2>1. \A v : \A j \in DOMAIN delivered' : (delivered'[j].qos = 2 /\ v = delivered'[j].val) => Passed(v)'
    BY DEF Passed
  <2> QED BY <1>1, <1>3, <2>1 DEF OnceInv, ValsKnown
<1>5. PassedGuarded'
  BY <1>1 DEF OnceInv, PassedGuarded
<1>6. NewAfterRelease'
  <2>1. \A m \in DOMAIN toClient' : toClient'[m] = toClient[m + d]
    BY LenProperties DEF Inv, WireTyped
  <2> QED BY <1>1, <2>1 DEF OnceInv, NewAfterRelease
<1> QED BY <1>2, <1>4, <1>5, <1>6 DEF OnceInv

LEMMA ComingTyped ==
  ASSUME Inv
  PROVE  /\ \A p \in Coming : p \in Receivable /\ p.val \in Nat
         /\ \A p, m : Later(p, m) => p \in Coming
<1>1. toClient \in Seq(Receivable) /\ pending \subseteq Receivable
  BY DEF Inv, WireTyped, BrokerTyped
<1>2. \A p \in Coming : p \in Receivable
  BY <1>1, ElementOfSeq, LenProperties DEF Coming
<1>3. \A p \in Receivable : p.val \in Nat
  BY DEF Receivable, PacketsOf
<1> QED BY <1>2, <1>3 DEF Later, Coming

\* The broker sends x: a publish that is pending already or new, or something else.
\* If x is a PUBREL, no publish of its identifier is pending.
LEMMA OneMoreComing ==
  ASSUME Inv, Inv', OnceInv, NEW x \in Receivable, toClient' = Append(toClient, x),
         published' \in {published, published + 1}, UNCHANGED <<delivered, mq>>,
         OnePending', \A p \in pending' : AtQos2(p) => p \in pending \/ p = x,
         AtQos2(x) => x \in pending \/ (x.val = published + 1 /\ published' = published + 1),
         \A p \in pending' : AtQos2(p) => ~Releases(x, p)
  PROVE  OnceInv'
<1>1. PICK len : len = Len(toClient)
  OBVIOUS
<1>2. /\ len \in Nat /\ DOMAIN toClient = 1..len /\ DOMAIN toClient' = 1..(len + 1)
      /\ toClient'[len + 1] = x /\ \A n \in 1..len : toClient'[n] = toClient[n]
  BY <1>1, AppendProperties, LenProperties DEF Inv, WireTyped
<1>3. \A m \in DOMAIN toClient' : /\ m \in 1..len \/ (m = len + 1 /\ toClient'[m] = x)
                                  /\ m \in 1..len => m \in DOMAIN toClient /\ toClient'[m] = toClient[m]
  BY <1>2
<1>4. \A p \in Coming' : AtQos2(p) => p \in Coming \/ p = x
  BY <1>3 DEF Coming
<1>5. ASSUME NEW p, NEW m \in 1..len, AtQos2(p), Later(p, m)'
      PROVE  Later(p, m) \/ p = x
  BY <1>3, <1>5, <1>2 DEF Later
<1>6. ASSUME NEW p, Later(p, len + 1)'
      PROVE  p \in pending'
  <2>1. \A n \in 1..(len + 1) : ~(len + 1 < n)
    BY <1>2
  <2> QED BY <1>2, <1>6, <2>1 DEF Later
<1>7. /\ published \in Nat /\ x.val \in Nat /\ \A p \in Coming : p.val \in Nat
      /\ \A j \in DOMAIN delivered : delivered[j].val \in Nat
  <2>1. \A p \in Receivable : p.val \in Nat
    BY DEF Receivable, PacketsOf
  <2>2. \A j \in DOMAIN delivered : delivered[j] \in Receivable
    BY ElementOfSeq, LenProperties DEF OnceInv
  <2> QED BY <2>1, <2>2, ComingTyped DEF Inv, BrokerTyped
<1>8. \A v : Passed(v)' <=> Passed(v)
  BY DEF Passed
<1>9. \A p : Guarded(p)' <=> Guarded(p)
  BY DEF Guarded
<1>10. \A p \in Coming : AtQos2(p) => p.val <= published
  BY DEF OnceInv, ValsKnown
<1>11. ~Passed(published + 1)
  BY <1>7 DEF OnceInv, ValsKnown, Passed
<1>12. x \in pending => x \in Coming /\ \A m : Later(x, m)
  BY DEF Coming, Later
<1>13. ValsKnown'
  <2>1. \A p \in Coming' : AtQos2(p) => p.val <= published'
    BY <1>4, <1>7, <1>10, <1>12
  <2>2. \A j \in DOMAIN delivered : delivered[j].qos = 2 => delivered[j].val <= published'
    BY <1>7 DEF OnceInv, ValsKnown
  <2> QED BY <2>1, <2>2 DEF ValsKnown
<1>14. ValsApart'
  <2>1. SUFFICES ASSUME NEW p \in Coming', NEW q \in Coming', AtQos2(p), AtQos2(q), p.val = q.val
                 PROVE  p = q
    BY DEF ValsApart
  <2>2. CASE p \in Coming /\ q \in Coming
    BY <2>1, <2>2 DEF OnceInv, ValsApart
  <2>3. ASSUME AtQos2(x), x \notin Coming, NEW y \in Coming, AtQos2(y)
        PROVE  y.val # x.val
    BY <1>7, <1>10, <1>12, <2>3
  <2> QED BY <1>4, <2>1, <2>2, <2>3
<1>15. PassedGuarded'
  <2>1. ASSUME NEW p \in Coming', AtQos2(p), Passed(p.val)
        PROVE  Guarded(p)
    <3>1. p \in Coming
      BY <1>4, <1>11, <1>12, <2>1
    <3> QED BY <2>1, <3>1 DEF OnceInv, PassedGuarded
  <2> QED BY <1>8, <1>9, <2>1 DEF PassedGuarded
<1>16. NewAfterRelease'
  <2>1. SUFFICES ASSUME NEW m \in DOMAIN toClient', NEW p \in Coming', AtQos2(p), Releases(toClient'[m], p),
                        Later(p, m)', Passed(p.val)
                 PROVE  FALSE
    BY <1>8 DEF NewAfterRelease
  <2>2. CASE m = len + 1 /\ toClient'[m] = x
    BY <1>6, <2>1, <2>2
  <2>3. CASE m \in 1..len /\ m \in DOMAIN toClient /\ toClient'[m] = toClient[m]
    <3>1. Later(p, m) /\ p \in Coming
      BY <1>5, <1>11, <1>12, <2>1, <2>3, ComingTyped
    <3> QED BY <2>1, <2>3, <3>1 DEF OnceInv, NewAfterRelease
  <2> QED BY <1>3, <2>2, <2>3
<1>17. NoneReleasedBetween'
  <2>1. SUFFICES ASSUME NEW a \in DOMAIN toClient', NEW m \in DOMAIN toClient', NEW p, p = toClient'[a],
                        a < m, AtQos2(p), Later(p, m)', Releases(toClient'[m], p)
                 PROVE  FALSE
    BY DEF NoneReleasedBetween, Later
  <2>2. CASE m = len + 1 /\ toClient'[m] = x
    BY <1>6, <2>1, <2>2
  <2>3. CASE m \in 1..len /\ m \in DOMAIN toClient /\ toClient'[m] = toClient[m]
    <3>1. a \in DOMAIN toClient /\ p = toClient[a]
      BY <1>2, <2>1, <2>3
    <3>2. p \in Coming
      BY <3>1 DEF Coming
    <3>3. Later(p, m)
      BY <1>5, <1>7, <1>10, <1>12, <2>1, <2>3, <3>2
    <3> QED BY <2>1, <2>3, <3>1, <3>3 DEF OnceInv, NoneReleasedBetween
  <2> QED BY <1>3, <2>2, <2>3
<1>18. delivered' \in Seq(Receivable) /\ PassedOnce'
  BY DEF OnceInv, PassedOnce
<1> QED BY <1>13, <1>14, <1>15, <1>16, <1>17, <1>18 DEF OnceInv

-----------------------------------------------------------------------------
(* Before mqtt_connect.                                                    *)

LEMMA NothingSteps ==
  ASSUME Inv, Nothing, [Next]_vars
  PROVE  Nothing'
<1>1. SUFFICES ASSUME pc' = "connect"
               PROVE  /\ mq' = <<>> /\ toBroker' = <<>> /\ toClient' = <<>>
                      /\ held' = {} /\ pending' = {} /\ ~accepted'
  BY DEF Nothing
<1>2. CASE UNCHANGED vars
  BY <1>1, <1>2 DEF Nothing, vars, client, broker, wire
<1>3. CASE Connect \/ Sync \/ ReceiveEnds \/ SendStarts \/ SendEnds \/ Tick \/ Reconnect
  BY <1>1, <1>3, ReconnectParts DEF Connect, Sync, ReceiveEnds, SendStarts, SendEnds, Tick, Fail, Return
<1>4. CASE Receive
  <2>1. toClient # <<>> /\ pc = "recv"
    BY <1>4 DEF Receive
  <2>2. pc' = pc \/ pc' = "idle"
    BY <1>4, <2>1, FirstPacket, DeliverKeeps, AcknowledgeKeeps DEF Receive
  <2> QED BY <1>1, <2>1, <2>2
<1>5. CASE Send
  BY <1>1, <1>5, SendCases
<1>6. ASSUME NEW c \in Calls, Call(c[1], c[2]) PROVE FALSE
  BY <1>1, <1>6 DEF Call, Unlocked
<1>7. ASSUME NEW t \in Threads, UnsubscribeReads(t) \/ UnsubscribeWrites(t) \/ Unsubscribe(t),
             UNCHANGED <<reconnects, broker>>
      PROVE  UNCHANGED <<mq, pc, wire, broker>>
  <2>1. UnsubscribeWrites(t)
    BY <1>1, <1>7 DEF UnsubscribeReads, Unsubscribe, Unlocked
  <2> QED BY <1>7, <2>1 DEF UnsubscribeWrites
<1>8. CASE BrokerReceives /\ UNCHANGED client
  BY <1>1, <1>8 DEF Nothing, BrokerReceives, client
<1>9. CASE (BrokerResends \/ \E qos \in OutQos : BrokerPublishes(qos)) /\ UNCHANGED client
  BY <1>1, <1>9 DEF Nothing, BrokerResends, BrokerPublishes, client
<1>10. CASE Break /\ UNCHANGED <<client, broker>>
  <2>1. Nothing /\ pc = "connect" /\ UNCHANGED <<mq, held, pending, accepted>>
    BY <1>1, <1>10 DEF client, broker
  <2>2. toBroker' = <<>> /\ toClient' \in Seq(Receivable) /\ Len(toClient') \in 0..Len(toClient)
    BY <1>10, BreakParts
  <2>3. toClient = <<>> /\ Len(<<>>) = 0
    BY <2>1 DEF Nothing
  <2>4. toClient' = <<>>
    BY <2>2, <2>3, EmptySeq
  <2> QED BY <2>1, <2>2, <2>4 DEF Nothing
<1> QED BY <1>1, <1>2, <1>3, <1>4, <1>5, <1>6, <1>7, <1>8, <1>9, <1>10, Steps DEF Nothing, wire, broker

-----------------------------------------------------------------------------
(* Each step passes a publish of QoS 2 on once, or none.                   *)

LEMMA PackedKeeps ==
  ASSUME NEW q, NEW p, NEW n, NEW r, Packed(q, p, n, r), Len(q) \in Nat, NEW k \in 1..Len(q),
         q[k].state # "COMPLETE"
  PROVE  k - n \in 1..(Len(q) - n) /\ k - n \in DOMAIN r /\ r[k - n] = q[k]
<1>1. n \in 0..Len(q) /\ ~(k \in 1..n)
  BY DEF Packed
<1>2. k - n \in 1..(Len(q) - n) /\ (k - n) + n = k
  BY <1>1
<1>3. r \in Seq(Queued) /\ Len(r) \in {Len(q) - n, Len(q) - n + 1}
  BY DEF Packed, QueueTyped
<1>4. DOMAIN r = 1..Len(r) /\ Len(r) \in Nat
  BY <1>3, LenProperties
<1>5. k - n \in DOMAIN r
  BY <1>1, <1>2, <1>3, <1>4
<1>6. \A j \in 1..(Len(q) - n) : r[j] = q[j + n]
  BY DEF Packed
<1> QED BY <1>2, <1>5, <1>6

\* MQTT_CLIENT_TRY_PACK, after k was completed or not, leaves every PUBREC that waits.
LEMMA PackingGuards ==
  ASSUME Inv, NEW q, QueueTyped(q), NEW p, New(p) \in Queued, TryPack(q, p),
         Len(q) = Len(mq), NEW k \in 1..Len(mq), NEW y,
         q[k].packet = mq[k].packet, q[k].state = mq[k].state,
         mq[k].packet.type = "PUBREC", mq[k].packet.pid = y.pid, mq[k].state # "COMPLETE"
  PROVE  Guarded(y)'
<1>1. Len(q) \in Nat /\ error \in Errors
  BY QueueParts DEF QueueTyped, Inv, ClientTyped
<1>2. PICK n \in 0..Len(q) : Packed(q, p, n, mq')
  BY <1>1, Packing
<1>3. k - n \in DOMAIN mq' /\ mq'[k - n] = q[k]
  BY <1>1, <1>2, PackedKeeps
<1> QED BY <1>3 DEF Guarded

\* What keeps, empties or shortens the queue of the client and receives nothing.
LEMMA NothingReceived ==
  ASSUME Inv, Inv', OnceInv, UNCHANGED <<toClient, pending, published, delivered>>,
         \A y : (y \in Coming /\ Guarded(y)) => Guarded(y)'
  PROVE  OnceInv'
<1>1. Len(toClient') <= Len(toClient) - 0 /\ \A n \in 1..Len(toClient') : toClient'[n] = toClient[n + 0]
  BY LenProperties DEF Inv, WireTyped
<1>2. \A v : Passed(v)' <=> Passed(v)
  BY DEF Passed
<1>3. delivered' \in Seq(Receivable) /\ PassedOnce'
  BY DEF OnceInv, PassedOnce
<1>4. \A p \in Coming' : p \in Coming
  BY DEF Coming
<1> QED BY <1>1, <1>2, <1>3, <1>4, NothingPassed

\* The client's queue keeps its open PUBRECs in every step but those of __mqtt_recv
\* and of the reconnection.
LEMMA GuardsStay ==
  ASSUME Inv, NEW p \in PacketsOf(Types), Numbered(p), TryPack(mq, p), NEW y, Guarded(y)
  PROVE  Guarded(y)'
<1>1. QueueTyped(mq) /\ New(p) \in Queued /\ DOMAIN mq = 1..Len(mq)
  BY NewMessage, QueueParts DEF Inv, QueueOK, QueueTyped
<1>2. PICK k \in DOMAIN mq : mq[k].packet.type = "PUBREC" /\ mq[k].packet.pid = y.pid /\ mq[k].state # "COMPLETE"
  BY DEF Guarded
<1> QED BY <1>1, <1>2, PackingGuards

LEMMA SameGuards ==
  ASSUME Inv, NEW y, Guarded(y), QueueTyped(mq'), Len(mq') = Len(mq),
         \A k \in 1..Len(mq) : /\ mq'[k].packet = mq[k].packet
                               /\ mq[k].packet.type = "PUBREC" /\ mq[k].state # "COMPLETE" => mq'[k].state # "COMPLETE"
  PROVE  Guarded(y)'
<1>1. DOMAIN mq = 1..Len(mq) /\ DOMAIN mq' = 1..Len(mq)
  BY QueueParts DEF Inv, QueueOK, QueueTyped
<1> QED BY <1>1 DEF Guarded

LEMMA CallGuards ==
  ASSUME Inv, NEW c \in Calls, Call(c[1], c[2]), NEW y, Guarded(y)
  PROVE  Guarded(y)'
<1>1. c[1] \in {"PUBLISH", "SUBSCRIBE", "PINGREQ", "DISCONNECT"} /\ c[2] \in 0..2
  BY ClientAssumption
<1>2. calls' \in Nat
  BY DEF Inv, ClientTyped, Call, Called
<1>3. CASE Draws(c[1]) /\ lfsr' \in NextPid(lfsr) /\ TryPack(mq, Packet(c[1], c[2], lfsr', calls'))
  <2>1. PICK p : p = Packet(c[1], c[2], lfsr', calls')
    OBVIOUS
  <2>2. lfsr' \in Pids
    BY <1>3, DrawnIsFree DEF Inv, QueueOK
  <2>3. p.type = c[1] /\ p.pid = lfsr'
    BY <2>1 DEF Packet
  <2>4. c[1] \in {"PUBLISH", "SUBSCRIBE"}
    BY <1>3 DEF Draws
  <2>5. p \in PacketsOf(Types) /\ Numbered(p)
    BY <1>1, <1>2, <2>1, <2>2, <2>3, <2>4 DEF Packet, PacketsOf, Types, Numbered, WithoutId
  <2> QED BY <1>3, <2>1, <2>5, GuardsStay
<1>4. CASE ~Draws(c[1]) /\ TryPack(mq, Simple(c[1], None))
  <2>1. PICK p : p = Simple(c[1], None)
    OBVIOUS
  <2>2. c[1] \in {"PINGREQ", "DISCONNECT"}
    BY <1>1, <1>4 DEF Draws
  <2>3. p \in PacketsOf(Types) /\ Numbered(p)
    BY <2>1, <2>2 DEF Simple, Packet, PacketsOf, Types, Numbered, WithoutId
  <2> QED BY <1>4, <2>1, <2>3, GuardsStay
<1> QED BY <1>3, <1>4 DEF Call

LEMMA QuietSteps ==
  ASSUME Inv, Nothing, Inv', OnceInv, UNCHANGED <<reconnects, broker>>,
         \/ Connect \/ Sync \/ ReceiveEnds \/ SendStarts \/ Send \/ SendEnds \/ Tick
         \/ \E c \in Calls : Call(c[1], c[2])
         \/ \E t \in Threads : UnsubscribeReads(t) \/ UnsubscribeWrites(t) \/ Unsubscribe(t)
  PROVE  OnceInv'
<1>1. UNCHANGED <<toClient, pending, published, delivered>>
  <2>1. CASE Send
    BY <2>1, SendCases DEF wire, broker, Send
  <2> QED BY <2>1 DEF Connect, Sync, ReceiveEnds, SendStarts, SendEnds, Tick, Call, UnsubscribeReads,
                      UnsubscribeWrites, Unsubscribe, wire, broker
<1>2. ASSUME NEW y \in Coming, Guarded(y)
      PROVE  Guarded(y)'
  <2>1. CASE Connect
    BY <1>2, <2>1 DEF Connect, Nothing, Guarded
  <2>2. CASE mq' = mq
    BY <1>2, <2>2 DEF Guarded
  <2>3. CASE Sync \/ ReceiveEnds \/ SendStarts
    BY <2>2, <2>3 DEF Sync, ReceiveEnds, SendStarts
  <2>4. CASE Send
    <3>1. CASE mq' = [mq EXCEPT ![i] = Sent(mq[i])]
      <4>1. i \in 1..Len(mq) /\ mq \in Seq(Queued) /\ QueueTyped(mq')
        BY <2>4, SendCases DEF Inv, QueueOK, QueueTyped
      <4>2. /\ Updated(mq, mq') /\ mq'[i].state = AfterSend(mq[i].packet)
            /\ \A j \in 1..Len(mq) : j # i => mq'[j] = mq[j]
        BY <3>1, <4>1, SentMessage
      <4>3. mq[i].packet.type = "PUBREC" => mq'[i].state # "COMPLETE"
        BY <4>2 DEF AfterSend
      <4> QED BY <1>2, <4>1, <4>2, <4>3, SameGuards DEF Updated
    <3> QED BY <2>2, <2>4, <3>1, SendCases
  <2>5. CASE Tick
    <3>1. Completed(mq, mq') /\ \A k \in 1..Len(mq) : mq'[k].state = mq[k].state
      BY <2>5, TickSteps
    <3> QED BY <1>2, <3>1, SameGuards DEF Inv, QueueOK, Completed, Updated
  <2>6. CASE SendEnds
    <3>1. PICK p : p = Simple("PINGREQ", None)
      OBVIOUS
    <3>2. p \in PacketsOf(Types) /\ Numbered(p)
      BY <3>1 DEF Simple, Packet, PacketsOf, Types, Numbered, WithoutId
    <3> QED BY <1>2, <2>2, <2>6, <3>1, <3>2, GuardsStay DEF SendEnds
  <2>7. ASSUME NEW c \in Calls, Call(c[1], c[2])
        PROVE  Guarded(y)'
    BY <1>2, <2>7, CallGuards
  <2>8. ASSUME NEW t \in Threads, UnsubscribeReads(t) \/ UnsubscribeWrites(t) \/ Unsubscribe(t)
        PROVE  Guarded(y)'
    <3>1. CASE Unsubscribe(t)
      <4>1. PICK p : p = Simple("UNSUBSCRIBE", drawn[t][2])
        OBVIOUS
      <4>2. drawn[t][2] \in Pids
        <5>1. drawn[t] # Idle
          BY <3>1 DEF Unsubscribe, Idle
        <5> QED BY <5>1 DEF Inv, ClientTyped, DrawnTyped
      <4>3. p \in PacketsOf(Types) /\ Numbered(p)
        BY <4>1, <4>2 DEF Simple, Packet, PacketsOf, Types, Numbered, WithoutId
      <4> QED BY <1>2, <3>1, <4>1, <4>3, GuardsStay DEF Unsubscribe
    <3> QED BY <2>2, <2>8, <3>1 DEF UnsubscribeReads, UnsubscribeWrites
  <2> QED BY <2>1, <2>3, <2>4, <2>5, <2>6, <2>7, <2>8
<1> QED BY <1>1, <1>2, NothingReceived

LEMMA DeliveredMore ==
  ASSUME OnceInv, NEW p \in Receivable, delivered' = Append(delivered, p)
  PROVE  /\ delivered' \in Seq(Receivable) /\ Len(delivered) \in Nat
         /\ DOMAIN delivered = 1..Len(delivered) /\ DOMAIN delivered' = 1..(Len(delivered) + 1)
         /\ delivered'[Len(delivered) + 1] = p
         /\ \A j \in 1..Len(delivered) : delivered'[j] = delivered[j]
         /\ \A v : Passed(v)' <=> Passed(v) \/ (p.qos = 2 /\ p.val = v)
         /\ (p.qos = 2 => ~Passed(p.val)) => PassedOnce'
<1>1. PICK len : len = Len(delivered)
  OBVIOUS
<1>2. /\ delivered' \in Seq(Receivable) /\ len \in Nat
      /\ DOMAIN delivered = 1..len /\ DOMAIN delivered' = 1..(len + 1)
      /\ delivered'[len + 1] = p /\ \A j \in 1..len : delivered'[j] = delivered[j]
  BY <1>1, AppendProperties, LenProperties DEF OnceInv
<1>3. \A j \in DOMAIN delivered' : \/ j \in DOMAIN delivered /\ delivered'[j] = delivered[j]
                                   \/ j = len + 1 /\ delivered'[j] = p
  BY <1>2
<1>4. \A j \in DOMAIN delivered : j \in DOMAIN delivered' /\ delivered'[j] = delivered[j]
  BY <1>2
<1>5. len + 1 \in DOMAIN delivered'
  BY <1>2
<1>6. \A v : Passed(v)' <=> Passed(v) \/ (p.qos = 2 /\ p.val = v)
  BY <1>2, <1>3, <1>4, <1>5 DEF Passed
<1>7. ASSUME p.qos = 2 => ~Passed(p.val)
      PROVE  PassedOnce'
  BY <1>3, <1>7 DEF OnceInv, PassedOnce, Passed
<1> QED BY <1>1, <1>2, <1>6, <1>7

\* A publish of QoS 2 for which there is no PUBREC in the queue has not been passed on;
\* it is now, and its PUBREC joins the queue.
LEMMA PassedNext ==
  ASSUME Inv, Inv', OnceInv, toClient # <<>>, toClient' = Tail(toClient), UNCHANGED <<pending, published>>,
         NEW p, p = Head(toClient), AtQos2(p), delivered' = Append(delivered, p),
         ~Guarded(p), Guarded(p)', \A y \in Coming : Guarded(y) => Guarded(y)'
  PROVE  OnceInv'
<1>1. /\ p \in Receivable /\ p = toClient[1] /\ 1 \in DOMAIN toClient
      /\ Len(toClient') = Len(toClient) - 1 /\ DOMAIN toClient' = 1..(Len(toClient) - 1)
      /\ \A n \in 1..Len(toClient') : toClient'[n] = toClient[n + 1]
  <2>1. toClient \in Seq(Receivable) /\ Len(toClient) \in Nat \ {0} /\ DOMAIN toClient = 1..Len(toClient)
    BY FirstPacket, LenProperties DEF Inv, WireTyped
  <2>2. toClient' \in Seq(Receivable)
    BY DEF Inv, WireTyped
  <2> QED BY <2>1, <2>2, FirstPacket, LenProperties
<1>2. 1 \in {0, 1} /\ Len(toClient') <= Len(toClient) - 1 /\ pending' \subseteq pending
  <2>1. Len(toClient) \in Nat
    BY LenProperties DEF Inv, WireTyped
  <2> QED BY <1>1, <2>1
<1>3. /\ \A q \in Coming' : q \in Coming
      /\ \A q : \A m \in DOMAIN toClient' : Later(q, m)' => Later(q, m + 1)
      /\ \A m \in DOMAIN toClient' : m + 1 \in DOMAIN toClient
  BY <1>1, <1>2, FewerComing
<1>4. OnePending' /\ ValsApart' /\ NoneReleasedBetween'
  BY <1>1, <1>2, ComingApart
<1>5. p \in Coming /\ p.qos = 2 /\ ~Passed(p.val)
  BY <1>1 DEF Coming, OnceInv, PassedGuarded, AtQos2
<1>6. /\ \A v : Passed(v)' <=> Passed(v) \/ p.val = v
      /\ PassedOnce' /\ delivered' \in Seq(Receivable)
  BY <1>1, <1>5, DeliveredMore
<1>7. ValsKnown'
  <2>1. \A v : \A j \in DOMAIN delivered' : (delivered'[j].qos = 2 /\ v = delivered'[j].val) => Passed(v)'
    BY DEF Passed
  <2>2. \A v : Passed(v) => v <= published
    BY DEF OnceInv, ValsKnown, Passed
  <2> QED BY <1>3, <1>5, <1>6, <2>1, <2>2 DEF OnceInv, ValsKnown
<1>8. \A q \in Coming : (AtQos2(q) /\ q.val = p.val) => q = p
  BY <1>5 DEF OnceInv, ValsApart
<1>9. PassedGuarded'
  <2>1. SUFFICES ASSUME NEW q \in Coming', AtQos2(q), Passed(q.val)' PROVE Guarded(q)'
    BY DEF PassedGuarded
  <2>2. CASE Passed(q.val)
    BY <1>3, <2>1, <2>2 DEF OnceInv, PassedGuarded
  <2>3. CASE q.val = p.val
    BY <1>3, <1>8, <2>1, <2>3
  <2> QED BY <1>6, <2>1, <2>2, <2>3
<1>10. NewAfterRelease'
  <2>1. SUFFICES ASSUME NEW m \in DOMAIN toClient', NEW q \in Coming', AtQos2(q), Releases(toClient'[m], q),
                        Later(q, m)', Passed(q.val)'
                 PROVE  FALSE
    BY DEF NewAfterRelease
  <2>2. m + 1 \in DOMAIN toClient /\ Releases(toClient[m + 1], q) /\ Later(q, m + 1) /\ q \in Coming
    BY <1>1, <1>3, <2>1
  <2>3. ~Passed(q.val)
    BY <2>1, <2>2 DEF OnceInv, NewAfterRelease
  <2>4. q = p /\ 1 < m + 1
    <3>1. q = p
      BY <1>6, <1>8, <2>1, <2>2, <2>3
    <3>2. m \in 1..(Len(toClient) - 1) /\ Len(toClient) \in Nat
      BY <1>1, LenProperties DEF Inv, WireTyped
    <3> QED BY <3>1, <3>2
  <2> QED BY <1>1, <2>1, <2>2, <2>4 DEF OnceInv, NoneReleasedBetween
<1> QED BY <1>4, <1>6, <1>7, <1>9, <1>10 DEF OnceInv

\* One that is not of QoS 2, or an acknowledgement, passes none on.
LEMMA NonePassedNext ==
  ASSUME Inv, Inv', OnceInv, toClient # <<>>, toClient' = Tail(toClient), UNCHANGED <<pending, published>>,
         NEW p, p = Head(toClient),
         \/ delivered' = delivered
         \/ delivered' = Append(delivered, p) /\ p.qos # 2,
         \A y \in Coming : (AtQos2(y) /\ Guarded(y)) => Guarded(y)' \/ Releases(p, y)
  PROVE  OnceInv'
<1>1. /\ p \in Receivable /\ p = toClient[1] /\ 1 \in DOMAIN toClient
      /\ Len(toClient') = Len(toClient) - 1 /\ Len(toClient) \in Nat
      /\ \A n \in 1..Len(toClient') : toClient'[n] = toClient[n + 1]
  <2>1. toClient \in Seq(Receivable) /\ Len(toClient) \in Nat \ {0} /\ DOMAIN toClient = 1..Len(toClient)
    BY FirstPacket, LenProperties DEF Inv, WireTyped
  <2> QED BY <2>1, FirstPacket
<1>2. 1 \in {0, 1} /\ Len(toClient') <= Len(toClient) - 1 /\ pending' \subseteq pending
  BY <1>1
<1>3. \A y \in Coming' : y \in Coming /\ Later(y, 1)
  BY <1>1, <1>2, FewerComing
<1>4. \A v : Passed(v)' <=> Passed(v)
  <2>1. CASE delivered' = delivered
    BY <2>1 DEF Passed
  <2>2. CASE delivered' = Append(delivered, p) /\ p.qos # 2
    BY <1>1, <2>2, DeliveredMore
  <2> QED BY <2>1, <2>2
<1>5. delivered' \in Seq(Receivable) /\ PassedOnce'
  <2>1. CASE delivered' = delivered
    BY <2>1 DEF OnceInv, PassedOnce
  <2>2. CASE delivered' = Append(delivered, p) /\ p.qos # 2
    BY <1>1, <2>2, DeliveredMore
  <2> QED BY <2>1, <2>2
<1>6. \A y \in Coming' : (AtQos2(y) /\ Passed(y.val)) => ~Releases(p, y)
  BY <1>1, <1>3 DEF OnceInv, NewAfterRelease
<1> QED BY <1>1, <1>2, <1>3, <1>4, <1>5, <1>6, NothingPassed

LEMMA OnceDelivered ==
  ASSUME Inv, Inv', OnceInv, toClient # <<>>, toClient' = Tail(toClient), UNCHANGED <<pending, published>>,
         NEW p, p = Head(toClient), p.type = "PUBLISH", Deliver(p)
  PROVE  OnceInv'
<1>1. p \in Receivable /\ QueueTyped(mq) /\ error \in Errors
  BY FirstPacket DEF Inv, QueueOK, ClientTyped
<1>2. CASE mq' = mq /\ (delivered' = delivered \/ (delivered' = Append(delivered, p) /\ p.qos # 2))
  <2>1. \A y \in Coming : Guarded(y) => Guarded(y)'
    BY <1>2 DEF Guarded
  <2> QED BY <1>2, <2>1, NonePassedNext
<1>3. ASSUME p.qos \in {1, 2}, p.qos = 2 => Find("PUBREC", p.pid) = {},
             TryPack(mq, Simple(IF p.qos = 1 THEN "PUBACK" ELSE "PUBREC", p.pid)),
             delivered' = IF error' = "OK" THEN Append(delivered, p) ELSE delivered
      PROVE  OnceInv'
  <2>1. PICK r : r = Simple(IF p.qos = 1 THEN "PUBACK" ELSE "PUBREC", p.pid)
    OBVIOUS
  <2>2. p.pid \in Pids /\ p.pid # None
    BY <1>1, <1>3, Constants DEF Receivable, Numbered, WithoutId
  <2>3. /\ r \in PacketsOf(Types) /\ Numbered(r) /\ New(r) \in Queued /\ New(r).packet = r
        /\ r.pid = p.pid /\ (p.qos = 2 => r.type = "PUBREC")
    <3>1. r \in PacketsOf(Types)
      BY <2>1, <2>2 DEF Simple, Packet, PacketsOf, Types
    <3>2. Numbered(r) /\ r.pid = p.pid /\ (p.qos = 2 => r.type = "PUBREC")
      BY <2>1, <2>2 DEF Simple, Packet, Numbered, WithoutId
    <3> QED BY <3>1, <3>2, NewMessage
  <2>4. \A y \in Coming : Guarded(y) => Guarded(y)'
    BY <1>3, <2>1, <2>3, GuardsStay
  <2>5. CASE p.qos = 2 /\ error' = "OK"
    <3>1. ~Guarded(p)
      BY <1>3, <2>2, <2>5 DEF Find, Guarded
    <3>2. Guarded(p)'
      <4>1. PICK n \in 0..Len(mq) : Packed(mq, r, n, mq') /\ Len(mq') = Len(mq) - n + 1
        BY <1>1, <1>3, <2>1, <2>3, <2>5, Packing
      <4>2. Len(mq) \in Nat
        BY <1>1, QueueParts DEF QueueTyped
      <4>3. mq'[Len(mq')] = New(r) /\ mq' \in Seq(Queued) /\ Len(mq') \in 1..(Len(mq) + 1)
        BY <4>1, <4>2 DEF Packed, QueueTyped
      <4>4. Len(mq') \in DOMAIN mq'
        BY <4>2, <4>3, QueueParts
      <4>5. New(r).state # "COMPLETE"
        BY DEF New
      <4> QED BY <2>3, <2>5, <4>3, <4>4, <4>5 DEF Guarded
    <3> QED BY <1>3, <2>4, <2>5, <3>1, <3>2, PassedNext DEF AtQos2
  <2>6. CASE ~(p.qos = 2 /\ error' = "OK")
    BY <1>3, <2>4, <2>6, NonePassedNext
  <2> QED BY <2>5, <2>6
<1>4. p.qos = 0 => p.qos # 2
  OBVIOUS
<1> QED BY <1>1, <1>2, <1>3, <1>4, DeliverParts

LEMMA OnceAcknowledged ==
  ASSUME Inv, Inv', OnceInv, toClient # <<>>, toClient' = Tail(toClient), UNCHANGED <<pending, published>>,
         NEW p, p = Head(toClient), p.type # "PUBLISH", Acknowledge(p)
  PROVE  OnceInv'
<1>1. /\ p \in Receivable /\ QueueTyped(mq) /\ mq \in Seq(Queued) /\ DOMAIN mq = 1..Len(mq)
      /\ \A j \in 1..Len(mq) : mq[j] \in Queued
  BY FirstPacket, QueueParts DEF Inv, QueueOK, QueueTyped
<1>2. delivered' = delivered
  BY DEF Acknowledge
<1>3. SUFFICES ASSUME NEW y \in Coming, Guarded(y), ~Releases(p, y) PROVE Guarded(y)'
  BY <1>2, NonePassedNext
<1>4. CASE mq' = mq
  BY <1>3, <1>4 DEF Guarded
<1>5. ASSUME NEW k \in 1..Len(mq), k \in Find(Origin[p.type], p.pid),
             \/ mq' = Release(k)
             \/ \E r \in PacketsOf(Types) : Numbered(r) /\ TryPack(Release(k), r)
      PROVE  Guarded(y)'
  <2>1. PICK j \in 1..Len(mq) : /\ mq[j].packet.type = "PUBREC" /\ mq[j].packet.pid = y.pid
                                /\ mq[j].state # "COMPLETE"
    BY <1>1, <1>3 DEF Guarded
  <2>2. j # k
    <3>1. SUFFICES ASSUME mq[k].packet.type = "PUBREC", mq[k].packet.pid = y.pid PROVE FALSE
      BY <2>1
    <3>2. Origin[p.type] = "PUBREC" /\ (p.pid # None => mq[k].packet.pid = p.pid)
      BY <1>1, <1>5, <3>1, Found
    <3>3. p.type = "PUBREL"
      BY <1>1, <3>2 DEF Receivable, PacketsOf, Origin
    <3>4. p.pid # None
      BY <1>1, <3>3, Constants DEF Receivable, Numbered, WithoutId
    <3> QED BY <1>3, <3>1, <3>2, <3>3, <3>4 DEF Releases
  <2>3. /\ Release(k) \in Seq(Queued) /\ Len(Release(k)) = Len(mq) /\ QueueTyped(Release(k))
        /\ Release(k)[j].packet = mq[j].packet /\ Release(k)[j].state = mq[j].state
    BY <1>1, <2>2, Released DEF Completed, Updated, QueueTyped
  <2>4. CASE mq' = Release(k)
    <3>1. j \in DOMAIN mq'
      BY <2>3, <2>4, QueueParts
    <3> QED BY <2>1, <2>3, <2>4, <3>1 DEF Guarded
  <2>5. ASSUME NEW r \in PacketsOf(Types), Numbered(r), TryPack(Release(k), r)
        PROVE  Guarded(y)'
    <3>1. New(r) \in Queued
      BY <2>5, NewMessage
    <3>2. PICK q : q = Release(k)
      OBVIOUS
    <3> QED BY <2>1, <2>3, <2>5, <3>1, <3>2, PackingGuards
  <2> QED BY <1>5, <2>4, <2>5
<1>6. ASSUME NEW k \in 1..Len(mq), p.type \in {"PUBREC", "PUBREL"}, NEW r,
             r \in {Packet("PUBREL", 0, p.pid, mq[k].packet.val), Simple("PUBCOMP", p.pid)}
      PROVE  r \in PacketsOf(Types) /\ Numbered(r)
  <2>1. p.pid \in Pids /\ mq[k].packet.val \in Nat
    <3>1. p.pid \in Pids
      BY <1>1, <1>6 DEF Receivable, Numbered, WithoutId
    <3> QED BY <1>1, <3>1, MessageParts DEF PacketsOf
  <2> QED BY <1>6, <2>1, AnswerPacket
<1> QED BY <1>1, <1>4, <1>5, <1>6, AcknowledgeParts

-----------------------------------------------------------------------------
(* The broker's steps.                                                     *)

LEMMA OnceReplied ==
  ASSUME Inv, Inv', OnceInv, BrokerReceives, UNCHANGED client
  PROVE  OnceInv'
<1>1. /\ UNCHANGED <<published, delivered, mq>> /\ toClient \in Seq(Receivable)
      /\ \A x \in pending : x \in Receivable /\ x.type \in {"PUBLISH", "PUBREL"}
  BY DEF BrokerReceives, client, Inv, WireTyped, BrokerTyped
<1>2. PICK p : p = Head(toBroker)
  OBVIOUS
<1>3. CASE toClient' = toClient
  <2>1. pending' \subseteq pending
    <3>1. \A x : toClient' # Append(toClient, x)
      <4>1. \A x : Len(Append(toClient, x)) # Len(toClient)
        BY <1>1
      <4> QED BY <1>3, <4>1
    <3> QED BY <3>1, BrokerPending
  <2>2. Len(toClient') <= Len(toClient) - 0 /\ \A n \in 1..Len(toClient') : toClient'[n] = toClient[n + 0]
    BY <1>1, <1>3, LenProperties
  <2>3. (\A v : Passed(v)' <=> Passed(v)) /\ (\A y : Guarded(y) => Guarded(y)')
    BY <1>1 DEF Passed, Guarded
  <2>4. delivered' \in Seq(Receivable) /\ PassedOnce'
    BY <1>1 DEF OnceInv, PassedOnce
  <2> QED BY <1>1, <2>1, <2>2, <2>3, <2>4, NothingPassed
<1>4. ASSUME NEW x \in Receivable, toClient' = Append(toClient, x), x.type # "PUBLISH",
             Origin[x.type] = p.type, x.pid = p.pid,
             \/ x.type = "PUBREL" /\ pending' = NotPending(p.pid, {"PUBLISH", "PUBREL"}) \cup {x}
             \/ x.type # "PUBREL" /\ pending' = pending
      PROVE  OnceInv'
  <2>1. ~AtQos2(x)
    BY <1>4 DEF AtQos2
  <2>2. OnePending' /\ (\A y \in pending' : AtQos2(y) => y \in pending \/ y = x)
    BY <1>1, <1>4 DEF OnceInv, OnePending, NotPending
  <2>3. \A y \in pending' : AtQos2(y) => ~Releases(x, y)
    BY <1>4, <2>1 DEF NotPending, AtQos2, Releases
  <2> QED BY <1>1, <1>4, <2>1, <2>2, <2>3, OneMoreComing
<1> QED BY <1>2, <1>3, <1>4, BrokerReplies

LEMMA OnceSent ==
  ASSUME Inv, Inv', OnceInv, BrokerResends \/ \E qos \in OutQos : BrokerPublishes(qos), UNCHANGED client
  PROVE  OnceInv'
<1>1. UNCHANGED <<delivered, mq>> /\ pending \subseteq Receivable /\ published \in Nat
  BY DEF client, Inv, BrokerTyped
<1>2. CASE BrokerResends
  <2>1. PICK x \in pending : toClient' = Append(toClient, x)
    BY <1>2 DEF BrokerResends, Reply
  <2>2. published' = published /\ pending' = pending
    BY <1>2 DEF BrokerResends
  <2>3. OnePending'
    BY <2>2 DEF OnceInv, OnePending
  <2>4. \A y \in pending' : AtQos2(y) => ~Releases(x, y)
    BY <2>1, <2>2 DEF OnceInv, OnePending, AtQos2, Releases
  <2> QED BY <1>1, <2>1, <2>2, <2>3, <2>4, OneMoreComing
<1>3. ASSUME NEW qos \in OutQos, BrokerPublishes(qos)
      PROVE  OnceInv'
  <2>1. PICK x \in Receivable :
           /\ x.type = "PUBLISH" /\ x.qos = qos /\ x.val = published + 1 /\ published' = published + 1
           /\ toClient' = Append(toClient, x)
           /\ IF qos = 0 THEN pending' = pending ELSE pending' = pending \cup {x} /\ x.pid \in Pids
           /\ \A y \in pending : y.pid # x.pid
    BY <1>3, BrokerPublishParts
  <2>2. OnePending'
    BY <2>1 DEF OnceInv, OnePending
  <2>3. \A y \in pending' : y \in pending \/ y = x
    BY <2>1
  <2>4. \A y : ~Releases(x, y)
    BY <2>1 DEF Releases
  <2> QED BY <1>1, <2>1, <2>2, <2>3, <2>4, OneMoreComing
<1> QED BY <1>2, <1>3

LEMMA OnceSteps ==
  ASSUME Inv, Nothing, Inv', OnceInv, [Next]_vars
  PROVE  OnceInv'
<1>1. /\ Len(toClient) \in Nat /\ Len(toClient') \in Nat /\ toClient' \in Seq(Receivable)
      /\ delivered \in Seq(Receivable) /\ PassedOnce
  BY LenProperties DEF Inv, WireTyped, OnceInv
<1>2. CASE Receive /\ UNCHANGED <<reconnects, broker>>
  <2>1. PICK p : p = Head(toClient)
    OBVIOUS
  <2>2. toClient # <<>> /\ toClient' = Tail(toClient) /\ UNCHANGED <<pending, published>>
        /\ IF p.type = "PUBLISH" THEN Deliver(p) ELSE Acknowledge(p)
    BY <1>2, <2>1 DEF Receive, broker
  <2> QED BY <2>1, <2>2, OnceDelivered, OnceAcknowledged
<1>3. ASSUME UNCHANGED <<published, delivered>>, pending' \subseteq pending, toClient' = <<>>,
             \A y \in Coming' : Guarded(y) => Guarded(y)'
      PROVE  OnceInv'
  <2>1. Len(toClient') <= Len(toClient) - 0 /\ \A n \in 1..Len(toClient') : toClient'[n] = toClient[n + 0]
    BY <1>1, <1>3, EmptySeq
  <2>2. (\A v : Passed(v)' <=> Passed(v)) /\ PassedOnce'
    BY <1>1, <1>3 DEF Passed, PassedOnce
  <2> QED BY <1>1, <1>3, <2>1, <2>2, NothingPassed
<1>4. CASE Reconnect /\ CleanSession
  <2>1. toClient' = <<>> /\ pending' = {} /\ UNCHANGED <<published, delivered>>
    BY <1>4, ReconnectParts DEF Reconnect, CleanSession
  <2>2. Coming' = {}
    BY <2>1 DEF Coming
  <2> QED BY <1>3, <2>1, <2>2
<1>5. CASE Break /\ UNCHANGED <<client, broker>>
  <2>1. UNCHANGED <<published, delivered, pending, mq>>
    BY <1>5 DEF client, broker
  <2>2. Len(toClient') \in 0..Len(toClient) /\ \A n \in 1..Len(toClient') : toClient'[n] = toClient[n]
    BY <1>5, BreakParts
  <2>3. Len(toClient') <= Len(toClient) - 0 /\ \A n \in 1..Len(toClient') : toClient'[n] = toClient[n + 0]
    BY <1>1, <2>2
  <2>4. /\ \A v : Passed(v)' <=> Passed(v)
        /\ \A y : Guarded(y) => Guarded(y)'
        /\ delivered' \in Seq(Receivable) /\ PassedOnce'
    BY <1>1, <2>1 DEF Passed, Guarded, PassedOnce
  <2> QED BY <2>1, <2>3, <2>4, NothingPassed
<1>6. CASE UNCHANGED vars
  <2>1. UNCHANGED <<toClient, pending, published, delivered, mq>>
    BY <1>6 DEF vars, client, broker, wire
  <2>2. \A y : Guarded(y) => Guarded(y)'
    BY <2>1 DEF Guarded
  <2> QED BY <2>1, <2>2, NothingReceived
<1> QED BY <1>2, <1>4, <1>5, <1>6, Steps, QuietSteps, OnceReplied, OnceSent

LEMMA OnceInvariant ==
  Spec => []OnceInv
<1>1. Init => Nothing /\ OnceInv
  <2>1. SUFFICES ASSUME Init PROVE Nothing /\ OnceInv
    OBVIOUS
  <2>2. delivered = <<>> /\ toClient = <<>> /\ pending = {} /\ Nothing
    BY <2>1 DEF Init, ClientInit, BrokerInit, WireInit, Nothing
  <2>3. Coming = {} /\ DOMAIN delivered = {} /\ DOMAIN toClient = {} /\ delivered \in Seq(Receivable)
    BY <2>2 DEF Coming
  <2> QED BY <2>2, <2>3 DEF OnceInv, PassedOnce, OnePending, ValsKnown, ValsApart, PassedGuarded,
                            NewAfterRelease, NoneReleasedBetween
<1>2. Inv /\ Inv' /\ Nothing /\ OnceInv /\ [Next]_vars => Nothing' /\ OnceInv'
  BY NothingSteps, OnceSteps
<1> QED BY <1>1, <1>2, Invariant, PTL DEF Spec

\* A QoS 2 publish of the broker is passed on at most once, whatever the broker repeats
\* and whenever the client connects again.
THEOREM PassedAtMostOnce ==
  Spec => []PassedOnce
<1>1. OnceInv => PassedOnce
  BY DEF OnceInv
<1> QED BY <1>1, OnceInvariant, PTL

-----------------------------------------------------------------------------
(* What is complete has been received: changes of the queue.               *)

LEMMA PackedIndices ==
  ASSUME NEW q, QueueTyped(q), NEW p, NEW n, NEW r, Packed(q, p, n, r)
  PROVE  /\ n \in Nat /\ Len(q) \in Nat /\ DOMAIN q = 1..Len(q)
         /\ \A j \in DOMAIN r : /\ j \in Nat
                                /\ \/ j + n \in DOMAIN q /\ r[j] = q[j + n]
                                   \/ j = Len(q) - n + 1 /\ r[j] = New(p)
         /\ \A k \in DOMAIN q : n < k => k - n \in DOMAIN r /\ r[k - n] = q[k]
         /\ \A k \in DOMAIN q : q[k].state # "COMPLETE" => n < k
         /\ \A j, k \in DOMAIN r : j < k => j + n \in DOMAIN q /\ r[j] = q[j + n]
         /\ \A j, k \in DOMAIN r : (j # k /\ k = Len(q) - n + 1) => j < k
<1>1. /\ Len(q) \in Nat /\ DOMAIN q = 1..Len(q) /\ Len(r) \in Nat /\ DOMAIN r = 1..Len(r)
  BY QueueParts DEF QueueTyped, Packed
<1>2. /\ n \in 0..Len(q) /\ \A j \in 1..(Len(q) - n) : r[j] = q[j + n]
      /\ Len(r) = Len(q) - n \/ (Len(r) = Len(q) - n + 1 /\ r[Len(r)] = New(p))
      /\ \A j \in 1..n : q[j].state = "COMPLETE"
  BY DEF Packed
<1>3. /\ n \in Nat /\ n <= Len(q) /\ Len(q) \in Nat /\ Len(r) \in Nat
      /\ Len(r) = Len(q) - n \/ Len(r) = Len(q) - n + 1
  <2>1. Len(q) \in Nat /\ Len(r) \in Nat
    BY <1>1
  <2>2. n \in 0..Len(q) /\ (Len(r) = Len(q) - n \/ Len(r) = Len(q) - n + 1)
    BY <1>2
  <2> QED BY <2>1, <2>2
<1>4. \A j \in DOMAIN r : /\ j \in Nat
                          /\ \/ j \in 1..(Len(q) - n) /\ j + n \in DOMAIN q /\ r[j] = q[j + n]
                             \/ j = Len(q) - n + 1 /\ r[j] = New(p)
  <2>1. \A j \in 1..(Len(q) - n) : j + n \in 1..Len(q)
    BY <1>3
  <2>2. \A j \in 1..Len(r) : j \in Nat /\ (j \in 1..(Len(q) - n) \/ (j = Len(r) /\ j = Len(q) - n + 1))
    BY <1>3
  <2> QED BY <1>1, <1>2, <2>1, <2>2
<1>5. \A k \in DOMAIN q : n < k => k - n \in DOMAIN r /\ r[k - n] = q[k]
  <2>1. \A k \in 1..Len(q) : n < k => k - n \in 1..(Len(q) - n) /\ k - n \in 1..Len(r) /\ (k - n) + n = k
    BY <1>3
  <2> QED BY <1>1, <1>2, <2>1
<1>6. \A k \in DOMAIN q : q[k].state # "COMPLETE" => n < k
  <2>1. \A k \in 1..Len(q) : ~(n < k) => k \in 1..n
    BY <1>3
  <2> QED BY <1>1, <1>2, <2>1
<1>7. ASSUME NEW j \in DOMAIN r, NEW k \in DOMAIN r
      PROVE  /\ j < k => j + n \in DOMAIN q /\ r[j] = q[j + n]
             /\ (j # k /\ k = Len(q) - n + 1) => j < k
  <2>1. j \in 1..Len(r) /\ k \in 1..Len(r)
    BY <1>1
  <2>2. (j < k => j # Len(q) - n + 1) /\ ((j # k /\ k = Len(q) - n + 1) => j < k)
    BY <1>3, <2>1
  <2> QED BY <1>4, <2>2
<1> QED BY <1>1, <1>3, <1>4, <1>5, <1>6, <1>7

\* A packet may join the queue if it has nothing to do with a publish, is a publish with
\* an identifier that is nowhere, or the PUBREL of a publish that was received.
Follows(q, p) ==
  \/ p.type \notin {"PUBLISH", "PUBREL"}
  \/ p.type = "PUBLISH" /\ p.pid \notin OnTheWay /\ \A k \in DOMAIN q : q[k].packet.pid # p.pid
  \/ /\ p.type = "PUBREL" /\ Received(p)
     /\ \A k \in DOMAIN q : ~Is(q[k], "PUBREL", p.pid)
     /\ \A n \in DOMAIN toClient : toClient[n].type = "PUBCOMP" => toClient[n].pid # p.pid

LEMMA PackedReceived ==
  ASSUME NEW q, QueueTyped(q), ReceivedOK(q), NEW p, Follows(q, p), NEW n, NEW r, Packed(q, p, n, r)
  PROVE  ReceivedOK(r)
<1>1. /\ n \in Nat /\ Len(q) \in Nat /\ DOMAIN q = 1..Len(q)
      /\ \A j \in DOMAIN r : /\ j \in Nat
                             /\ \/ j + n \in DOMAIN q /\ r[j] = q[j + n]
                                \/ j = Len(q) - n + 1 /\ r[j] = New(p)
      /\ \A k \in DOMAIN q : n < k => k - n \in DOMAIN r /\ r[k - n] = q[k]
      /\ \A j, k \in DOMAIN r : j < k => j + n \in DOMAIN q /\ r[j] = q[j + n]
      /\ \A j, k \in DOMAIN r : (j # k /\ k = Len(q) - n + 1) => j < k
  BY PackedIndices
<1>2. New(p).packet = p /\ New(p).state = "UNSENT"
  BY DEF New
<1>3. \A j \in DOMAIN r : (\E k \in DOMAIN q : r[j] = q[k]) \/ r[j] = New(p)
  BY <1>1
<1>4. ASSUME NEW j \in DOMAIN r, NEW pid, Is(r[j], "PUBLISH", pid), r[j] # New(p), HasRelease(q, pid)
      PROVE  HasRelease(r, pid)
  <2>1. j \in Nat /\ j + n \in DOMAIN q /\ r[j] = q[j + n]
    BY <1>1, <1>4
  <2>2. PICK k \in DOMAIN q : Is(q[k], "PUBREL", pid)
    BY <1>4 DEF HasRelease
  <2>3. j + n < k
    <3>1. q[j + n].packet.type = "PUBLISH" /\ q[j + n].packet.pid = q[k].packet.pid /\ q[k].packet.type = "PUBREL"
      BY <1>4, <2>1, <2>2 DEF Is
    <3>2. j + n # k
      BY <3>1
    <3> QED BY <2>1, <3>1, <3>2 DEF ReceivedOK, ReleaseFollows
  <2>4. n < k
    BY <1>1, <2>1, <2>2, <2>3
  <2> QED BY <1>1, <2>2, <2>4 DEF HasRelease
<1>5. ASSUME NEW j \in DOMAIN r, r[j] = New(p), p.type = "PUBLISH"
      PROVE  p.pid \notin OnTheWay
  BY <1>5 DEF Follows
<1>6. SentAsQueued(r)
  <2>1. SUFFICES ASSUME NEW m \in DOMAIN toBroker, NEW j \in DOMAIN r, Is(r[j], "PUBLISH", toBroker[m].pid)
                 PROVE  /\ toBroker[m].type = "PUBLISH" => toBroker[m] = r[j].packet /\ r[j].state # "UNSENT"
                        /\ toBroker[m].type = "PUBREL" => HasRelease(r, toBroker[m].pid)
    BY DEF SentAsQueued
  <2>2. CASE r[j] = New(p)
    BY <1>2, <1>5, <2>1, <2>2 DEF Is, OnTheWay
  <2>3. CASE r[j] # New(p)
    BY <1>3, <1>4, <2>1, <2>3 DEF ReceivedOK, SentAsQueued
  <2> QED BY <2>2, <2>3
<1>7. AnsweredAsQueued(r)
  <2>1. SUFFICES ASSUME NEW m \in DOMAIN toClient, NEW j \in DOMAIN r
                 PROVE  /\ Is(r[j], "PUBLISH", toClient[m].pid) => AnswersPublish(toClient[m], r[j], r)
                        /\ (toClient[m].type = "PUBCOMP" /\ Is(r[j], "PUBREL", toClient[m].pid))
                             => Taken(r[j].packet.val)
    BY DEF AnsweredAsQueued
  <2>2. CASE r[j] = New(p)
    BY <1>2, <1>5, <2>1, <2>2 DEF Is, OnTheWay, Acks, AnswersPublish, Follows
  <2>3. CASE r[j] # New(p)
    BY <1>3, <1>4, <2>1, <2>3 DEF ReceivedOK, AnsweredAsQueued, AnswersPublish
  <2> QED BY <2>2, <2>3
<1>8. HeldAsQueued(r)
  <2>1. SUFFICES ASSUME NEW h \in held, NEW j \in DOMAIN r, Is(r[j], "PUBLISH", h.pid)
                 PROVE  h = r[j].packet /\ r[j].state # "UNSENT"
    BY DEF HeldAsQueued
  <2>2. CASE r[j] = New(p)
    BY <1>2, <1>5, <2>1, <2>2 DEF Is, OnTheWay
  <2>3. CASE r[j] # New(p)
    BY <1>3, <2>1, <2>3 DEF ReceivedOK, HeldAsQueued
  <2> QED BY <2>2, <2>3
<1>9. ReleaseFollows(r)
  <2>1. ASSUME NEW k \in DOMAIN r, r[k].packet.type = "PUBREL"
        PROVE  Received(r[k].packet)
    BY <1>2, <1>3, <2>1 DEF ReceivedOK, ReleaseFollows, Follows
  <2>2. ASSUME NEW k \in DOMAIN r, r[k].packet.type = "PUBREL", NEW j \in DOMAIN r, j # k,
               r[j].packet.pid = r[k].packet.pid
        PROVE  r[j].packet.type # "PUBREL" /\ (r[j].packet.type = "PUBLISH" => j < k)
    <3>1. CASE j = Len(q) - n + 1 /\ r[j] = New(p)
      <4>1. k + n \in DOMAIN q /\ r[k] = q[k + n]
        BY <1>1, <2>2, <3>1
      <4> QED BY <1>2, <2>2, <3>1, <4>1 DEF Follows, Is
    <3>2. CASE k = Len(q) - n + 1 /\ r[k] = New(p)
      <4>1. j < k /\ j + n \in DOMAIN q /\ r[j] = q[j + n]
        BY <1>1, <2>2, <3>2
      <4>2. r[j].packet.type # "PUBREL"
        BY <1>2, <2>2, <3>2, <4>1 DEF Follows, Is
      <4> QED BY <4>1, <4>2
    <3>3. CASE k + n \in DOMAIN q /\ r[k] = q[k + n] /\ j + n \in DOMAIN q /\ r[j] = q[j + n]
      <4>1. j \in Nat /\ k \in Nat /\ n \in Nat
        BY <1>1
      <4>2. j + n # k + n /\ (j + n < k + n => j < k)
        BY <2>2, <4>1
      <4>3. r[j].packet.type # "PUBREL" /\ (r[j].packet.type = "PUBLISH" => j + n < k + n)
        BY <2>2, <3>3, <4>2 DEF ReceivedOK, ReleaseFollows
      <4> QED BY <4>2, <4>3
    <3> QED BY <1>1, <3>1, <3>2, <3>3
  <2> QED BY <2>1, <2>2 DEF ReleaseFollows
<1>10. CompleteIsTaken(r)
  BY <1>2, <1>3 DEF ReceivedOK, CompleteIsTaken
<1>11. OneSent(r)
  <2>1. SUFFICES ASSUME NEW j \in DOMAIN r, NEW k \in DOMAIN r, j < k, IsQos2(r[j]), IsQos2(r[k]),
                        r[j].state # "COMPLETE", r[k] # New(p)
                 PROVE  r[k].state = "UNSENT"
    BY <1>2 DEF OneSent
  <2>2. j + n \in DOMAIN q /\ r[j] = q[j + n] /\ k + n \in DOMAIN q /\ r[k] = q[k + n]
    BY <1>1, <2>1
  <2>3. j \in Nat /\ k \in Nat /\ n \in Nat
    BY <1>1
  <2>4. j + n < k + n
    BY <2>1, <2>3
  <2> QED BY <2>1, <2>2, <2>4 DEF ReceivedOK, OneSent
<1> QED BY <1>6, <1>7, <1>8, <1>9, <1>10, <1>11 DEF ReceivedOK

LEMMA ChangedReceived ==
  ASSUME NEW q, QueueTyped(q), ReceivedOK(q), NEW r, Updated(q, r),
         \A j \in 1..Len(q) : q[j].state # "UNSENT" => r[j].state # "UNSENT",
         CompleteIsTaken(r), OneSent(r)
  PROVE  ReceivedOK(r)
<1>1. DOMAIN q = 1..Len(q) /\ DOMAIN r = 1..Len(q) /\ \A j \in 1..Len(q) : r[j].packet = q[j].packet
  BY QueueParts DEF QueueTyped, Updated
<1>2. \A pid : HasRelease(q, pid) => HasRelease(r, pid)
  BY <1>1 DEF HasRelease, Is
<1>3. SentAsQueued(r)
  BY <1>1, <1>2 DEF ReceivedOK, SentAsQueued, Is
<1>4. AnsweredAsQueued(r)
  BY <1>1, <1>2 DEF ReceivedOK, AnsweredAsQueued, AnswersPublish, Is
<1>5. HeldAsQueued(r)
  BY <1>1 DEF ReceivedOK, HeldAsQueued, Is
<1>6. ReleaseFollows(r)
  BY <1>1 DEF ReceivedOK, ReleaseFollows
<1> QED BY <1>3, <1>4, <1>5, <1>6 DEF ReceivedOK

\* The states are the same.
LEMMA SameReceived ==
  ASSUME NEW q, QueueTyped(q), ReceivedOK(q), NEW r, Updated(q, r),
         \A j \in 1..Len(q) : r[j].state = q[j].state
  PROVE  ReceivedOK(r)
<1>1. DOMAIN q = 1..Len(q) /\ DOMAIN r = 1..Len(q) /\ \A j \in 1..Len(q) : r[j].packet = q[j].packet
  BY QueueParts DEF QueueTyped, Updated
<1>2. CompleteIsTaken(r) /\ OneSent(r)
  BY <1>1 DEF ReceivedOK, CompleteIsTaken, OneSent, IsQos2
<1> QED BY <1>2, ChangedReceived

\* A message is complete now, of which the broker has what it is to have.
LEMMA ReleasedReceived ==
  ASSUME QueueTyped(mq), ReceivedOK(mq), NEW k \in DOMAIN mq,
         mq[k].packet.type = "PUBLISH" => /\ mq[k].state # "UNSENT"
                                          /\ mq[k].packet.qos = 1 => Taken(mq[k].packet.val)
                                          /\ mq[k].packet.qos = 2 => Received(mq[k].packet),
         mq[k].packet.type = "PUBREL" => Taken(mq[k].packet.val)
  PROVE  /\ ReceivedOK(Release(k)) /\ QueueTyped(Release(k))
         /\ \A y : Open(mq, y) => \/ Open(Release(k), y)
                                  \/ /\ mq[k].packet.type \in {"PUBLISH", "PUBREL"} /\ mq[k].state # "COMPLETE"
                                     /\ mq[k].packet.pid = y.pid /\ mq[k].packet.val = y.val
<1>1. PICK r : r = Release(k)
  OBVIOUS
<1>2. /\ Len(mq) \in Nat /\ DOMAIN mq = 1..Len(mq) /\ DOMAIN r = 1..Len(mq) /\ QueueTyped(r) /\ Updated(mq, r)
      /\ \A j \in DOMAIN mq : /\ r[j].packet = mq[j].packet
                              /\ r[j].state = IF j = k THEN "COMPLETE" ELSE mq[j].state
  <2>1. mq \in Seq(Queued) /\ DOMAIN mq = 1..Len(mq) /\ Len(mq) \in Nat
    BY QueueParts DEF QueueTyped
  <2>2. /\ Completed(mq, r) /\ r[k].state = "COMPLETE"
        /\ \A j \in 1..Len(mq) : j # k => r[j].state = mq[j].state
    BY <1>1, <2>1, Released
  <2>3. DOMAIN r = 1..Len(mq)
    BY <2>1, <2>2, LenProperties DEF Completed, Updated
  <2> QED BY <2>1, <2>2, <2>3 DEF Completed, Updated, QueueTyped
<1>3. CompleteIsTaken(r)
  BY <1>2 DEF ReceivedOK, CompleteIsTaken, IsQos2
<1>4. OneSent(r)
  <2>1. SUFFICES ASSUME NEW j \in DOMAIN mq, NEW m \in DOMAIN mq, j < m, IsQos2(r[j]), IsQos2(r[m]),
                        r[j].state # "COMPLETE"
                 PROVE  r[m].state = "UNSENT"
    BY <1>2 DEF OneSent
  <2>2. j # k /\ mq[j].state # "COMPLETE" /\ IsQos2(mq[j]) /\ IsQos2(mq[m])
    BY <1>2, <2>1 DEF IsQos2
  <2>3. mq[m].state = "UNSENT"
    BY <2>1, <2>2 DEF ReceivedOK, OneSent
  <2>4. m # k
    BY <2>2, <2>3 DEF IsQos2
  <2> QED BY <1>2, <2>3, <2>4
<1>5. ReceivedOK(r)
  <2>1. \A j \in 1..Len(mq) : mq[j].state # "UNSENT" => r[j].state # "UNSENT"
    BY <1>2
  <2> QED BY <1>2, <1>3, <1>4, <2>1, ChangedReceived
<1>6. ASSUME NEW y, Open(mq, y), ~Open(r, y)
      PROVE  /\ mq[k].packet.type \in {"PUBLISH", "PUBREL"} /\ mq[k].state # "COMPLETE"
             /\ mq[k].packet.pid = y.pid /\ mq[k].packet.val = y.val
  BY <1>2, <1>6 DEF Open
<1> QED BY <1>1, <1>2, <1>5, <1>6

\* MQTT_CLIENT_TRY_PACK.
LEMMA PackReceived ==
  ASSUME NEW q, QueueTyped(q), ReceivedOK(q), error \in Errors, NEW p, New(p) \in Queued, Follows(q, p),
         TryPack(q, p)
  PROVE  /\ ReceivedOK(mq')
         /\ error' = "OK" => /\ error = "OK" /\ \A y : Open(q, y) => Open(mq', y)
                             /\ p.type = "PUBREL" => Open(mq', p)
<1>1. PICK n \in 0..Len(q) :
        /\ Packed(q, p, n, mq')
        /\ \/ error = "OK" /\ error' = "OK" /\ Len(mq') = Len(q) - n + 1
           \/ error # "OK" /\ error' = error /\ mq' = q /\ n = 0
           \/ error = "OK" /\ error' = "SEND_BUFFER_IS_FULL" /\ Len(mq') = Len(q) - n
  BY Packing
<1>2. ReceivedOK(mq')
  BY <1>1, PackedReceived
<1>3. \A y : Open(q, y) => Open(mq', y)
  <2>1. \A k \in DOMAIN q : q[k].state # "COMPLETE" => k - n \in DOMAIN mq' /\ mq'[k - n] = q[k]
    BY <1>1, PackedIndices
  <2> QED BY <2>1 DEF Open
<1>4. ASSUME error' = "OK", p.type = "PUBREL"
      PROVE  Open(mq', p)
  <2>1. Len(q) \in Nat /\ mq' \in Seq(Queued) /\ Len(mq') = Len(q) - n + 1 /\ mq'[Len(mq')] = New(p)
    <3>1. Len(q) \in Nat
      BY QueueParts DEF QueueTyped
    <3> QED BY <1>1, <1>4, <3>1 DEF Packed, QueueTyped
  <2>2. Len(mq') \in DOMAIN mq'
    <3>1. DOMAIN mq' = 1..Len(mq') /\ Len(mq') \in Nat
      BY <2>1, QueueParts
    <3>2. Len(mq') \in 1..Len(mq')
      BY <2>1, <3>1
    <3> QED BY <3>1, <3>2
  <2> QED BY <1>4, <2>1, <2>2 DEF Open, New
<1> QED BY <1>1, <1>2, <1>3, <1>4

-----------------------------------------------------------------------------
(* The packets under way.                                                  *)

LEMMA LessUnderWay ==
  ASSUME HeldTyped, UNCHANGED <<held, got>>, ReceivedOK(mq'),
         \A n \in DOMAIN toBroker' : toBroker'[n].type \in {"PUBLISH", "PUBREL"}
                                       => \E m \in DOMAIN toBroker : toBroker'[n] = toBroker[m],
         \A n \in DOMAIN toClient' : toClient'[n].type \in Acks
                                       => \E m \in DOMAIN toClient : toClient'[n] = toClient[m]
  PROVE  ReceivedOK(mq)' /\ HeldTyped' /\ (AllOpen(mq') => AllOpen(mq)')
<1>1. SentAsQueued(mq)'
  BY DEF ReceivedOK, SentAsQueued, HasRelease
<1>2. AnsweredAsQueued(mq)'
  BY DEF ReceivedOK, AnsweredAsQueued, AnswersPublish, HasRelease, Acks, Taken, Received
<1>3. HeldAsQueued(mq)' /\ ReleaseFollows(mq)' /\ CompleteIsTaken(mq)' /\ OneSent(mq)'
  BY DEF ReceivedOK, HeldAsQueued, ReleaseFollows, CompleteIsTaken, OneSent, Taken, Received
<1>4. AllOpen(mq') => AllOpen(mq)'
  BY DEF AllOpen, Open, AtQos2
<1> QED BY <1>1, <1>2, <1>3, <1>4 DEF ReceivedOK, HeldTyped

LEMMA AppendedTo ==
  ASSUME NEW S, NEW s \in Seq(S), NEW x, NEW t, t = Append(s, x)
  PROVE  /\ Len(s) \in Nat /\ DOMAIN s = 1..Len(s) /\ DOMAIN t = 1..(Len(s) + 1)
         /\ Len(s) + 1 \in DOMAIN t /\ t[Len(s) + 1] = x
         /\ \A n \in DOMAIN s : n \in DOMAIN t /\ t[n] = s[n]
         /\ \A n \in DOMAIN t : (n \in DOMAIN s /\ t[n] = s[n]) \/ (n = Len(s) + 1 /\ t[n] = x)
         /\ \A m, n \in DOMAIN t : m < n => m \in DOMAIN s /\ t[m] = s[m]
<1>1. Len(s) \in Nat /\ DOMAIN s = 1..Len(s)
  BY LenProperties
<1>2. DOMAIN t = 1..(Len(s) + 1) /\ t[Len(s) + 1] = x /\ \A n \in 1..Len(s) : t[n] = s[n]
  BY <1>1
<1>3. \A m, n \in 1..(Len(s) + 1) : m < n => m \in 1..Len(s)
  BY <1>1
<1> QED BY <1>1, <1>2, <1>3

LEMMA TailOf ==
  ASSUME NEW S, NEW s \in Seq(S), s # <<>>, NEW t, t = Tail(s)
  PROVE  /\ 1 \in DOMAIN s /\ Head(s) = s[1]
         /\ \A n \in DOMAIN t : n \in Nat /\ n + 1 \in DOMAIN s /\ 1 < n + 1 /\ t[n] = s[n + 1]
<1>1. /\ Len(s) \in Nat \ {0} /\ DOMAIN s = 1..Len(s) /\ t \in Seq(S) /\ Len(t) = Len(s) - 1
      /\ \A n \in 1..Len(t) : t[n] = s[n + 1]
  BY HeadTailProperties, EmptySeq, LenProperties
<1>2. DOMAIN t = 1..Len(t)
  BY <1>1, LenProperties
<1> QED BY <1>1, <1>2

\* No publish of QoS 2 joins those to the broker after its PUBREL or PUBCOMP.
LEMMA NoneAfter ==
  ASSUME Inv, NoneAfterRelease, NEW x,
         \/ toBroker' = toBroker \/ toBroker' = <<>> \/ (toBroker # <<>> /\ toBroker' = Tail(toBroker))
         \/ /\ toBroker' = Append(toBroker, x)
            /\ AtQos2(x) => /\ \A m \in DOMAIN toBroker : toBroker[m].type = "PUBREL" => toBroker[m].pid # x.pid
                            /\ \A m \in DOMAIN toClient : toClient[m].type = "PUBCOMP" => toClient[m].pid # x.pid,
         \A h \in held' : h \in held \/ (AtQos2(h) /\ \E m \in DOMAIN toBroker : toBroker[m] = h),
         \A n \in DOMAIN toClient' : toClient'[n].type = "PUBCOMP" =>
           \/ \E m \in DOMAIN toClient : toClient'[n] = toClient[m]
           \/ /\ \A h \in held' : h.pid # toClient'[n].pid
              /\ \A m \in DOMAIN toBroker' : AtQos2(toBroker'[m]) => toBroker'[m].pid # toClient'[n].pid
  PROVE  NoneAfterRelease'
<1>1. toBroker \in Seq(Sendable)
  BY DEF Inv, WireTyped
<1>2. /\ \A m, n \in DOMAIN toBroker' : (m < n /\ toBroker'[m].type = "PUBREL" /\ AtQos2(toBroker'[n]))
                                           => toBroker'[m].pid # toBroker'[n].pid
      /\ \A n \in DOMAIN toBroker' : AtQos2(toBroker'[n]) =>
           \/ \E m \in DOMAIN toBroker : toBroker'[n] = toBroker[m]
           \/ \A m \in DOMAIN toClient : toClient[m].type = "PUBCOMP" => toClient[m].pid # toBroker'[n].pid
  <2>1. CASE toBroker' = toBroker
    BY <2>1 DEF NoneAfterRelease
  <2>2. CASE toBroker' = <<>>
    BY <2>2
  <2>3. CASE toBroker # <<>> /\ toBroker' = Tail(toBroker)
    <3>1. \A n \in DOMAIN toBroker' : n \in Nat /\ n + 1 \in DOMAIN toBroker /\ toBroker'[n] = toBroker[n + 1]
      BY <1>1, <2>3, TailOf
    <3>2. \A m, n \in DOMAIN toBroker' : m < n => m + 1 < n + 1
      BY <3>1
    <3> QED BY <3>1, <3>2 DEF NoneAfterRelease
  <2>4. CASE /\ toBroker' = Append(toBroker, x)
             /\ AtQos2(x) => /\ \A m \in DOMAIN toBroker : toBroker[m].type = "PUBREL" => toBroker[m].pid # x.pid
                             /\ \A m \in DOMAIN toClient : toClient[m].type = "PUBCOMP" => toClient[m].pid # x.pid
    <3>1. /\ \A n \in DOMAIN toBroker' : \/ n \in DOMAIN toBroker /\ toBroker'[n] = toBroker[n]
                                         \/ toBroker'[n] = x
          /\ \A m, n \in DOMAIN toBroker' : m < n => m \in DOMAIN toBroker /\ toBroker'[m] = toBroker[m]
      BY <1>1, <2>4, AppendedTo
    <3> QED BY <2>4, <3>1 DEF NoneAfterRelease
  <2> QED BY <2>1, <2>2, <2>3, <2>4
<1> QED BY <1>2 DEF NoneAfterRelease

-----------------------------------------------------------------------------
(* What is complete has been received: the steps.                          *)

LEMMA IrrelevantPacket ==
  ASSUME NEW p \in PacketsOf(Types), Numbered(p), p.type \notin {"PUBLISH", "PUBREL"}
  PROVE  New(p) \in Queued /\ \A q : Follows(q, p)
BY NewMessage DEF Follows

\* The queue is as it should be with the packets under way before the step, of which
\* at most some are read or lost, and no publish is added.
LEMMA ClientReceived ==
  ASSUME Inv, ReceivedInv, UNCHANGED <<held, got>>, ReceivedOK(mq'),
         toBroker' \in {toBroker, <<>>, Append(toBroker, Garbled)},
         \A n \in DOMAIN toClient' : \E m \in DOMAIN toClient : toClient'[n] = toClient[m],
         error' = "OK" => AllOpen(mq')
  PROVE  ReceivedInv'
<1>1. Garbled.type = "GARBLED" /\ ~AtQos2(Garbled) /\ toBroker \in Seq(Sendable)
  BY GarbledTyped DEF Inv, WireTyped
<1>2. \A n \in DOMAIN toBroker' : toBroker'[n].type \in {"PUBLISH", "PUBREL"}
                                    => \E m \in DOMAIN toBroker : toBroker'[n] = toBroker[m]
  <2>1. CASE toBroker' = Append(toBroker, Garbled)
    BY <1>1, <2>1, AppendedTo
  <2> QED BY <2>1
<1>3. ReceivedOK(mq)' /\ HeldTyped' /\ (AllOpen(mq') => AllOpen(mq)')
  BY <1>2, LessUnderWay DEF ReceivedInv
<1>4. NoneAfterRelease'
  BY <1>1, NoneAfter DEF ReceivedInv
<1> QED BY <1>3, <1>4 DEF ReceivedInv

\* MQTT_CLIENT_TRY_PACK as all that happens.
LEMMA PackStepReceived ==
  ASSUME Inv, ReceivedInv, UNCHANGED <<held, got, toBroker, toClient>>,
         NEW p \in PacketsOf(Types), Numbered(p), Follows(mq, p), TryPack(mq, p)
  PROVE  ReceivedInv'
<1>1. QueueTyped(mq) /\ error \in Errors /\ New(p) \in Queued
  BY NewMessage DEF Inv, QueueOK, ClientTyped
<1>2. /\ ReceivedOK(mq')
      /\ error' = "OK" => error = "OK" /\ \A y : Open(mq, y) => Open(mq', y)
  BY <1>1, PackReceived DEF ReceivedInv
<1>3. error' = "OK" => AllOpen(mq')
  BY <1>2 DEF ReceivedInv, AllOpen
<1> QED BY <1>2, <1>3, ClientReceived

LEMMA CallReceived ==
  ASSUME Inv, ReceivedInv, DrawsFree, NEW c \in Calls, Call(c[1], c[2]), UNCHANGED <<reconnects, broker>>
  PROVE  ReceivedInv'
<1>1. c[1] \in {"PUBLISH", "SUBSCRIBE", "PINGREQ", "DISCONNECT"} /\ c[2] \in 0..2
  BY ClientAssumption
<1>2. calls' \in Nat
  BY DEF Inv, ClientTyped, Call, Called
<1>3. UNCHANGED <<held, got, toBroker, toClient>>
  BY DEF Call, wire, broker
<1>4. CASE Draws(c[1]) /\ lfsr' \in NextPid(lfsr) /\ TryPack(mq, Packet(c[1], c[2], lfsr', calls'))
  <2>1. PICK p : p = Packet(c[1], c[2], lfsr', calls')
    OBVIOUS
  <2>2. lfsr' \in Pids /\ \A k \in DOMAIN mq : mq[k].packet.pid # lfsr'
    BY <1>4, DrawnIsFree DEF Inv, QueueOK
  <2>3. p.type = c[1] /\ p.pid = lfsr'
    BY <2>1 DEF Packet
  <2>4. c[1] \in {"PUBLISH", "SUBSCRIBE"}
    BY <1>4 DEF Draws
  <2>5. p \in PacketsOf(Types) /\ Numbered(p)
    BY <1>1, <1>2, <2>1, <2>2, <2>3, <2>4 DEF Packet, PacketsOf, Types, Numbered, WithoutId
  <2>6. Follows(mq, p)
    BY <1>4, <2>2, <2>3, <2>4 DEF DrawsFree, Follows
  <2> QED BY <1>3, <1>4, <2>1, <2>5, <2>6, PackStepReceived
<1>5. CASE ~Draws(c[1]) /\ TryPack(mq, Simple(c[1], None))
  <2>1. PICK p : p = Simple(c[1], None)
    OBVIOUS
  <2>2. c[1] \in {"PINGREQ", "DISCONNECT"} /\ p.type = c[1]
    BY <1>1, <1>5, <2>1 DEF Draws, Simple, Packet
  <2>3. p \in PacketsOf(Types) /\ Numbered(p)
    BY <2>1, <2>2 DEF Simple, Packet, PacketsOf, Types, Numbered, WithoutId
  <2>4. Follows(mq, p)
    BY <2>2 DEF Follows
  <2> QED BY <1>3, <1>5, <2>1, <2>3, <2>4, PackStepReceived
<1> QED BY <1>4, <1>5 DEF Call

LEMMA UnsubscribeReceived ==
  ASSUME Inv, ReceivedInv, NEW t \in Threads, UnsubscribeReads(t) \/ UnsubscribeWrites(t) \/ Unsubscribe(t),
         UNCHANGED <<reconnects, broker>>
  PROVE  ReceivedInv'
<1>1. UNCHANGED <<held, got, toBroker, toClient>>
  BY DEF UnsubscribeReads, UnsubscribeWrites, Unsubscribe, wire, broker
<1>2. CASE UnsubscribeReads(t) \/ UnsubscribeWrites(t)
  <2>1. UNCHANGED <<mq, error>>
    BY <1>2 DEF UnsubscribeReads, UnsubscribeWrites
  <2> QED BY <1>1, <2>1, ClientReceived DEF ReceivedInv
<1>3. CASE Unsubscribe(t)
  <2>1. PICK p : p = Simple("UNSUBSCRIBE", drawn[t][2])
    OBVIOUS
  <2>2. drawn[t][2] \in Pids
    <3>1. drawn[t] # Idle
      BY <1>3 DEF Unsubscribe, Idle
    <3> QED BY <3>1 DEF Inv, ClientTyped, DrawnTyped
  <2>3. p \in PacketsOf(Types) /\ Numbered(p) /\ p.type = "UNSUBSCRIBE"
    BY <2>1, <2>2 DEF Simple, Packet, PacketsOf, Types, Numbered, WithoutId
  <2>4. Follows(mq, p)
    BY <2>3 DEF Follows
  <2> QED BY <1>1, <1>3, <2>1, <2>3, <2>4, PackStepReceived DEF Unsubscribe
<1> QED BY <1>2, <1>3

LEMMA StillReceived ==
  ASSUME Inv, Nothing, ReceivedInv, UNCHANGED <<reconnects, broker>>,
         Connect \/ Sync \/ ReceiveEnds \/ SendStarts \/ SendEnds \/ Tick
  PROVE  ReceivedInv'
<1>1. UNCHANGED <<held, got, toBroker, toClient>>
  BY DEF Connect, Sync, ReceiveEnds, SendStarts, SendEnds, Tick, wire, broker
<1>2. CASE Connect
  <2>1. QueueOK(mq') /\ Len(mq') = 1 /\ mq'[1] = New(Simple("CONNECT", None))
    BY <1>2, FirstMessage DEF Connect
  <2>2. \A k \in DOMAIN mq' : mq'[k].packet.type = "CONNECT" /\ mq'[k].state = "UNSENT"
    <3>1. DOMAIN mq' = 1..1
      BY <2>1, QueueParts DEF QueueOK, QueueTyped
    <3> QED BY <2>1, <3>1 DEF New, Simple, Packet
  <2>3. ReceivedOK(mq')
    BY <2>2 DEF ReceivedOK, SentAsQueued, AnsweredAsQueued, HeldAsQueued, ReleaseFollows, CompleteIsTaken,
                OneSent, Is, IsQos2
  <2>4. held = {} /\ toBroker = <<>>
    BY <1>2 DEF Connect, Nothing
  <2>5. AllOpen(mq')
    BY <2>4 DEF AllOpen
  <2> QED BY <1>1, <2>3, <2>5, ClientReceived
<1>3. CASE Sync \/ ReceiveEnds \/ SendStarts
  <2>1. mq' = mq /\ (error' = error \/ error' = "SOCKET_ERROR")
    BY <1>3 DEF Sync, ReceiveEnds, SendStarts, Fail
  <2>2. ReceivedOK(mq') /\ (error' = "OK" => AllOpen(mq'))
    BY <2>1 DEF ReceivedInv
  <2> QED BY <1>1, <2>2, ClientReceived
<1>4. CASE SendEnds
  <2>1. CASE UNCHANGED <<mq, error>>
    BY <1>1, <2>1, ClientReceived DEF ReceivedInv
  <2>2. CASE TryPack(mq, Simple("PINGREQ", None))
    <3>1. PICK p : p = Simple("PINGREQ", None)
      OBVIOUS
    <3>2. p \in PacketsOf(Types) /\ Numbered(p) /\ p.type = "PINGREQ"
      BY <3>1 DEF Simple, Packet, PacketsOf, Types, Numbered, WithoutId
    <3>3. Follows(mq, p)
      BY <3>2 DEF Follows
    <3> QED BY <1>1, <2>2, <3>1, <3>2, <3>3, PackStepReceived
  <2> QED BY <1>4, <2>1, <2>2 DEF SendEnds
<1>5. CASE Tick
  <2>1. /\ QueueTyped(mq) /\ Updated(mq, mq') /\ error' = error
        /\ \A k \in 1..Len(mq) : mq'[k].state = mq[k].state
    BY <1>5, TickSteps DEF Inv, QueueOK, Completed, Tick
  <2>2. ReceivedOK(mq')
    BY <2>1, SameReceived DEF ReceivedInv
  <2>3. DOMAIN mq = 1..Len(mq) /\ DOMAIN mq' = 1..Len(mq)
    BY <2>1, QueueParts DEF QueueTyped, Updated
  <2>4. \A y : Open(mq, y) => Open(mq', y)
    BY <2>1, <2>3 DEF Open, Updated
  <2>5. error' = "OK" => AllOpen(mq')
    BY <2>1, <2>4 DEF ReceivedInv, AllOpen
  <2> QED BY <1>1, <2>2, <2>5, ClientReceived
<1> QED BY <1>2, <1>3, <1>4, <1>5

\* A message is sent: what the loop of __mqtt_send changes in the queue.
LEMMA SentReceived ==
  ASSUME Inv, ReceivedOK(mq), Send, Due(mq[i]), mq' = [mq EXCEPT ![i] = Sent(mq[i])]
  PROVE  /\ i \in DOMAIN mq /\ DOMAIN mq' = DOMAIN mq /\ ReceivedOK(mq')
         /\ \A j \in DOMAIN mq : mq'[j].packet = mq[j].packet /\ (j # i => mq'[j] = mq[j])
         /\ mq'[i].state = AfterSend(mq[i].packet) /\ mq[i].state # "COMPLETE" /\ mq'[i].state # "UNSENT"
<1>1. /\ QueueTyped(mq) /\ mq \in Seq(Queued) /\ Len(mq) \in Nat /\ DOMAIN mq = 1..Len(mq) /\ i \in 1..Len(mq)
      /\ pc = "send"
  BY QueueParts, SendCases DEF Inv, QueueOK, QueueTyped
<1>2. PICK r : r = mq'
  OBVIOUS
<1>3. /\ Updated(mq, r) /\ r[i].state = AfterSend(mq[i].packet)
      /\ \A j \in 1..Len(mq) : j # i => r[j] = mq[j]
  BY <1>1, <1>2, SentMessage
<1>4. DOMAIN r = 1..Len(mq) /\ \A j \in 1..Len(mq) : r[j].packet = mq[j].packet
  BY <1>1, <1>3, LenProperties DEF Updated
<1>5. mq[i].state # "COMPLETE" /\ (IsQos2(mq[i]) => ~inflight) /\ r[i].state # "UNSENT"
  <2>1. mq[i].state # "COMPLETE" /\ (IsQos2(mq[i]) => ~inflight)
    BY DEF Due, Overdue
  <2>2. r[i].state # "UNSENT"
    BY <1>3 DEF AfterSend
  <2> QED BY <2>1, <2>2
<1>6. CompleteIsTaken(r)
  <2>1. SUFFICES ASSUME NEW k \in 1..Len(mq), r[k].state = "COMPLETE"
                 PROVE  /\ (r[k].packet.type = "PUBLISH" /\ r[k].packet.qos = 1) => Taken(r[k].packet.val)
                        /\ IsQos2(r[k]) => Received(r[k].packet)
                        /\ r[k].packet.type = "PUBREL" => Taken(r[k].packet.val)
    BY <1>4 DEF CompleteIsTaken
  <2>2. CASE k = i
    <3>1. /\ mq[i].packet.type \in {"PUBACK", "PUBCOMP", "DISCONNECT"}
             \/ (mq[i].packet.type = "PUBLISH" /\ mq[i].packet.qos = 0)
          /\ r[k].packet = mq[i].packet
      BY <1>3, <1>4, <2>1, <2>2 DEF AfterSend
    <3> QED BY <3>1 DEF IsQos2
  <2>3. CASE k # i
    BY <1>1, <1>3, <2>1, <2>3 DEF ReceivedOK, CompleteIsTaken
  <2> QED BY <2>2, <2>3
<1>7. OneSent(r)
  <2>1. SUFFICES ASSUME NEW j \in 1..Len(mq), NEW k \in 1..Len(mq), j < k, IsQos2(r[j]), IsQos2(r[k]),
                        r[j].state # "COMPLETE"
                 PROVE  r[k].state = "UNSENT"
    BY <1>4 DEF OneSent
  <2>2. IsQos2(mq[j]) /\ IsQos2(mq[k]) /\ mq[j].state # "COMPLETE"
    BY <1>3, <1>4, <1>5, <2>1 DEF IsQos2
  <2>3. CASE k = i
    <3>1. inflight
      BY <1>1, <2>1, <2>2, <2>3 DEF Inv, LoopKnows
    <3> QED BY <1>5, <2>2, <2>3, <3>1
  <2>4. CASE k # i
    BY <1>1, <1>3, <2>1, <2>2, <2>4 DEF ReceivedOK, OneSent
  <2> QED BY <2>3, <2>4
<1>8. ReceivedOK(r)
  <2>1. \A j \in 1..Len(mq) : mq[j].state # "UNSENT" => r[j].state # "UNSENT"
    BY <1>3, <1>5
  <2> QED BY <1>1, <1>3, <1>6, <1>7, <2>1, ChangedReceived
<1> QED BY <1>1, <1>2, <1>3, <1>4, <1>5, <1>8

\* Nothing is finished by being sent but what the broker need not finish.
LEMMA SentOpen ==
  ASSUME Inv, ReceivedOK(mq), AllOpen(mq), HeldTyped, Send, Due(mq[i]), mq' = [mq EXCEPT ![i] = Sent(mq[i])]
  PROVE  AllOpen(mq') /\ (AtQos2(mq[i].packet) => Open(mq', mq[i].packet))
<1>1. /\ i \in DOMAIN mq /\ DOMAIN mq' = DOMAIN mq
      /\ \A j \in DOMAIN mq : mq'[j].packet = mq[j].packet /\ (j # i => mq'[j] = mq[j])
      /\ mq'[i].state = AfterSend(mq[i].packet)
  BY SentReceived
<1>2. ASSUME NEW y, Open(mq, y), \A k \in DOMAIN mq : Is(mq[k], "PUBLISH", y.pid) => AtQos2(mq[k].packet)
      PROVE  Open(mq', y)
  <2>1. PICK k \in DOMAIN mq : /\ mq[k].packet.type \in {"PUBLISH", "PUBREL"} /\ mq[k].state # "COMPLETE"
                               /\ mq[k].packet.pid = y.pid /\ mq[k].packet.val = y.val
    BY <1>2 DEF Open
  <2>2. mq'[k].state # "COMPLETE"
    <3>1. CASE k = i
      <4>1. AtQos2(mq[k].packet) \/ mq[k].packet.type = "PUBREL"
        BY <1>2, <2>1 DEF Is
      <4>2. AfterSend(mq[k].packet) = "AWAITING_ACK"
        BY <4>1 DEF AfterSend, AtQos2
      <4> QED BY <1>1, <3>1, <4>2
    <3>2. CASE k # i
      BY <1>1, <2>1, <3>2
    <3> QED BY <3>1, <3>2
  <2> QED BY <1>1, <2>1, <2>2 DEF Open
<1>3. \A h \in held : Open(mq', h)
  <2>1. ASSUME NEW h \in held, NEW k \in DOMAIN mq, Is(mq[k], "PUBLISH", h.pid)
        PROVE  AtQos2(mq[k].packet)
    BY <2>1 DEF ReceivedOK, HeldAsQueued, HeldTyped
  <2> QED BY <1>2, <2>1 DEF AllOpen
<1>4. \A n \in DOMAIN toBroker : AtQos2(toBroker[n]) => Open(mq', toBroker[n])
  <2>1. ASSUME NEW n \in DOMAIN toBroker, AtQos2(toBroker[n]), NEW k \in DOMAIN mq,
               Is(mq[k], "PUBLISH", toBroker[n].pid)
        PROVE  AtQos2(mq[k].packet)
    BY <2>1 DEF ReceivedOK, SentAsQueued, AtQos2
  <2> QED BY <1>2, <2>1 DEF AllOpen
<1>5. ASSUME AtQos2(mq[i].packet)
      PROVE  Open(mq', mq[i].packet)
  <2>1. AfterSend(mq[i].packet) = "AWAITING_ACK"
    BY <1>5 DEF AfterSend, AtQos2
  <2> QED BY <1>1, <1>5, <2>1 DEF Open, AtQos2
<1> QED BY <1>3, <1>4, <1>5 DEF AllOpen

\* A message that is due joins the packets to the broker.
LEMMA WrittenReceived ==
  ASSUME Inv, ReceivedInv, Send, Due(mq[i]), mq' = [mq EXCEPT ![i] = Sent(mq[i])],
         UNCHANGED <<held, got, toClient, error>>, toBroker' = Append(toBroker, mq[i].packet)
  PROVE  ReceivedInv'
<1>1. /\ i \in DOMAIN mq /\ DOMAIN mq' = DOMAIN mq /\ ReceivedOK(mq')
      /\ \A j \in DOMAIN mq : mq'[j].packet = mq[j].packet
      /\ mq[i].state # "COMPLETE" /\ mq'[i].state # "UNSENT"
  BY SentReceived DEF ReceivedInv
<1>2. PICK x : x = mq[i].packet
  OBVIOUS
<1>3. /\ \A n \in DOMAIN toBroker' : (n \in DOMAIN toBroker /\ toBroker'[n] = toBroker[n]) \/ toBroker'[n] = x
      /\ toBroker' = Append(toBroker, x)
  BY <1>2, AppendedTo DEF Inv, WireTyped
<1>4. \A pid : HasRelease(mq, pid) => ~Is(mq[i], "PUBLISH", pid)
  BY <1>1 DEF HasRelease, Is, Inv, QueueOK, Distinct, Draws
<1>5. SentAsQueued(mq)'
  <2>1. SUFFICES ASSUME NEW n \in DOMAIN toBroker', NEW k \in DOMAIN mq', NEW y, y = toBroker'[n],
                        Is(mq'[k], "PUBLISH", y.pid)
                 PROVE  /\ y.type = "PUBLISH" => y = mq'[k].packet /\ mq'[k].state # "UNSENT"
                        /\ y.type = "PUBREL" => HasRelease(mq', y.pid)
    BY DEF SentAsQueued, HasRelease, Is
  <2>2. CASE n \in DOMAIN toBroker /\ y = toBroker[n]
    BY <1>1, <2>1, <2>2 DEF ReceivedOK, SentAsQueued
  <2>3. CASE y = x
    <3>1. CASE x.type = "PUBLISH"
      <4>1. k \in DOMAIN mq /\ mq[k].packet.type = "PUBLISH" /\ mq[k].packet.pid = mq[i].packet.pid
            /\ mq[i].packet.type = "PUBLISH"
        BY <1>1, <1>2, <2>1, <2>3, <3>1 DEF Is
      <4>2. k = i
        BY <1>1, <4>1 DEF Inv, QueueOK, Distinct, Draws
      <4> QED BY <1>1, <1>2, <2>3, <3>1, <4>2
    <3>2. CASE x.type = "PUBREL"
      BY <1>1, <1>2, <2>3, <3>2 DEF HasRelease, Is
    <3> QED BY <2>3, <3>1, <3>2
  <2> QED BY <1>3, <2>1, <2>2, <2>3
<1>6. ReceivedOK(mq)'
  <2>1. /\ AnsweredAsQueued(mq)' /\ HeldAsQueued(mq)' /\ ReleaseFollows(mq)' /\ CompleteIsTaken(mq)'
        /\ OneSent(mq)'
    BY <1>1 DEF ReceivedOK, AnsweredAsQueued, AnswersPublish, HasRelease, HeldAsQueued, ReleaseFollows,
                CompleteIsTaken, OneSent, Taken, Received
  <2> QED BY <1>5, <2>1 DEF ReceivedOK
<1>7. NoneAfterRelease'
  <2>1. ASSUME AtQos2(x)
        PROVE  /\ \A m \in DOMAIN toBroker : toBroker[m].type = "PUBREL" => toBroker[m].pid # x.pid
               /\ \A m \in DOMAIN toClient : toClient[m].type = "PUBCOMP" => toClient[m].pid # x.pid
    <3>1. Is(mq[i], "PUBLISH", x.pid)
      BY <1>2, <2>1 DEF AtQos2, Is
    <3>2. ~HasRelease(mq, x.pid)
      BY <1>4, <3>1
    <3> QED BY <1>1, <3>1, <3>2 DEF ReceivedInv, ReceivedOK, SentAsQueued, AnsweredAsQueued, AnswersPublish
  <2> QED BY <1>3, <2>1, NoneAfter DEF ReceivedInv
<1>8. error' = "OK" => AllOpen(mq)'
  <2>1. SUFFICES ASSUME error = "OK" PROVE AllOpen(mq)'
    OBVIOUS
  <2>2. AllOpen(mq') /\ (AtQos2(x) => Open(mq', x))
    BY <1>2, <2>1, SentOpen DEF ReceivedInv
  <2> QED BY <1>3, <2>2 DEF AllOpen, Open, AtQos2
<1>9. HeldTyped'
  BY DEF ReceivedInv, HeldTyped
<1> QED BY <1>6, <1>7, <1>8, <1>9 DEF ReceivedInv

LEMMA SendReceived ==
  ASSUME Inv, ReceivedInv, Send, UNCHANGED <<reconnects, broker>>
  PROVE  ReceivedInv'
<1>1. UNCHANGED <<held, got>>
  BY DEF broker
<1>2. CASE /\ UNCHANGED <<mq, toClient>> /\ toBroker' \in {toBroker, <<>>, Append(toBroker, Garbled)}
           /\ error' = error \/ error' = "SOCKET_ERROR"
  BY <1>1, <1>2, ClientReceived DEF ReceivedInv
<1>3. CASE /\ Due(mq[i]) /\ mq' = [mq EXCEPT ![i] = Sent(mq[i])]
           /\ UNCHANGED <<error, toClient>>
           /\ \/ toBroker' = toBroker \/ toBroker' = Append(toBroker, Garbled)
              \/ toBroker' = Append(toBroker, mq[i].packet)
  <2>1. CASE toBroker' \in {toBroker, <<>>, Append(toBroker, Garbled)}
    <3>1. ReceivedOK(mq')
      BY <1>3, SentReceived DEF ReceivedInv
    <3>2. error' = "OK" => AllOpen(mq')
      BY <1>3, SentOpen DEF ReceivedInv
    <3> QED BY <1>1, <1>3, <2>1, <3>1, <3>2, ClientReceived
  <2>2. CASE toBroker' = Append(toBroker, mq[i].packet)
    BY <1>1, <1>3, <2>2, WrittenReceived
  <2> QED BY <1>3, <2>1, <2>2
<1> QED BY <1>2, <1>3, SendCases DEF wire

\* A packet that has nothing to do with the client's publishes is put in the queue.
LEMMA IrrelevantReceived ==
  ASSUME NEW q, QueueTyped(q), ReceivedOK(q), error \in Errors, NEW p \in PacketsOf(Types), Numbered(p),
         p.type \notin {"PUBLISH", "PUBREL"}, TryPack(q, p)
  PROVE  /\ ReceivedOK(mq')
         /\ error' = "OK" => error = "OK" /\ \A y : Open(q, y) => Open(mq', y)
<1>1. New(p) \in Queued /\ Follows(q, p)
  BY IrrelevantPacket
<1> QED BY <1>1, PackReceived

LEMMA DeliverReceived ==
  ASSUME Inv, ReceivedInv, NEW p \in Receivable, p.type = "PUBLISH", Deliver(p)
  PROVE  ReceivedOK(mq') /\ (error' = "OK" => AllOpen(mq'))
<1>1. QueueTyped(mq) /\ error \in Errors
  BY DEF Inv, QueueOK, ClientTyped
<1>2. CASE UNCHANGED <<mq, error>>
  BY <1>2 DEF ReceivedInv
<1>3. CASE p.qos \in {1, 2} /\ TryPack(mq, Simple(IF p.qos = 1 THEN "PUBACK" ELSE "PUBREC", p.pid))
  <2>1. p.pid \in Pids /\ 0 \in Nat
    BY <1>3 DEF Receivable, Numbered, WithoutId
  <2>2. PICK type \in {"PUBACK", "PUBREC"} : type = IF p.qos = 1 THEN "PUBACK" ELSE "PUBREC"
    OBVIOUS
  <2>3. PICK r : r = Simple(type, p.pid)
    OBVIOUS
  <2>4. r.type = type /\ r \in PacketsOf(Types) /\ Numbered(r)
    BY <2>1, <2>3, AnswerPacket
  <2>5. TryPack(mq, r)
    BY <1>3, <2>2, <2>3
  <2>6. ReceivedOK(mq') /\ (error' = "OK" => error = "OK" /\ \A y : Open(mq, y) => Open(mq', y))
    BY <1>1, <2>4, <2>5, IrrelevantReceived DEF ReceivedInv
  <2> QED BY <2>6 DEF ReceivedInv, AllOpen
<1> QED BY <1>2, <1>3, DeliverParts

\* A PUBREC: the broker holds the publish, and the PUBREL takes its place.
LEMMA PubrecReceived ==
  ASSUME Inv, ReceivedInv, toClient # <<>>, NEW p, p = toClient[1], p.type = "PUBREC", p.pid \in Pids,
         1 \in DOMAIN toClient, ~Duplicate(p),
         NEW k \in DOMAIN mq, Is(mq[k], "PUBLISH", p.pid),
         TryPack(Release(k), Packet("PUBREL", 0, p.pid, mq[k].packet.val))
  PROVE  ReceivedOK(mq') /\ (error' = "OK" => AllOpen(mq'))
<1>1. /\ QueueTyped(mq) /\ error \in Errors /\ mq \in Seq(Queued) /\ DOMAIN mq = 1..Len(mq) /\ mq[k] \in Queued
      /\ ReceivedOK(mq)
  BY QueueParts DEF Inv, QueueOK, QueueTyped, ClientTyped, ReceivedInv
<1>2. PICK x : x = Packet("PUBREL", 0, p.pid, mq[k].packet.val)
  OBVIOUS
<1>3. x.type = "PUBREL" /\ x.pid = p.pid /\ x.val = mq[k].packet.val /\ mq[k].packet.pid = p.pid
  BY <1>2 DEF Packet, Is
<1>4. New(x) \in Queued
  <2>1. mq[k].packet.val \in Nat
    BY <1>1, MessageParts DEF PacketsOf
  <2>2. x \in {Simple("PUBREL", p.pid), Packet("PUBREL", 0, p.pid, mq[k].packet.val)}
    BY <1>2
  <2>3. x \in PacketsOf(Types) /\ Numbered(x)
    BY <2>1, <2>2, AnswerPacket
  <2> QED BY <2>3, NewMessage
<1>5. mq[k].state # "UNSENT" /\ mq[k].packet.qos = 2 /\ Received(mq[k].packet) /\ mq[k].packet.type = "PUBLISH"
  BY <1>1 DEF ReceivedOK, AnsweredAsQueued, AnswersPublish, Is
<1>6. /\ ReceivedOK(Release(k)) /\ QueueTyped(Release(k))
      /\ \A y : Open(mq, y) => \/ Open(Release(k), y)
                               \/ mq[k].packet.pid = y.pid /\ mq[k].packet.val = y.val
  BY <1>1, <1>5, ReleasedReceived
<1>7. ~HasRelease(mq, p.pid)
  <2>1. p.pid # None
    BY Constants
  <2>2. \A j \in DOMAIN mq : Is(mq[j], "PUBREL", p.pid) => j \in Find("PUBREL", p.pid)
    BY <2>1 DEF Find, Is
  <2> QED BY <2>2 DEF Duplicate, HasRelease
<1>8. Follows(Release(k), x)
  <2>1. Received(x)
    BY <1>3, <1>5 DEF Received
  <2>2. \A j \in DOMAIN Release(k) : ~Is(Release(k)[j], "PUBREL", x.pid)
    <3>1. Completed(mq, Release(k))
      BY <1>1, Released
    <3>2. \A j \in DOMAIN Release(k) : j \in DOMAIN mq /\ Release(k)[j].packet = mq[j].packet
      BY <1>1, <3>1, LenProperties DEF Completed, Updated
    <3> QED BY <1>3, <1>7, <3>2 DEF HasRelease, Is
  <2>3. \A n \in DOMAIN toClient : toClient[n].type = "PUBCOMP" => toClient[n].pid # x.pid
    BY <1>1, <1>3, <1>7 DEF ReceivedOK, AnsweredAsQueued, AnswersPublish
  <2> QED BY <1>3, <2>1, <2>2, <2>3 DEF Follows
<1>9. /\ ReceivedOK(mq')
      /\ error' = "OK" => error = "OK" /\ (\A y : Open(Release(k), y) => Open(mq', y)) /\ Open(mq', x)
  BY <1>1, <1>2, <1>3, <1>4, <1>6, <1>8, PackReceived
<1>10. ASSUME error' = "OK", NEW y, Open(mq, y)
       PROVE  Open(mq', y)
  <2>1. CASE Open(Release(k), y)
    BY <1>9, <1>10, <2>1
  <2>2. CASE mq[k].packet.pid = y.pid /\ mq[k].packet.val = y.val
    <3>1. x.pid = y.pid /\ x.val = y.val /\ Open(mq', x)
      BY <1>3, <1>9, <1>10, <2>2
    <3> QED BY <3>1 DEF Open
  <2> QED BY <1>6, <1>10, <2>1, <2>2
<1> QED BY <1>9, <1>10 DEF ReceivedInv, AllOpen

\* A PUBACK or a PUBCOMP: the broker has the publish, and holds none that waits for it.
LEMMA FinalReceived ==
  ASSUME Inv, ReceivedInv, toClient # <<>>, NEW p, p = toClient[1], p.type \in {"PUBACK", "PUBCOMP"},
         1 \in DOMAIN toClient,
         NEW k \in DOMAIN mq, Is(mq[k], Origin[p.type], p.pid), mq' = Release(k)
  PROVE  ReceivedOK(mq') /\ (error = "OK" => AllOpen(mq'))
<1>1. QueueTyped(mq) /\ ReceivedOK(mq)
  BY DEF Inv, QueueOK, ReceivedInv
<1>2. CASE p.type = "PUBACK"
  <2>1. mq[k].packet.type = "PUBLISH" /\ mq[k].packet.pid = p.pid /\ Is(mq[k], "PUBLISH", p.pid)
    BY <1>2 DEF Is, Origin
  <2>2. mq[k].state # "UNSENT" /\ mq[k].packet.qos = 1 /\ Taken(mq[k].packet.val)
    BY <1>1, <1>2, <2>1 DEF ReceivedOK, AnsweredAsQueued, AnswersPublish
  <2>3. /\ ReceivedOK(mq')
        /\ \A y : Open(mq, y) => Open(mq', y) \/ mq[k].packet.pid = y.pid
    BY <1>1, <2>1, <2>2, ReleasedReceived
  <2>4. \A h \in held : h.pid # mq[k].packet.pid
    BY <1>1, <2>1, <2>2 DEF ReceivedInv, ReceivedOK, HeldAsQueued, HeldTyped, AtQos2, Is
  <2>5. \A n \in DOMAIN toBroker : AtQos2(toBroker[n]) => toBroker[n].pid # mq[k].packet.pid
    BY <1>1, <2>1, <2>2 DEF ReceivedOK, SentAsQueued, AtQos2, Is
  <2> QED BY <2>3, <2>4, <2>5 DEF ReceivedInv, AllOpen
<1>3. CASE p.type = "PUBCOMP"
  <2>1. mq[k].packet.type = "PUBREL" /\ mq[k].packet.pid = p.pid /\ Is(mq[k], "PUBREL", p.pid)
    BY <1>3 DEF Is, Origin
  <2>2. Taken(mq[k].packet.val)
    BY <1>1, <1>3, <2>1 DEF ReceivedOK, AnsweredAsQueued
  <2>3. /\ ReceivedOK(mq')
        /\ \A y : Open(mq, y) => Open(mq', y) \/ mq[k].packet.pid = y.pid
    BY <1>1, <2>1, <2>2, ReleasedReceived
  <2> QED BY <1>3, <2>1, <2>3 DEF ReceivedInv, AllOpen, NoneAfterRelease
<1> QED BY <1>2, <1>3

LEMMA AcknowledgeReceived ==
  ASSUME Inv, ReceivedInv, toClient # <<>>, NEW p \in Receivable, p = toClient[1], 1 \in DOMAIN toClient,
         p.type # "PUBLISH", Acknowledge(p)
  PROVE  ReceivedOK(mq') /\ (error' = "OK" => AllOpen(mq'))
<1>1. QueueTyped(mq) /\ mq \in Seq(Queued) /\ DOMAIN mq = 1..Len(mq) /\ error \in Errors
  BY QueueParts DEF Inv, QueueOK, QueueTyped, ClientTyped
<1>2. CASE UNCHANGED mq /\ (error' = error \/ error' = "ACK_OF_UNKNOWN")
  BY <1>2 DEF ReceivedInv
<1>3. ASSUME NEW k \in 1..Len(mq), ~Duplicate(p), k \in Find(Origin[p.type], p.pid),
             \/ p.type = "PUBREC" /\ TryPack(Release(k), Packet("PUBREL", 0, p.pid, mq[k].packet.val))
             \/ p.type = "PUBREL" /\ TryPack(Release(k), Simple("PUBCOMP", p.pid))
             \/ /\ p.type \notin {"PUBREC", "PUBREL"} /\ mq' = Release(k)
                /\ error' = error \/ error' \in {"CONNECTION_REFUSED", "SUBSCRIBE_FAILED"}
      PROVE  ReceivedOK(mq') /\ (error' = "OK" => AllOpen(mq'))
  <2>1. mq[k].packet.type = Origin[p.type] /\ (p.pid # None => mq[k].packet.pid = p.pid) /\ k \in DOMAIN mq
    BY <1>1, <1>3, Found
  <2>2. p.type \in {"PUBREC", "PUBREL", "PUBACK", "PUBCOMP"} => p.pid \in Pids /\ p.pid # None
    BY Constants DEF Receivable, Numbered, WithoutId
  <2>3. CASE p.type = "PUBREC"
    <3>1. Is(mq[k], "PUBLISH", p.pid)
      BY <2>1, <2>2, <2>3 DEF Is, Origin
    <3>2. TryPack(Release(k), Packet("PUBREL", 0, p.pid, mq[k].packet.val))
      BY <1>3, <2>3
    <3> QED BY <1>3, <2>1, <2>2, <2>3, <3>1, <3>2, PubrecReceived
  <2>4. ASSUME mq[k].packet.type \notin {"PUBLISH", "PUBREL"}
        PROVE  /\ ReceivedOK(Release(k)) /\ QueueTyped(Release(k))
               /\ \A y : Open(mq, y) => Open(Release(k), y)
    BY <1>1, <2>1, <2>4, ReleasedReceived DEF ReceivedInv
  <2>5. CASE p.type = "PUBREL"
    <3>1. mq[k].packet.type = "PUBREC"
      BY <2>1, <2>5 DEF Origin
    <3>2. PICK x : x = Simple("PUBCOMP", p.pid)
      OBVIOUS
    <3>3. x.type = "PUBCOMP" /\ x \in PacketsOf(Types) /\ Numbered(x)
      <4>1. 0 \in Nat
        OBVIOUS
      <4> QED BY <2>2, <2>5, <3>2, <4>1, AnswerPacket
    <3>4. /\ ReceivedOK(mq')
          /\ error' = "OK" => error = "OK" /\ \A y : Open(Release(k), y) => Open(mq', y)
      BY <1>1, <1>3, <2>4, <2>5, <3>1, <3>2, <3>3, IrrelevantReceived
    <3> QED BY <2>4, <3>1, <3>4 DEF ReceivedInv, AllOpen
  <2>6. CASE p.type \in {"PUBACK", "PUBCOMP"}
    <3>1. Is(mq[k], Origin[p.type], p.pid) /\ mq' = Release(k)
      BY <1>3, <2>1, <2>2, <2>6 DEF Is
    <3>2. ReceivedOK(mq') /\ (error = "OK" => AllOpen(mq'))
      BY <2>1, <2>6, <3>1, FinalReceived
    <3> QED BY <1>3, <2>6, <3>2
  <2>7. CASE p.type \in {"CONNACK", "SUBACK", "UNSUBACK", "PINGRESP"}
    <3>1. mq[k].packet.type \notin {"PUBLISH", "PUBREL"}
      BY <2>1, <2>7 DEF Origin
    <3>2. mq' = Release(k) /\ (error' = "OK" => error = "OK")
      BY <1>3, <2>7
    <3> QED BY <2>4, <3>1, <3>2 DEF ReceivedInv, AllOpen
  <2>8. p.type \in DOMAIN Origin
    BY DEF Receivable, PacketsOf
  <2> QED BY <2>3, <2>5, <2>6, <2>7, <2>8 DEF Origin
<1> QED BY <1>1, <1>2, <1>3, AcknowledgeParts

LEMMA ReceiveReceived ==
  ASSUME Inv, ReceivedInv, Receive, UNCHANGED <<reconnects, broker>>
  PROVE  ReceivedInv'
<1>1. /\ toClient # <<>> /\ toClient' = Tail(toClient) /\ toClient \in Seq(Receivable)
      /\ UNCHANGED <<held, got, toBroker>>
  BY DEF Receive, broker, Inv, WireTyped
<1>2. /\ 1 \in DOMAIN toClient /\ Head(toClient) = toClient[1]
      /\ \A n \in DOMAIN toClient' : n + 1 \in DOMAIN toClient /\ toClient'[n] = toClient[n + 1]
  BY <1>1, TailOf
<1>3. PICK p \in Receivable : p = Head(toClient)
  BY <1>1, FirstPacket
<1>4. IF p.type = "PUBLISH" THEN Deliver(p) ELSE Acknowledge(p)
  BY <1>3 DEF Receive
<1>5. ReceivedOK(mq') /\ (error' = "OK" => AllOpen(mq'))
  BY <1>1, <1>2, <1>3, <1>4, DeliverReceived, AcknowledgeReceived
<1> QED BY <1>1, <1>2, <1>5, ClientReceived

LEMMA ReconnectReceived ==
  ASSUME HeldTyped, Reconnect, CleanSession
  PROVE  ReceivedInv'
<1>1. /\ mq' = Append(<<>>, New(Simple("CONNECT", None))) /\ toBroker' = <<>> /\ toClient' = <<>>
      /\ held' = {} /\ got' = got
  BY ReconnectParts DEF CleanSession
<1>2. \A k \in DOMAIN mq' : mq'[k].packet.type = "CONNECT" /\ mq'[k].state = "UNSENT"
  <2>1. QueueOK(mq') /\ Len(mq') = 1 /\ mq'[1] = New(Simple("CONNECT", None))
    BY <1>1, FirstMessage
  <2>2. DOMAIN mq' = 1..1
    BY <2>1, QueueParts DEF QueueOK, QueueTyped
  <2> QED BY <2>1, <2>2 DEF New, Simple, Packet
<1>3. ReceivedOK(mq)'
  BY <1>1, <1>2 DEF ReceivedOK, SentAsQueued, AnsweredAsQueued, HeldAsQueued, ReleaseFollows, CompleteIsTaken,
                    OneSent, IsQos2
<1>4. HeldTyped' /\ AllOpen(mq)' /\ NoneAfterRelease'
  BY <1>1 DEF HeldTyped, AllOpen, NoneAfterRelease
<1> QED BY <1>3, <1>4 DEF ReceivedInv

LEMMA BreakReceived ==
  ASSUME Inv, ReceivedInv, Break, UNCHANGED <<client, broker>>
  PROVE  ReceivedInv'
<1>1. UNCHANGED <<mq, error, held, got>> /\ toBroker' = <<>>
  BY BreakParts DEF client, broker
<1>2. \A n \in DOMAIN toClient' : \E m \in DOMAIN toClient : toClient'[n] = toClient[m]
  <2>1. /\ toClient \in Seq(Receivable) /\ toClient' \in Seq(Receivable) /\ Len(toClient') \in 0..Len(toClient)
        /\ \A n \in 1..Len(toClient') : toClient'[n] = toClient[n]
    BY BreakParts DEF Inv, WireTyped
  <2>2. DOMAIN toClient = 1..Len(toClient) /\ DOMAIN toClient' = 1..Len(toClient') /\ Len(toClient) \in Nat
    BY <2>1, LenProperties
  <2>3. 1..Len(toClient') \subseteq 1..Len(toClient)
    BY <2>1, <2>2
  <2> QED BY <2>1, <2>2, <2>3
<1> QED BY <1>1, <1>2, ClientReceived DEF ReceivedInv

\* The broker reads or writes what is neither a publish of the client's nor an answer to one.
LEMMA OtherReceived ==
  ASSUME Inv, ReceivedInv, UNCHANGED <<mq, error, held, got>>,
         toBroker' = toBroker \/ (toBroker # <<>> /\ toBroker' = Tail(toBroker)),
         toClient' = toClient \/ \E x : x.type \notin Acks /\ toClient' = Append(toClient, x)
  PROVE  ReceivedInv'
<1>1. toBroker \in Seq(Sendable) /\ toClient \in Seq(Receivable)
  BY DEF Inv, WireTyped
<1>2. \A n \in DOMAIN toBroker' : \E m \in DOMAIN toBroker : toBroker'[n] = toBroker[m]
  <2>1. CASE toBroker # <<>> /\ toBroker' = Tail(toBroker)
    BY <1>1, <2>1, TailOf
  <2> QED BY <2>1
<1>3. \A n \in DOMAIN toClient' : toClient'[n].type \in Acks => \E m \in DOMAIN toClient : toClient'[n] = toClient[m]
  <2>1. ASSUME NEW x, x.type \notin Acks, toClient' = Append(toClient, x),
               NEW n \in DOMAIN toClient', toClient'[n].type \in Acks
        PROVE  \E m \in DOMAIN toClient : toClient'[n] = toClient[m]
    BY <1>1, <2>1, AppendedTo
  <2> QED BY <2>1
<1>4. ReceivedOK(mq') /\ (error' = "OK" => AllOpen(mq'))
  BY DEF ReceivedInv
<1>5. ReceivedOK(mq)' /\ HeldTyped' /\ (AllOpen(mq') => AllOpen(mq)')
  BY <1>2, <1>3, <1>4, LessUnderWay DEF ReceivedInv
<1>6. NoneAfterRelease'
  BY <1>3, NoneAfter DEF ReceivedInv, Acks
<1> QED BY <1>4, <1>5, <1>6 DEF ReceivedInv

\* The broker takes a publish over or holds it, and its answer joins the packets to the client.
LEMMA MoreReceived ==
  ASSUME Inv, ReceivedOK(mq), UNCHANGED mq, toBroker # <<>>, toBroker' = Tail(toBroker),
         \A v : Taken(v) => Taken(v)', \A y : Received(y) => Received(y)',
         \A h \in held', k \in DOMAIN mq : Is(mq[k], "PUBLISH", h.pid) => h = mq[k].packet /\ mq[k].state # "UNSENT",
         NEW x, toClient' = toClient \/ toClient' = Append(toClient, x),
         \A k \in DOMAIN mq :
           /\ Is(mq[k], "PUBLISH", x.pid) =>
                /\ x.type = "PUBACK" => mq[k].state # "UNSENT" /\ mq[k].packet.qos = 1 /\ Taken(mq[k].packet.val)'
                /\ x.type = "PUBREC" => mq[k].state # "UNSENT" /\ mq[k].packet.qos = 2 /\ Received(mq[k].packet)'
                /\ x.type = "PUBCOMP" => HasRelease(mq, x.pid)
           /\ (x.type = "PUBCOMP" /\ Is(mq[k], "PUBREL", x.pid)) => Taken(mq[k].packet.val)'
  PROVE  ReceivedOK(mq)'
<1>1. toBroker \in Seq(Sendable) /\ toClient \in Seq(Receivable)
  BY DEF Inv, WireTyped
<1>2. \A n \in DOMAIN toBroker' : \E m \in DOMAIN toBroker : toBroker'[n] = toBroker[m]
  BY <1>1, TailOf
<1>3. SentAsQueued(mq)'
  BY <1>2 DEF ReceivedOK, SentAsQueued, HasRelease
<1>4. AnsweredAsQueued(mq)'
  <2>1. SUFFICES ASSUME NEW n \in DOMAIN toClient', NEW k \in DOMAIN mq, NEW y, y = toClient'[n]
                 PROVE  /\ Is(mq[k], "PUBLISH", y.pid) =>
                             /\ y.type = "PUBACK" => /\ mq[k].state # "UNSENT" /\ mq[k].packet.qos = 1
                                                     /\ Taken(mq[k].packet.val)'
                             /\ y.type = "PUBREC" => /\ mq[k].state # "UNSENT" /\ mq[k].packet.qos = 2
                                                     /\ Received(mq[k].packet)'
                             /\ y.type = "PUBCOMP" => HasRelease(mq, y.pid)
                        /\ (y.type = "PUBCOMP" /\ Is(mq[k], "PUBREL", y.pid)) => Taken(mq[k].packet.val)'
    BY DEF AnsweredAsQueued, AnswersPublish, HasRelease, Is
  <2>2. CASE n \in DOMAIN toClient /\ y = toClient[n]
    BY <2>2 DEF ReceivedOK, AnsweredAsQueued, AnswersPublish
  <2>3. CASE y = x
    BY <2>3
  <2>4. (n \in DOMAIN toClient /\ y = toClient[n]) \/ y = x
    BY <1>1, <2>1, AppendedTo
  <2> QED BY <2>2, <2>3, <2>4
<1>5. HeldAsQueued(mq)' /\ OneSent(mq)'
  BY DEF ReceivedOK, HeldAsQueued, OneSent, Is
<1>6. ReleaseFollows(mq)'
  BY DEF ReceivedOK, ReleaseFollows
<1>7. CompleteIsTaken(mq)'
  BY DEF ReceivedOK, CompleteIsTaken
<1> QED BY <1>3, <1>4, <1>5, <1>6, <1>7 DEF ReceivedOK

\* A publish of the client's arrives.
LEMMA PublishReceived ==
  ASSUME Inv, ReceivedInv, UNCHANGED <<mq, error>>, toBroker # <<>>, toBroker' = Tail(toBroker),
         NEW p, p = toBroker[1], p.type = "PUBLISH", OnPublish(p)
  PROVE  ReceivedInv'
<1>1. /\ toBroker \in Seq(Sendable) /\ toClient \in Seq(Receivable) /\ 1 \in DOMAIN toBroker /\ p \in Sendable
      /\ \A n \in DOMAIN toBroker' : \E m \in DOMAIN toBroker : toBroker'[n] = toBroker[m]
  <2>1. toBroker \in Seq(Sendable) /\ toClient \in Seq(Receivable)
    BY DEF Inv, WireTyped
  <2>2. /\ 1 \in DOMAIN toBroker
        /\ \A n \in DOMAIN toBroker' : n + 1 \in DOMAIN toBroker /\ toBroker'[n] = toBroker[n + 1]
    BY <2>1, TailOf
  <2>3. p \in Sendable
    BY <2>1, <2>2, LenProperties, ElementOfSeq
  <2> QED BY <2>1, <2>2, <2>3
<1>2. /\ ReceivedOK(mq) /\ HeldTyped /\ NoneAfterRelease /\ (error = "OK" => AllOpen(mq))
      /\ got \in Seq(Sendable)
  BY DEF ReceivedInv, HeldTyped
<1>3. \A k \in DOMAIN mq : Is(mq[k], "PUBLISH", p.pid) => p = mq[k].packet /\ mq[k].state # "UNSENT"
  BY <1>1, <1>2 DEF ReceivedOK, SentAsQueued
<1>4. PICK x : /\ x.pid = p.pid
               /\ \/ p.qos = 0 /\ toClient' = toClient /\ got' = Append(got, p) /\ held' = held
                     /\ x.type = "none"
                  \/ p.qos = 1 /\ toClient' = Append(toClient, x) /\ got' = Append(got, p) /\ held' = held
                     /\ x.type = "PUBACK"
                  \/ /\ p.qos = 2 /\ toClient' = Append(toClient, x) /\ got' = got
                     /\ x.type = "PUBREC"
                     /\ held' = IF \E h \in held : h.pid = p.pid THEN held ELSE held \cup {p}
  <2>1. \A type : Simple(type, p.pid).pid = p.pid /\ Simple(type, p.pid).type = type
    BY DEF Simple, Packet
  <2>2. CASE p.qos = 0 /\ toClient' = toClient /\ got' = Append(got, p) /\ held' = held
    <3>1. PICK y : y = Simple("none", p.pid)
      OBVIOUS
    <3> QED BY <2>1, <2>2, <3>1
  <2>3. CASE p.qos = 1 /\ toClient' = Append(toClient, Simple("PUBACK", p.pid)) /\ got' = Append(got, p)
             /\ held' = held
    BY <2>1, <2>3
  <2>4. CASE /\ p.qos = 2 /\ toClient' = Append(toClient, Simple("PUBREC", p.pid)) /\ got' = got
             /\ held' = IF \E h \in held : h.pid = p.pid THEN held ELSE held \cup {p}
    BY <2>1, <2>4
  <2> QED BY <2>2, <2>3, <2>4 DEF OnPublish, Reply, Quiet
<1>5. /\ toClient' = toClient \/ toClient' = Append(toClient, x)
      /\ got' = got \/ (got' = Append(got, p) /\ p.qos # 2)
      /\ held' = held \/ (held' = held \cup {p} /\ AtQos2(p) /\ \A h \in held : h.pid # p.pid)
      /\ x.type \notin {"PUBCOMP"}
  BY <1>4 DEF AtQos2
<1>6. \A v : Taken(v) => Taken(v)'
  <2>1. \A j \in DOMAIN got : j \in DOMAIN got' /\ got'[j] = got[j]
    BY <1>2, <1>5, AppendedTo
  <2> QED BY <2>1 DEF Taken
<1>7. \A y : Received(y) => Received(y)'
  BY <1>5, <1>6 DEF Received
<1>8. \A h \in held', k \in DOMAIN mq : Is(mq[k], "PUBLISH", h.pid) => h = mq[k].packet /\ mq[k].state # "UNSENT"
  BY <1>2, <1>3, <1>5 DEF ReceivedOK, HeldAsQueued
<1>9. ASSUME NEW k \in DOMAIN mq
      PROVE  /\ Is(mq[k], "PUBLISH", x.pid) =>
                  /\ x.type = "PUBACK" => mq[k].state # "UNSENT" /\ mq[k].packet.qos = 1 /\ Taken(mq[k].packet.val)'
                  /\ x.type = "PUBREC" => mq[k].state # "UNSENT" /\ mq[k].packet.qos = 2 /\ Received(mq[k].packet)'
                  /\ x.type = "PUBCOMP" => HasRelease(mq, x.pid)
             /\ (x.type = "PUBCOMP" /\ Is(mq[k], "PUBREL", x.pid)) => Taken(mq[k].packet.val)'
  <2>1. SUFFICES ASSUME Is(mq[k], "PUBLISH", p.pid)
                 PROVE  /\ x.type = "PUBACK" => mq[k].state # "UNSENT" /\ mq[k].packet.qos = 1
                                                /\ Taken(mq[k].packet.val)'
                        /\ x.type = "PUBREC" => mq[k].state # "UNSENT" /\ mq[k].packet.qos = 2
                                                /\ Received(mq[k].packet)'
    BY <1>4, <1>5
  <2>2. p = mq[k].packet /\ mq[k].state # "UNSENT"
    BY <1>3, <2>1
  <2>3. CASE x.type = "PUBACK"
    <3>1. p.qos = 1 /\ got' = Append(got, p)
      BY <1>4, <2>3
    <3>2. Len(got) + 1 \in DOMAIN got' /\ got'[Len(got) + 1] = p
      BY <1>2, <3>1, AppendedTo
    <3>3. Taken(p.val)'
      BY <3>2 DEF Taken
    <3> QED BY <2>2, <2>3, <3>1, <3>3
  <2>4. CASE x.type = "PUBREC"
    <3>1. p.qos = 2 /\ held' = IF \E h \in held : h.pid = p.pid THEN held ELSE held \cup {p}
      BY <1>4, <2>4
    <3>2. \E h \in held' : h.pid = p.pid
      BY <3>1
    <3>3. \A h \in held' : h.pid = p.pid => h = p
      BY <1>8, <2>1, <2>2
    <3>4. Received(p)'
      BY <3>2, <3>3 DEF Received
    <3> QED BY <2>2, <2>4, <3>1, <3>4
  <2> QED BY <2>3, <2>4
<1>10. ReceivedOK(mq)'
  BY <1>2, <1>5, <1>6, <1>7, <1>8, <1>9, MoreReceived
<1>11. HeldTyped'
  <2>1. got' \in Seq(Sendable)
    BY <1>1, <1>2, <1>5, AppendProperties, SMTT(30)
  <2> QED BY <1>1, <1>2, <1>5, <2>1 DEF HeldTyped
<1>12. error' = "OK" => AllOpen(mq)'
  BY <1>1, <1>2, <1>5 DEF AllOpen, Open, AtQos2
<1>13. NoneAfterRelease'
  <2>1. \A h \in held' : h \in held \/ (AtQos2(h) /\ \E m \in DOMAIN toBroker : toBroker[m] = h)
    BY <1>1, <1>5
  <2>2. \A n \in DOMAIN toClient' : toClient'[n].type = "PUBCOMP" => \E m \in DOMAIN toClient : toClient'[n] = toClient[m]
    BY <1>1, <1>5, AppendedTo
  <2> QED BY <1>2, <2>1, <2>2, NoneAfter
<1> QED BY <1>10, <1>11, <1>12, <1>13 DEF ReceivedInv

\* A PUBREL of the client's arrives: what was held under its identifier is taken over.
LEMMA PubrelReceived ==
  ASSUME Inv, ReceivedInv, UNCHANGED <<mq, error>>, toBroker # <<>>, toBroker' = Tail(toBroker),
         NEW p, p = toBroker[1], p.type = "PUBREL", OnPubrel(p)
  PROVE  ReceivedInv'
<1>1. /\ toBroker \in Seq(Sendable) /\ toClient \in Seq(Receivable) /\ 1 \in DOMAIN toBroker
      /\ \A n \in DOMAIN toBroker' : /\ n + 1 \in DOMAIN toBroker /\ toBroker'[n] = toBroker[n + 1]
                                     /\ 1 < n + 1
  <2>1. toBroker \in Seq(Sendable) /\ toClient \in Seq(Receivable)
    BY DEF Inv, WireTyped
  <2> QED BY <2>1, TailOf
<1>2. /\ ReceivedOK(mq) /\ HeldTyped /\ NoneAfterRelease /\ (error = "OK" => AllOpen(mq))
      /\ got \in Seq(Sendable) /\ held \subseteq Sendable
  BY DEF ReceivedInv, HeldTyped
<1>3. PICK x : /\ x.type = "PUBCOMP" /\ x.pid = p.pid /\ toClient' = Append(toClient, x)
               /\ held' = {h \in held : h.pid # p.pid}
               /\ (held' = held /\ got' = got) \/ \E h \in held \ held' : got' = Append(got, h)
  <2>1. PICK y : y = Simple("PUBCOMP", p.pid)
    OBVIOUS
  <2>2. y.type = "PUBCOMP" /\ y.pid = p.pid
    BY <2>1 DEF Simple, Packet
  <2> QED BY <2>1, <2>2 DEF OnPubrel, Reply
<1>4. \A v : Taken(v) => Taken(v)'
  <2>1. \A j \in DOMAIN got : j \in DOMAIN got' /\ got'[j] = got[j]
    BY <1>2, <1>3, AppendedTo
  <2> QED BY <2>1 DEF Taken
<1>5. ASSUME NEW h \in held, h.pid = p.pid
      PROVE  Taken(h.val)'
  <2>1. h \notin held'
    BY <1>3, <1>5
  <2>2. PICK g \in held \ held' : got' = Append(got, g)
    BY <1>3, <2>1
  <2>3. g = h
    BY <1>2, <1>3, <1>5, <2>2 DEF HeldTyped
  <2>4. Len(got) + 1 \in DOMAIN got' /\ got'[Len(got) + 1] = h
    BY <1>2, <2>2, <2>3, AppendedTo
  <2> QED BY <2>4 DEF Taken
<1>6. \A y : Received(y) => Received(y)'
  <2>1. ASSUME NEW y, Received(y)
        PROVE  Received(y)'
    <3>1. CASE Taken(y.val)
      BY <1>4, <3>1 DEF Received
    <3>2. ASSUME NEW h \in held, h.pid = y.pid, h.val = y.val
          PROVE  Received(y)'
      BY <1>3, <1>5, <3>2 DEF Received
    <3> QED BY <2>1, <3>1, <3>2 DEF Received
  <2> QED BY <2>1
<1>7. ASSUME NEW k \in DOMAIN mq
      PROVE  /\ Is(mq[k], "PUBLISH", x.pid) => HasRelease(mq, x.pid)
             /\ Is(mq[k], "PUBREL", x.pid) => Taken(mq[k].packet.val)'
  <2>1. Is(mq[k], "PUBLISH", p.pid) => HasRelease(mq, p.pid)
    BY <1>1, <1>2 DEF ReceivedOK, SentAsQueued
  <2>2. ASSUME Is(mq[k], "PUBREL", p.pid)
        PROVE  Taken(mq[k].packet.val)'
    <3>1. Received(mq[k].packet) /\ mq[k].packet.pid = p.pid
      BY <1>2, <2>2 DEF ReceivedOK, ReleaseFollows, Is
    <3>2. CASE Taken(mq[k].packet.val)
      BY <1>4, <3>2
    <3>3. ASSUME NEW h \in held, h.pid = mq[k].packet.pid, h.val = mq[k].packet.val
          PROVE  Taken(mq[k].packet.val)'
      BY <1>5, <3>1, <3>3
    <3> QED BY <3>1, <3>2, <3>3 DEF Received
  <2> QED BY <1>3, <2>1, <2>2
<1>8. ReceivedOK(mq)'
  <2>1. \A h \in held', k \in DOMAIN mq : Is(mq[k], "PUBLISH", h.pid) => h = mq[k].packet /\ mq[k].state # "UNSENT"
    BY <1>2, <1>3 DEF ReceivedOK, HeldAsQueued
  <2> QED BY <1>2, <1>3, <1>4, <1>6, <1>7, <2>1, MoreReceived
<1>9. HeldTyped'
  <2>1. got' \in Seq(Sendable)
    BY <1>2, <1>3, AppendProperties, SMTT(30)
  <2> QED BY <1>2, <1>3, <2>1 DEF HeldTyped
<1>10. error' = "OK" => AllOpen(mq)'
  BY <1>1, <1>2, <1>3 DEF AllOpen, Open, AtQos2
<1>11. NoneAfterRelease'
  <2>1. /\ \A h \in held' : h.pid # x.pid
        /\ \A m \in DOMAIN toBroker' : AtQos2(toBroker'[m]) => toBroker'[m].pid # x.pid
    BY <1>1, <1>2, <1>3 DEF NoneAfterRelease
  <2>2. \A n \in DOMAIN toClient' : (\E m \in DOMAIN toClient : toClient'[n] = toClient[m]) \/ toClient'[n] = x
    BY <1>1, <1>3, AppendedTo
  <2>3. \A h \in held' : h \in held
    BY <1>3
  <2> QED BY <1>2, <2>1, <2>2, <2>3, NoneAfter
<1> QED BY <1>8, <1>9, <1>10, <1>11 DEF ReceivedInv

LEMMA BrokerReceived ==
  ASSUME Inv, ReceivedInv, BrokerReceives, UNCHANGED client
  PROVE  ReceivedInv'
<1>1. /\ UNCHANGED <<mq, error>> /\ toBroker # <<>> /\ toBroker' = Tail(toBroker)
  BY DEF client, BrokerReceives
<1>2. PICK p : p = Head(toBroker)
  OBVIOUS
<1>3. p = toBroker[1]
  BY <1>1, <1>2, TailOf DEF Inv, WireTyped
<1>4. CASE p.type = "PUBLISH" /\ OnPublish(p)
  BY <1>1, <1>3, <1>4, PublishReceived
<1>5. CASE p.type = "PUBREL" /\ OnPubrel(p)
  BY <1>1, <1>3, <1>5, PubrelReceived
<1>6. CASE UNCHANGED <<held, got>> /\ p.type \notin {"PUBLISH", "PUBREL"}
  <2>1. toClient' = toClient \/ \E x : x.type \notin Acks /\ toClient' = Append(toClient, x)
    <3>1. \/ toClient' = toClient
          \/ \E x \in Receivable : /\ toClient' = Append(toClient, x) /\ Origin[x.type] = p.type
      BY <1>2, BrokerReplies
    <3>2. \A type \in Acks : Origin[type] \in {"PUBLISH", "PUBREL"}
      BY DEF Acks, Origin
    <3> QED BY <1>6, <3>1, <3>2
  <2> QED BY <1>1, <1>6, <2>1, OtherReceived
<1>7. CASE UNCHANGED <<held, got, toClient>>
  BY <1>1, <1>7, OtherReceived
<1>8. OnRequest(p) => UNCHANGED <<held, got>> /\ p.type \in {"SUBSCRIBE", "UNSUBSCRIBE", "PINGREQ"}
  BY DEF OnRequest
<1>9. OnAnswer(p) => p.type \in {"PUBACK", "PUBCOMP", "PUBREC"}
  BY DEF OnAnswer
<1> QED BY <1>2, <1>4, <1>5, <1>6, <1>7, <1>8, <1>9, BrokerCases DEF Close, Quiet

LEMMA BrokerSendsReceived ==
  ASSUME Inv, ReceivedInv, BrokerResends \/ \E qos \in OutQos : BrokerPublishes(qos), UNCHANGED client
  PROVE  ReceivedInv'
<1>1. UNCHANGED <<mq, error, held, got, toBroker>>
  BY DEF client, BrokerResends, BrokerPublishes
<1>2. \E x : x.type \notin Acks /\ toClient' = Append(toClient, x)
  <2>1. CASE BrokerResends
    <3>1. PICK x \in pending : toClient' = Append(toClient, x)
      BY <2>1 DEF BrokerResends, Reply
    <3> QED BY <3>1 DEF Inv, BrokerTyped, Acks
  <2>2. ASSUME NEW qos \in OutQos, BrokerPublishes(qos)
        PROVE  \E x : x.type \notin Acks /\ toClient' = Append(toClient, x)
    <3>1. PICK x \in Receivable : x.type = "PUBLISH" /\ toClient' = Append(toClient, x)
      BY <2>2, BrokerPublishParts
    <3> QED BY <3>1 DEF Acks
  <2> QED BY <2>1, <2>2
<1> QED BY <1>1, <1>2, OtherReceived

LEMMA ReceivedSteps ==
  ASSUME Inv, Nothing, ReceivedInv, [Next]_vars, [DrawsFree]_vars
  PROVE  ReceivedInv'
<1>1. CASE UNCHANGED vars
  <2>1. UNCHANGED <<mq, error, held, got, toBroker, toClient>>
    BY <1>1 DEF vars, client, broker, wire
  <2> QED BY <2>1, ClientReceived DEF ReceivedInv
<1>2. ASSUME NEW c \in Calls, Call(c[1], c[2])
      PROVE  DrawsFree
  <2>1. calls \in Nat /\ calls' = calls + 1
    BY <1>2 DEF Inv, ClientTyped, Call, Called
  <2>2. calls' # calls
    BY <2>1
  <2> QED BY <2>2 DEF vars, client
<1> QED BY <1>1, <1>2, Steps, StillReceived, ReceiveReceived, SendReceived, CallReceived, UnsubscribeReceived,
           ReconnectReceived, BrokerReceived, BrokerSendsReceived, BreakReceived DEF ReceivedInv

LEMMA ReceivedInvariant ==
  Spec /\ [][DrawsFree]_vars => []ReceivedInv
<1>1. Init => Nothing /\ ReceivedInv
  <2>1. SUFFICES ASSUME Init PROVE Nothing /\ ReceivedInv
    OBVIOUS
  <2>2. /\ mq = <<>> /\ toBroker = <<>> /\ toClient = <<>> /\ held = {} /\ got = <<>> /\ Nothing
        /\ DOMAIN mq = {} /\ DOMAIN toBroker = {} /\ DOMAIN toClient = {}
    BY <2>1 DEF Init, ClientInit, BrokerInit, WireInit, Nothing
  <2>3. ReceivedOK(mq)
    BY <2>2 DEF ReceivedOK, SentAsQueued, AnsweredAsQueued, HeldAsQueued, ReleaseFollows, CompleteIsTaken, OneSent
  <2>4. HeldTyped /\ AllOpen(mq) /\ NoneAfterRelease
    BY <2>2 DEF HeldTyped, AllOpen, NoneAfterRelease
  <2> QED BY <2>2, <2>3, <2>4 DEF ReceivedInv
<1>2. Inv /\ Nothing /\ ReceivedInv /\ [Next]_vars /\ [DrawsFree]_vars => Nothing' /\ ReceivedInv'
  BY NothingSteps, ReceivedSteps
<1> QED BY <1>1, <1>2, Invariant, PTL DEF Spec

\* If no identifier is drawn that belongs to an exchange of which something is still under
\* way, what the client has completed is at the broker, through all repetitions, lost
\* answers, cleanings of the queue and new connections (mqtt.c __mqtt_recv, __mqtt_send).
\* Else a late answer completes a publish that was never sent.
THEOREM CompletedIsReceived ==
  Spec /\ [][DrawsFree]_vars => []CompleteIsReceived
<1>1. ReceivedInv => CompleteIsReceived
  <2>1. SUFFICES ASSUME ReceivedInv, NEW k \in DOMAIN mq, mq[k].state = "COMPLETE", NEW p, p = mq[k].packet
                 PROVE  /\ (p.type = "PUBLISH" /\ p.qos = 1) => \E j \in DOMAIN got : got[j].val = p.val
                        /\ IsQos2(mq[k]) => \/ \E j \in DOMAIN got : got[j].val = p.val
                                            \/ \E h \in held : h.val = p.val
                        /\ p.type = "PUBREL" => \E j \in DOMAIN got : got[j].val = p.val
    BY DEF CompleteIsReceived
  <2>2. /\ (p.type = "PUBLISH" /\ p.qos = 1) => Taken(p.val)
        /\ IsQos2(mq[k]) => Received(p)
        /\ p.type = "PUBREL" => Taken(p.val)
    BY <2>1 DEF ReceivedInv, ReceivedOK, CompleteIsTaken
  <2> QED BY <2>2 DEF Taken, Received
<1> QED BY <1>1, ReceivedInvariant, PTL

\* Under the same condition a client without error strands no QoS 2 publish at the broker:
\* the PUBLISH or the PUBREL that finishes it is in the queue and waits for an answer.
THEOREM HeldFinishes ==
  Spec /\ [][DrawsFree]_vars => []HeldIsFinished
<1>1. ReceivedInv => HeldIsFinished
  BY DEF ReceivedInv, AllOpen, Open, HeldIsFinished
<1> QED BY <1>1, ReceivedInvariant, PTL

\* And of the QoS 2 publishes in the client's queue only the oldest that is not complete has
\* been sent (mqtt.c:504-515), through timeouts, cleanings and reconnects.  The broker may
\* hold two all the same: a PUBREC completes the PUBLISH, and the next one may stand before
\* the PUBREL in the queue.
THEOREM OneQos2IsSent ==
  Spec /\ [][DrawsFree]_vars => []OneInflightQos2
<1>1. ReceivedInv => OneInflightQos2
  BY DEF ReceivedInv, ReceivedOK, OneSent, OneInflightQos2
<1> QED BY <1>1, ReceivedInvariant, PTL

-----------------------------------------------------------------------------
(* Answers find their requests: claims and the messages that wait for them. *)

LEMMA NoClaims ==
  ASSUME NEW q
  PROVE  Accounted({}, q)
<1>1. PICK f : f = [c \in {} |-> 0]
  OBVIOUS
<1>2. f \in [{} -> DOMAIN q] /\ Accounts(f, {}, q)
  BY <1>1 DEF Accounts
<1> QED BY <1>2 DEF Accounted

\* Claims stand for others of the same kind.
LEMMA ClaimsMoved ==
  ASSUME NEW C, NEW D, NEW q, Accounted(C, q), NEW g \in [D -> C],
         \A c \in D : g[c].type = c.type /\ g[c].pid = c.pid,
         \A c, d \in D : g[c] = g[d] => c = d
  PROVE  Accounted(D, q)
<1>1. PICK f \in [C -> DOMAIN q] : Accounts(f, C, q)
  BY DEF Accounted
<1>2. PICK h : h = [c \in D |-> f[g[c]]]
  OBVIOUS
<1>3. h \in [D -> DOMAIN q] /\ \A c \in D : h[c] = f[g[c]] /\ g[c] \in C
  BY <1>2
<1>4. Accounts(h, D, q)
  BY <1>1, <1>3 DEF Accounts
<1> QED BY <1>3, <1>4 DEF Accounted

LEMMA FewerClaims ==
  ASSUME NEW C, NEW D, D \subseteq C, NEW q, Accounted(C, q)
  PROVE  Accounted(D, q)
<1>1. PICK g : g = [c \in D |-> c]
  OBVIOUS
<1>2. g \in [D -> C] /\ \A c \in D : g[c] = c
  BY <1>1
<1> QED BY <1>2, ClaimsMoved

\* The messages that wait are those at h[k] now.
LEMMA MessagesMoved ==
  ASSUME NEW C, NEW q, NEW r, Accounted(C, q), NEW h,
         \A k \in DOMAIN q : q[k].state = "AWAITING_ACK" =>
           h[k] \in DOMAIN r /\ Waits(r[h[k]], q[k].packet.type, q[k].packet.pid),
         \A j, k \in DOMAIN q : (/\ q[j].state = "AWAITING_ACK" /\ q[k].state = "AWAITING_ACK" /\ h[j] = h[k])
                                => j = k
  PROVE  Accounted(C, r)
<1>1. PICK f \in [C -> DOMAIN q] : Accounts(f, C, q)
  BY DEF Accounted
<1>2. PICK e : e = [c \in C |-> h[f[c]]]
  OBVIOUS
<1>3. \A c \in C : /\ f[c] \in DOMAIN q /\ q[f[c]].state = "AWAITING_ACK" /\ e[c] = h[f[c]]
                   /\ q[f[c]].packet.type = c.type /\ q[f[c]].packet.pid = c.pid
  BY <1>1, <1>2 DEF Accounts, Waits
<1>4. e \in [C -> DOMAIN r]
  BY <1>2, <1>3
<1>5. Accounts(e, C, r)
  <2>1. \A c \in C : e[c] \in DOMAIN r /\ Waits(r[e[c]], c.type, c.pid)
    BY <1>3
  <2>2. \A c, d \in C : e[c] = e[d] => c = d
    BY <1>1, <1>3 DEF Accounts
  <2> QED BY <2>1, <2>2 DEF Accounts
<1> QED BY <1>4, <1>5 DEF Accounted

LEMMA PackKnown ==
  ASSUME NEW C, NEW q, QueueTyped(q), Accounted(C, q), error \in Errors, error # "ACK_OF_UNKNOWN",
         NEW p, New(p) \in Queued, TryPack(q, p)
  PROVE  Accounted(C, mq') /\ error' # "ACK_OF_UNKNOWN"
<1>1. PICK n \in 0..Len(q) :
        /\ Packed(q, p, n, mq')
        /\ \/ error = "OK" /\ error' = "OK" /\ Len(mq') = Len(q) - n + 1
           \/ error # "OK" /\ error' = error /\ mq' = q /\ n = 0
           \/ error = "OK" /\ error' = "SEND_BUFFER_IS_FULL" /\ Len(mq') = Len(q) - n
  BY Packing
<1>2. PICK r : r = mq'
  OBVIOUS
<1>3. /\ n \in Nat /\ Len(q) \in Nat /\ DOMAIN q = 1..Len(q)
      /\ \A k \in DOMAIN q : n < k => k - n \in DOMAIN r /\ r[k - n] = q[k]
      /\ \A k \in DOMAIN q : q[k].state # "COMPLETE" => n < k
  BY <1>1, <1>2, PackedIndices
<1>4. PICK h : h = [k \in DOMAIN q |-> k - n]
  OBVIOUS
<1>5. \A k \in DOMAIN q : h[k] = k - n
  BY <1>4
<1>6. \A k \in DOMAIN q : q[k].state = "AWAITING_ACK" =>
        h[k] \in DOMAIN r /\ Waits(r[h[k]], q[k].packet.type, q[k].packet.pid)
  BY <1>3, <1>5 DEF Waits
<1>7. \A j, k \in DOMAIN q : h[j] = h[k] => j = k
  BY <1>3, <1>5
<1>8. Accounted(C, r)
  BY <1>6, <1>7, MessagesMoved
<1> QED BY <1>1, <1>2, <1>8

\* An acknowledgement completes a message that waits for one of its kind, not always
\* the one that was counted for it.
LEMMA ReleaseKnown ==
  ASSUME Inv, NEW C, NEW c \in C, Accounted(C, mq), NEW k \in DOMAIN mq,
         mq[k].packet.type = c.type, mq[k].packet.pid = c.pid
  PROVE  Accounted(C \ {c}, Release(k))
<1>1. PICK f \in [C -> DOMAIN mq] : Accounts(f, C, mq)
  BY DEF Accounted
<1>2. PICK r : r = Release(k)
  OBVIOUS
<1>3. /\ DOMAIN r = DOMAIN mq
      /\ \A j \in DOMAIN mq : r[j].packet = mq[j].packet /\ (j # k => r[j].state = mq[j].state)
  <2>1. mq \in Seq(Queued) /\ Len(mq) \in Nat /\ DOMAIN mq = 1..Len(mq)
    BY QueueParts DEF Inv, QueueOK, QueueTyped
  <2>2. Completed(mq, r) /\ \A j \in 1..Len(mq) : j # k => r[j].state = mq[j].state
    BY <1>2, <2>1, Released
  <2>3. DOMAIN r = 1..Len(mq)
    BY <2>1, <2>2, LenProperties DEF Completed, Updated
  <2> QED BY <2>1, <2>2, <2>3 DEF Completed, Updated
<1>4. PICK e : e = [d \in C \ {c} |-> IF f[d] = k THEN f[c] ELSE f[d]]
  OBVIOUS
<1>5. \A d \in C \ {c} : e[d] = IF f[d] = k THEN f[c] ELSE f[d]
  BY <1>4
<1>6. \A d \in C : /\ f[d] \in DOMAIN mq /\ mq[f[d]].state = "AWAITING_ACK"
                   /\ mq[f[d]].packet.type = d.type /\ mq[f[d]].packet.pid = d.pid
                   /\ \A b \in C : f[d] = f[b] => d = b
  BY <1>1 DEF Accounts, Waits
<1>7. \A d \in C \ {c} : /\ e[d] \in DOMAIN mq /\ e[d] # k
                         /\ mq[e[d]].state = "AWAITING_ACK"
                         /\ mq[e[d]].packet.type = d.type /\ mq[e[d]].packet.pid = d.pid
  BY <1>5, <1>6
<1>8. \A d, b \in C \ {c} : e[d] = e[b] => d = b
  BY <1>5, <1>6
<1>9. e \in [C \ {c} -> DOMAIN r]
  BY <1>3, <1>4, <1>7
<1>10. Accounts(e, C \ {c}, r)
  BY <1>3, <1>7, <1>8 DEF Accounts, Waits
<1> QED BY <1>2, <1>9, <1>10 DEF Accounted

LEMMA ClaimFields ==
  ASSUME NEW side, NEW n, NEW type, NEW pid, NEW c, c = Claim(side, n, type, pid)
  PROVE  c.side = side /\ c.at = n /\ c.type = type /\ c.pid = pid
BY DEF Claim

LEMMA ClaimParts ==
  /\ \A n \in DOMAIN toClient : toClient[n].type # "PUBLISH" =>
       Claim("client", n, Origin[toClient[n].type], toClient[n].pid) \in Claims
  /\ \A n \in DOMAIN toBroker : Asks(toBroker[n]) =>
       Claim("broker", n, toBroker[n].type, toBroker[n].pid) \in Claims
  /\ \A c \in Claims :
       \/ /\ c.side = "client" /\ c.at \in DOMAIN toClient /\ toClient[c.at].type # "PUBLISH"
          /\ c.type = Origin[toClient[c.at].type] /\ c.pid = toClient[c.at].pid
          /\ c = Claim("client", c.at, c.type, c.pid)
       \/ /\ c.side = "broker" /\ c.at \in DOMAIN toBroker /\ Asks(toBroker[c.at])
          /\ c.type = toBroker[c.at].type /\ c.pid = toBroker[c.at].pid
          /\ c = Claim("broker", c.at, c.type, c.pid)
<1>1. \A n \in DOMAIN toClient : toClient[n].type # "PUBLISH" =>
        Claim("client", n, Origin[toClient[n].type], toClient[n].pid) \in Claims
  BY DEF Claims, Answering
<1>2. \A n \in DOMAIN toBroker : Asks(toBroker[n]) =>
        Claim("broker", n, toBroker[n].type, toBroker[n].pid) \in Claims
  BY DEF Claims, Asking
<1>3. ASSUME NEW c \in Answering
      PROVE  /\ c.side = "client" /\ c.at \in DOMAIN toClient /\ toClient[c.at].type # "PUBLISH"
             /\ c.type = Origin[toClient[c.at].type] /\ c.pid = toClient[c.at].pid
             /\ c = Claim("client", c.at, c.type, c.pid)
  <2>1. PICK n \in DOMAIN toClient : /\ toClient[n].type # "PUBLISH"
                                     /\ c = Claim("client", n, Origin[toClient[n].type], toClient[n].pid)
    BY <1>3 DEF Answering
  <2> QED BY <2>1, ClaimFields
<1>4. ASSUME NEW c \in Asking
      PROVE  /\ c.side = "broker" /\ c.at \in DOMAIN toBroker /\ Asks(toBroker[c.at])
             /\ c.type = toBroker[c.at].type /\ c.pid = toBroker[c.at].pid
             /\ c = Claim("broker", c.at, c.type, c.pid)
  <2>1. PICK n \in DOMAIN toBroker : /\ Asks(toBroker[n])
                                     /\ c = Claim("broker", n, toBroker[n].type, toBroker[n].pid)
    BY <1>4 DEF Asking
  <2> QED BY <2>1, ClaimFields
<1> QED BY <1>1, <1>2, <1>3, <1>4 DEF Claims

\* Nothing new is under way.
LEMMA NoMoreClaims ==
  ASSUME NEW q, Accounted(Claims, q),
         \A n \in DOMAIN toBroker' : Asks(toBroker'[n]) => n \in DOMAIN toBroker /\ toBroker'[n] = toBroker[n],
         \A n \in DOMAIN toClient' : toClient'[n].type # "PUBLISH" =>
                                       n \in DOMAIN toClient /\ toClient'[n] = toClient[n]
  PROVE  Accounted(Claims', q)
<1>1. Answering' \subseteq Answering
  BY DEF Answering
<1>2. Asking' \subseteq Asking
  BY DEF Asking
<1>3. Claims' \subseteq Claims
  BY <1>1, <1>2 DEF Claims
<1> QED BY <1>3, FewerClaims

\* The first packet to the client is read: the claims in D are left.
LEMMA ReadClaims ==
  ASSUME NEW q, NEW D, Accounted(D, q), toClient \in Seq(Receivable), toClient # <<>>,
         toClient' = Tail(toClient), UNCHANGED toBroker,
         \A c \in Claims : (c.side = "client" => c.at # 1) => c \in D
  PROVE  Accounted(Claims', q)
<1>1. \A n \in DOMAIN toClient' : /\ n \in Nat /\ n + 1 \in DOMAIN toClient /\ n + 1 # 1
                                  /\ toClient'[n] = toClient[n + 1]
  BY TailOf
<1>2. PICK g : g = [c \in Claims' |-> IF c.side = "client" THEN Claim("client", c.at + 1, c.type, c.pid) ELSE c]
  OBVIOUS
<1>3. /\ \A c \in Answering' : /\ c.side = "client" /\ c.at \in DOMAIN toClient'
                               /\ c = Claim("client", c.at, c.type, c.pid)
                               /\ toClient'[c.at].type # "PUBLISH"
                               /\ c.type = Origin[toClient'[c.at].type] /\ c.pid = toClient'[c.at].pid
      /\ \A c \in Asking' : c \in Asking /\ c.side = "broker"
  <2>1. ASSUME NEW c \in Answering'
        PROVE  /\ c.side = "client" /\ c.at \in DOMAIN toClient'
               /\ c = Claim("client", c.at, c.type, c.pid)
               /\ toClient'[c.at].type # "PUBLISH"
               /\ c.type = Origin[toClient'[c.at].type] /\ c.pid = toClient'[c.at].pid
    <3>1. PICK n \in DOMAIN toClient' : /\ toClient'[n].type # "PUBLISH"
                                        /\ c = Claim("client", n, Origin[toClient'[n].type], toClient'[n].pid)
      BY <2>1 DEF Answering
    <3>2. PICK t, p : t = Origin[toClient'[n].type] /\ p = toClient'[n].pid
      OBVIOUS
    <3>3. c.side = "client" /\ c.at = n /\ c.type = t /\ c.pid = p
      <4>1. c = Claim("client", n, t, p)
        BY <3>1, <3>2
      <4> QED BY <4>1, ClaimFields
    <3> QED BY <3>1, <3>2, <3>3
  <2>2. Asking' = Asking
    BY DEF Asking
  <2>3. \A c \in Asking : c.side = "broker"
    BY ClaimFields DEF Asking
  <2> QED BY <2>1, <2>2, <2>3
<1>4. ASSUME NEW c \in Claims'
      PROVE  /\ g[c] \in D /\ g[c].type = c.type /\ g[c].pid = c.pid /\ g[c].side = c.side
             /\ c.side = "client" => c = Claim("client", c.at, c.type, c.pid) /\ g[c].at = c.at + 1 /\ c.at \in Nat
             /\ c.side # "client" => g[c] = c
  <2>1. CASE c \in Answering'
    <3>1. PICK d : d = Claim("client", c.at + 1, c.type, c.pid)
      OBVIOUS
    <3>2. d.side = "client" /\ d.at = c.at + 1 /\ d.type = c.type /\ d.pid = c.pid /\ g[c] = d
      BY <1>2, <1>3, <1>4, <2>1, <3>1, ClaimFields
    <3>3. c.at \in Nat /\ c.at + 1 \in DOMAIN toClient /\ c.at + 1 # 1 /\ toClient'[c.at] = toClient[c.at + 1]
      BY <1>1, <1>3, <2>1
    <3>4. d \in Claims
      BY <1>3, <2>1, <3>1, <3>3, ClaimParts
    <3> QED BY <1>3, <2>1, <3>2, <3>3, <3>4
  <2>2. CASE c \in Asking'
    <3>1. c \in Claims /\ c.side = "broker"
      BY <1>3, <2>2 DEF Claims
    <3> QED BY <1>2, <1>4, <3>1
  <2> QED BY <2>1, <2>2 DEF Claims
<1>5. g \in [Claims' -> D]
  BY <1>2, <1>4
<1>6. ASSUME NEW c \in Claims', NEW d \in Claims', g[c] = g[d]
      PROVE  c = d
  <2>1. c.side = d.side /\ c.type = d.type /\ c.pid = d.pid
    BY <1>4, <1>6
  <2>2. CASE c.side = "client"
    <3>1. c.at + 1 = d.at + 1 /\ c.at \in Nat /\ d.at \in Nat
      BY <1>4, <1>6, <2>1, <2>2
    <3>2. c.at = d.at
      BY <3>1
    <3> QED BY <1>4, <2>1, <2>2, <3>2
  <2>3. CASE c.side # "client"
    BY <1>4, <1>6, <2>1, <2>3
  <2> QED BY <2>2, <2>3
<1>7. \A c \in Claims' : g[c].type = c.type /\ g[c].pid = c.pid
  BY <1>4
<1> QED BY <1>5, <1>6, <1>7, ClaimsMoved

\* The broker reads a packet and perhaps answers it.
LEMMA AnsweredClaims ==
  ASSUME NEW q, Accounted(Claims, q), toBroker \in Seq(Sendable), toBroker # <<>>, toBroker' = Tail(toBroker),
         toClient \in Seq(Receivable),
         \/ toClient' = toClient
         \/ \E x \in Receivable :
              /\ toClient' = Append(toClient, x) /\ x.type # "PUBLISH" /\ Asks(toBroker[1])
              /\ Origin[x.type] = toBroker[1].type /\ x.pid = toBroker[1].pid
  PROVE  Accounted(Claims', q)
<1>1. /\ 1 \in DOMAIN toBroker
      /\ \A n \in DOMAIN toBroker' : /\ n \in Nat /\ n + 1 \in DOMAIN toBroker /\ n + 1 # 1
                                     /\ toBroker'[n] = toBroker[n + 1]
  BY TailOf
<1>2. /\ Len(toClient) \in Nat /\ DOMAIN toClient = 1..Len(toClient) /\ Len(toClient) + 1 \notin DOMAIN toClient
      /\ \A n \in DOMAIN toClient' :
           \/ n \in DOMAIN toClient /\ toClient'[n] = toClient[n]
           \/ /\ n = Len(toClient) + 1 /\ Asks(toBroker[1])
              /\ Origin[toClient'[n].type] = toBroker[1].type /\ toClient'[n].pid = toBroker[1].pid
  <2>1. Len(toClient) \in Nat /\ DOMAIN toClient = 1..Len(toClient)
    BY LenProperties
  <2>2. Len(toClient) + 1 \notin 1..Len(toClient)
    BY <2>1
  <2>3. \A x : toClient' = Append(toClient, x) =>
          \A n \in DOMAIN toClient' : (n \in DOMAIN toClient /\ toClient'[n] = toClient[n])
                                      \/ (n = Len(toClient) + 1 /\ toClient'[n] = x)
    BY AppendedTo
  <2> QED BY <2>1, <2>2, <2>3
<1>3. ASSUME NEW c \in Claims'
      PROVE  \/ /\ c.side = "broker" /\ c.at \in DOMAIN toBroker' /\ c = Claim("broker", c.at, c.type, c.pid)
                /\ Claim("broker", c.at + 1, c.type, c.pid) \in Claims
             \/ /\ c.side = "client" /\ c.at = Len(toClient) + 1 /\ c = Claim("client", c.at, c.type, c.pid)
                /\ Claim("broker", 1, c.type, c.pid) \in Claims
             \/ c.side = "client" /\ c \in Claims
  <2>1. CASE c \in Asking'
    <3>1. PICK n \in DOMAIN toBroker' : /\ Asks(toBroker'[n])
                                        /\ c = Claim("broker", n, toBroker'[n].type, toBroker'[n].pid)
      BY <2>1 DEF Asking
    <3>2. c.side = "broker" /\ c.at = n /\ c.type = toBroker[n + 1].type /\ c.pid = toBroker[n + 1].pid
      BY <1>1, <3>1, ClaimFields
    <3> QED BY <1>1, <3>1, <3>2, ClaimParts
  <2>2. CASE c \in Answering'
    <3>1. PICK n \in DOMAIN toClient' : /\ toClient'[n].type # "PUBLISH"
                                        /\ c = Claim("client", n, Origin[toClient'[n].type], toClient'[n].pid)
      BY <2>2 DEF Answering
    <3>2. c.side = "client" /\ c.at = n /\ c.type = Origin[toClient'[n].type] /\ c.pid = toClient'[n].pid
      BY <3>1, ClaimFields
    <3>3. CASE n \in DOMAIN toClient /\ toClient'[n] = toClient[n]
      BY <3>1, <3>2, <3>3, ClaimParts
    <3>4. CASE /\ n = Len(toClient) + 1 /\ Asks(toBroker[1])
               /\ Origin[toClient'[n].type] = toBroker[1].type /\ toClient'[n].pid = toBroker[1].pid
      BY <1>1, <3>1, <3>2, <3>4, ClaimParts
    <3> QED BY <1>2, <3>3, <3>4
  <2> QED BY <2>1, <2>2 DEF Claims
<1>4. PICK g : g = [c \in Claims' |-> IF c.side = "broker" THEN Claim("broker", c.at + 1, c.type, c.pid)
                                      ELSE IF c.at = Len(toClient) + 1 THEN Claim("broker", 1, c.type, c.pid)
                                      ELSE c]
  OBVIOUS
<1>5. ASSUME NEW c \in Claims'
      PROVE  /\ g[c] \in Claims /\ g[c].type = c.type /\ g[c].pid = c.pid
             /\ \/ /\ c.side = "broker" /\ c = Claim("broker", c.at, c.type, c.pid) /\ c.at \in DOMAIN toBroker'
                   /\ g[c].side = "broker" /\ g[c].at = c.at + 1
                \/ /\ c.side = "client" /\ c.at = Len(toClient) + 1 /\ c = Claim("client", c.at, c.type, c.pid)
                   /\ g[c].side = "broker" /\ g[c].at = 1
                \/ c.side = "client" /\ g[c] = c
  <2>1. CASE /\ c.side = "broker" /\ c.at \in DOMAIN toBroker' /\ c = Claim("broker", c.at, c.type, c.pid)
             /\ Claim("broker", c.at + 1, c.type, c.pid) \in Claims
    <3>1. g[c] = Claim("broker", c.at + 1, c.type, c.pid)
      BY <1>4, <1>5, <2>1
    <3>2. g[c].side = "broker" /\ g[c].at = c.at + 1 /\ g[c].type = c.type /\ g[c].pid = c.pid
      BY <3>1, ClaimFields
    <3> QED BY <2>1, <3>1, <3>2
  <2>2. CASE /\ c.side = "client" /\ c.at = Len(toClient) + 1 /\ c = Claim("client", c.at, c.type, c.pid)
             /\ Claim("broker", 1, c.type, c.pid) \in Claims
    <3>1. g[c] = Claim("broker", 1, c.type, c.pid)
      BY <1>4, <1>5, <2>2
    <3>2. g[c].side = "broker" /\ g[c].at = 1 /\ g[c].type = c.type /\ g[c].pid = c.pid
      BY <3>1, ClaimFields
    <3> QED BY <2>2, <3>1, <3>2
  <2>3. CASE c.side = "client" /\ c \in Claims
    <3>1. c.at \in DOMAIN toClient
      BY <2>3, ClaimParts
    <3>2. g[c] = c
      BY <1>2, <1>4, <1>5, <2>3, <3>1
    <3> QED BY <2>3, <3>2
  <2> QED BY <1>3, <2>1, <2>2, <2>3
<1>6. g \in [Claims' -> Claims]
  BY <1>4, <1>5
<1>7. ASSUME NEW c \in Claims', NEW d \in Claims', g[c] = g[d]
      PROVE  c = d
  <2>1. \A n \in DOMAIN toBroker' : n \in Nat /\ n + 1 # 1
    BY <1>1
  <2>2. c.type = d.type /\ c.pid = d.pid
    BY <1>5, <1>7
  <2>3. CASE c.side = "broker" /\ d.side = "broker"
    <3>1. c.at + 1 = d.at + 1 /\ c.at \in Nat /\ d.at \in Nat
      BY <1>5, <1>7, <2>1, <2>3
    <3>2. c.at = d.at
      BY <3>1
    <3> QED BY <1>5, <2>2, <2>3, <3>2
  <2>4. CASE c.side = "client" /\ d.side = "client"
    BY <1>5, <1>7, <2>2, <2>4
  <2>5. CASE c.side # d.side
    BY <1>5, <1>7, <2>1, <2>5
  <2> QED BY <1>5, <2>3, <2>4, <2>5
<1>8. \A c \in Claims' : g[c].type = c.type /\ g[c].pid = c.pid
  BY <1>5
<1> QED BY <1>6, <1>7, <1>8, ClaimsMoved

\* A message that did not wait is sent, and waits for the new claim.
LEMMA ClaimAdded ==
  ASSUME NEW C, NEW q, Accounted(C, q), NEW k \in DOMAIN q, q[k].state # "AWAITING_ACK",
         NEW r, DOMAIN r = DOMAIN q, \A j \in DOMAIN q : j # k => r[j] = q[j],
         NEW c, Waits(r[k], c.type, c.pid), NEW D, D \subseteq C \cup {c}
  PROVE  Accounted(D, r)
<1>1. PICK f \in [C -> DOMAIN q] : Accounts(f, C, q)
  BY DEF Accounted
<1>2. PICK e : e = [d \in D |-> IF d = c THEN k ELSE f[d]]
  OBVIOUS
<1>3. \A d \in C : f[d] \in DOMAIN q /\ f[d] # k /\ Waits(r[f[d]], d.type, d.pid)
  BY <1>1 DEF Accounts, Waits
<1>4. /\ \A d \in D : e[d] = IF d = c THEN k ELSE f[d]
      /\ \A d \in D : d = c \/ d \in C
  BY <1>2
<1>5. \A d \in D : e[d] \in DOMAIN r /\ Waits(r[e[d]], d.type, d.pid)
  BY <1>3, <1>4
<1>6. \A d, b \in D : e[d] = e[b] => d = b
  BY <1>1, <1>3, <1>4 DEF Accounts
<1>7. e \in [D -> DOMAIN r]
  BY <1>2, <1>5
<1> QED BY <1>5, <1>6, <1>7 DEF Accounts, Accounted

-----------------------------------------------------------------------------
(* Answers find their requests: the steps.                                 *)

LEMMA NothingNewKnown ==
  ASSUME Inv, Accounted(Claims, mq'), error' # "ACK_OF_UNKNOWN", resends = 0, UNCHANGED resends,
         toBroker' \in {toBroker, <<>>, Append(toBroker, Garbled)},
         \A n \in DOMAIN toClient' : n \in DOMAIN toClient /\ toClient'[n] = toClient[n]
  PROVE  KnownInv'
<1>1. \A n \in DOMAIN toBroker' : Asks(toBroker'[n]) => n \in DOMAIN toBroker /\ toBroker'[n] = toBroker[n]
  <2>1. CASE toBroker' = Append(toBroker, Garbled)
    <3>1. \A n \in DOMAIN toBroker' : (n \in DOMAIN toBroker /\ toBroker'[n] = toBroker[n]) \/ toBroker'[n] = Garbled
      BY <2>1, AppendedTo DEF Inv, WireTyped
    <3>2. ~Asks(Garbled)
      BY GarbledTyped DEF Asks
    <3> QED BY <3>1, <3>2
  <2> QED BY <2>1
<1>2. PICK q : q = mq'
  OBVIOUS
<1>3. Accounted(Claims', q)
  BY <1>1, <1>2, NoMoreClaims
<1> QED BY <1>2, <1>3 DEF KnownInv

\* The application's calls put at most one packet in the queue.
LEMMA CallPacks ==
  ASSUME Inv, NEW c \in Calls, Call(c[1], c[2])
  PROVE  \E p \in PacketsOf(Types) : Numbered(p) /\ p.type # "PUBREC" /\ TryPack(mq, p)
<1>1. c[1] \in {"PUBLISH", "SUBSCRIBE", "PINGREQ", "DISCONNECT"} /\ c[2] \in 0..2
  BY ClientAssumption
<1>2. calls' \in Nat
  BY DEF Inv, ClientTyped, Call, Called
<1>3. CASE Draws(c[1]) /\ lfsr' \in NextPid(lfsr) /\ TryPack(mq, Packet(c[1], c[2], lfsr', calls'))
  <2>1. PICK p : p = Packet(c[1], c[2], lfsr', calls')
    OBVIOUS
  <2>2. lfsr' \in Pids
    BY <1>3, DrawnIsFree DEF Inv, QueueOK
  <2>3. p.type = c[1] /\ p.pid = lfsr' /\ c[1] \in {"PUBLISH", "SUBSCRIBE"}
    BY <1>3, <2>1 DEF Packet, Draws
  <2>4. p \in PacketsOf(Types) /\ Numbered(p)
    BY <1>1, <1>2, <2>1, <2>2, <2>3 DEF Packet, PacketsOf, Types, Numbered, WithoutId
  <2> QED BY <1>3, <2>1, <2>3, <2>4
<1>4. CASE ~Draws(c[1]) /\ TryPack(mq, Simple(c[1], None))
  <2>1. PICK p : p = Simple(c[1], None)
    OBVIOUS
  <2>2. c[1] \in {"PINGREQ", "DISCONNECT"} /\ p.type = c[1]
    BY <1>1, <1>4, <2>1 DEF Draws, Simple, Packet
  <2>3. p \in PacketsOf(Types) /\ Numbered(p)
    BY <2>1, <2>2 DEF Simple, Packet, PacketsOf, Types, Numbered, WithoutId
  <2> QED BY <1>4, <2>1, <2>2, <2>3
<1> QED BY <1>3, <1>4 DEF Call

LEMMA UnsubscribePacks ==
  ASSUME Inv, NEW t \in Threads, UnsubscribeReads(t) \/ UnsubscribeWrites(t) \/ Unsubscribe(t)
  PROVE  \/ UNCHANGED <<mq, error>>
         \/ \E p \in PacketsOf(Types) : Numbered(p) /\ p.type # "PUBREC" /\ TryPack(mq, p)
<1>1. CASE UnsubscribeReads(t) \/ UnsubscribeWrites(t)
  BY <1>1 DEF UnsubscribeReads, UnsubscribeWrites
<1>2. CASE Unsubscribe(t)
  <2>1. PICK p : p = Simple("UNSUBSCRIBE", drawn[t][2])
    OBVIOUS
  <2>2. drawn[t][2] \in Pids
    <3>1. drawn[t] # Idle
      BY <1>2 DEF Unsubscribe, Idle
    <3> QED BY <3>1 DEF Inv, ClientTyped, DrawnTyped
  <2>3. p \in PacketsOf(Types) /\ Numbered(p) /\ p.type # "PUBREC"
    BY <2>1, <2>2 DEF Simple, Packet, PacketsOf, Types, Numbered, WithoutId
  <2> QED BY <1>2, <2>1, <2>3 DEF Unsubscribe
<1> QED BY <1>1, <1>2

LEMMA SendEndsPacks ==
  ASSUME SendEnds
  PROVE  \/ UNCHANGED <<mq, error>>
         \/ \E p \in PacketsOf(Types) : Numbered(p) /\ p.type # "PUBREC" /\ TryPack(mq, p)
<1>1. PICK p : p = Simple("PINGREQ", None)
  OBVIOUS
<1>2. p \in PacketsOf(Types) /\ Numbered(p) /\ p.type # "PUBREC"
  BY <1>1 DEF Simple, Packet, PacketsOf, Types, Numbered, WithoutId
<1> QED BY <1>1, <1>2 DEF SendEnds

LEMMA PackStepKnown ==
  ASSUME Inv, KnownInv, UNCHANGED <<toBroker, toClient, resends>>,
         \/ UNCHANGED <<mq, error>>
         \/ \E p \in PacketsOf(Types) : Numbered(p) /\ p.type # "PUBREC" /\ TryPack(mq, p)
  PROVE  KnownInv'
<1>1. QueueTyped(mq) /\ error \in Errors
  BY DEF Inv, QueueOK, ClientTyped
<1>2. Accounted(Claims, mq') /\ error' # "ACK_OF_UNKNOWN"
  <2>1. CASE UNCHANGED <<mq, error>>
    BY <2>1 DEF KnownInv
  <2>2. ASSUME NEW p \in PacketsOf(Types), Numbered(p), TryPack(mq, p)
        PROVE  Accounted(Claims, mq') /\ error' # "ACK_OF_UNKNOWN"
    <3>1. New(p) \in Queued
      BY <2>2, NewMessage
    <3> QED BY <1>1, <2>2, <3>1, PackKnown DEF KnownInv
  <2> QED BY <2>1, <2>2
<1> QED BY <1>2, NothingNewKnown DEF KnownInv

\* The queue has the same messages, and those that waited still do.
LEMMA SameKnown ==
  ASSUME NEW C, NEW q, Accounted(C, q), NEW r, DOMAIN r = DOMAIN q,
         \A k \in DOMAIN q : q[k].state = "AWAITING_ACK" => r[k].state = "AWAITING_ACK" /\ r[k].packet = q[k].packet
  PROVE  Accounted(C, r)
<1>1. PICK h : h = [k \in DOMAIN q |-> k]
  OBVIOUS
<1>2. \A k \in DOMAIN q : h[k] = k
  BY <1>1
<1>3. \A k \in DOMAIN q : q[k].state = "AWAITING_ACK" =>
        h[k] \in DOMAIN r /\ Waits(r[h[k]], q[k].packet.type, q[k].packet.pid)
  BY <1>2 DEF Waits
<1>4. \A j, k \in DOMAIN q : h[j] = h[k] => j = k
  BY <1>2
<1> QED BY <1>3, <1>4, MessagesMoved

LEMMA StillKnown ==
  ASSUME Inv, Nothing, KnownInv, UNCHANGED <<reconnects, broker>>,
         Connect \/ Sync \/ ReceiveEnds \/ SendStarts \/ SendEnds \/ Tick
  PROVE  KnownInv'
<1>1. UNCHANGED <<resends, toBroker, toClient>> /\ resends = 0
  BY DEF Connect, Sync, ReceiveEnds, SendStarts, SendEnds, Tick, wire, broker, KnownInv
<1>2. CASE Connect
  <2>1. toBroker = <<>> /\ toClient = <<>> /\ error' = "OK"
    BY <1>2 DEF Connect, Nothing
  <2>2. Claims = {}
    BY <2>1 DEF Claims, Answering, Asking
  <2>3. Accounted(Claims, mq')
    <3>1. PICK q : q = mq'
      OBVIOUS
    <3> QED BY <2>2, <3>1, NoClaims
  <2> QED BY <1>1, <2>1, <2>3, NothingNewKnown
<1>3. CASE Sync \/ ReceiveEnds \/ SendStarts
  <2>1. mq' = mq /\ (error' = error \/ error' = "SOCKET_ERROR")
    BY <1>3 DEF Sync, ReceiveEnds, SendStarts, Fail
  <2> QED BY <1>1, <2>1, NothingNewKnown DEF KnownInv
<1>4. CASE SendEnds
  BY <1>1, <1>4, SendEndsPacks, PackStepKnown
<1>5. CASE Tick
  <2>1. /\ QueueTyped(mq) /\ Updated(mq, mq') /\ error' = error
        /\ \A k \in 1..Len(mq) : mq'[k].state = mq[k].state
    BY <1>5, TickSteps DEF Inv, QueueOK, Completed, Tick
  <2>2. PICK r : r = mq'
    OBVIOUS
  <2>3. DOMAIN mq = 1..Len(mq) /\ DOMAIN r = 1..Len(mq)
    BY <2>1, <2>2, QueueParts DEF QueueTyped, Updated
  <2>4. \A k \in DOMAIN mq : r[k].state = mq[k].state /\ r[k].packet = mq[k].packet
    BY <2>1, <2>2, <2>3 DEF Updated
  <2>5. Accounted(Claims, r)
    BY <2>3, <2>4, SameKnown DEF KnownInv
  <2> QED BY <1>1, <2>1, <2>2, <2>5, NothingNewKnown DEF KnownInv
<1> QED BY <1>2, <1>3, <1>4, <1>5

LEMMA SendKnown ==
  ASSUME Inv, KnownInv, Send, SentOnce, UNCHANGED <<reconnects, broker>>
  PROVE  KnownInv'
<1>1. UNCHANGED <<resends, toClient>> /\ resends = 0 /\ Accounted(Claims, mq) /\ error # "ACK_OF_UNKNOWN"
  BY SendCases DEF wire, broker, KnownInv
<1>2. CASE /\ UNCHANGED mq /\ toBroker' \in {toBroker, Append(toBroker, Garbled)}
           /\ error' = error \/ error' = "SOCKET_ERROR"
  BY <1>1, <1>2, NothingNewKnown
<1>3. CASE /\ Due(mq[i]) /\ mq' = [mq EXCEPT ![i] = Sent(mq[i])] /\ UNCHANGED error
           /\ \/ toBroker' = toBroker \/ toBroker' = Append(toBroker, Garbled)
              \/ toBroker' = Append(toBroker, mq[i].packet)
  <2>1. mq[i].state = "UNSENT"
    BY <1>3 DEF SentOnce, Due
  <2>2. mq \in Seq(Queued) /\ DOMAIN mq = 1..Len(mq) /\ i \in DOMAIN mq /\ mq[i] \in Queued
    BY QueueParts, SendCases DEF Inv, QueueOK, QueueTyped
  <2>3. PICK r : r = mq'
    OBVIOUS
  <2>4. /\ Updated(mq, r) /\ r[i].state = AfterSend(mq[i].packet)
        /\ \A j \in 1..Len(mq) : j # i => r[j] = mq[j]
    BY <1>3, <2>2, <2>3, SentMessage
  <2>5. DOMAIN r = DOMAIN mq /\ r[i].packet = mq[i].packet
    BY <2>2, <2>4, LenProperties DEF Updated
  <2>6. Accounted(Claims, r)
    <3>1. \A k \in DOMAIN mq : mq[k].state = "AWAITING_ACK" =>
            r[k].state = "AWAITING_ACK" /\ r[k].packet = mq[k].packet
      BY <2>1, <2>2, <2>4
    <3> QED BY <1>1, <2>5, <3>1, SameKnown
  <2>7. CASE toBroker' \in {toBroker, Append(toBroker, Garbled)}
    BY <1>1, <1>3, <2>3, <2>6, <2>7, NothingNewKnown
  <2>8. CASE toBroker' = Append(toBroker, mq[i].packet)
    <3>1. PICK x : x = mq[i].packet
      OBVIOUS
    <3>2. \A n \in DOMAIN toBroker' : \/ n \in DOMAIN toBroker /\ toBroker'[n] = toBroker[n]
                                      \/ n = Len(toBroker) + 1 /\ toBroker'[n] = x
      BY <2>8, <3>1, AppendedTo DEF Inv, WireTyped
    <3>3. CASE ~Asks(x)
      <4>1. Accounted(Claims', r)
        BY <1>1, <2>6, <3>2, <3>3, NoMoreClaims
      <4> QED BY <1>1, <1>3, <2>3, <4>1 DEF KnownInv
    <3>4. CASE Asks(x)
      <4>1. PICK c : c = Claim("broker", Len(toBroker) + 1, x.type, x.pid)
        OBVIOUS
      <4>2. c.type = x.type /\ c.pid = x.pid
        BY <4>1, ClaimFields
      <4>3. Claims' \subseteq Claims \cup {c}
        <5>1. Answering' = Answering
          BY <1>1 DEF Answering
        <5>2. Asking' \subseteq Asking \cup {c}
          BY <3>2, <4>1 DEF Asking
        <5> QED BY <5>1, <5>2 DEF Claims
      <4>4. Waits(r[i], c.type, c.pid)
        BY <2>4, <2>5, <3>1, <3>4, <4>2 DEF Waits, Asks
      <4>5. mq[i].state # "AWAITING_ACK" /\ \A j \in DOMAIN mq : j # i => r[j] = mq[j]
        BY <2>1, <2>2, <2>4
      <4>6. PICK D : D = Claims'
        OBVIOUS
      <4>7. Accounted(D, r)
        BY <1>1, <2>2, <2>5, <4>3, <4>4, <4>5, <4>6, ClaimAdded
      <4> QED BY <1>1, <1>3, <2>3, <4>6, <4>7 DEF KnownInv
    <3> QED BY <3>3, <3>4
  <2> QED BY <1>3, <2>7, <2>8
<1> QED BY <1>2, <1>3, SendCases DEF wire

LEMMA AcknowledgeKnown ==
  ASSUME Inv, KnownInv, toClient # <<>>, NEW p \in Receivable, p = toClient[1], 1 \in DOMAIN toClient,
         p.type # "PUBLISH", Acknowledge(p), toClient' = Tail(toClient), UNCHANGED toBroker
  PROVE  Accounted(Claims', mq') /\ error' # "ACK_OF_UNKNOWN"
<1>1. /\ QueueTyped(mq) /\ mq \in Seq(Queued) /\ DOMAIN mq = 1..Len(mq) /\ error \in Errors
      /\ \A k \in DOMAIN mq : mq[k] \in Queued
      /\ error # "ACK_OF_UNKNOWN" /\ Accounted(Claims, mq) /\ toClient \in Seq(Receivable)
  BY QueueParts DEF Inv, QueueOK, QueueTyped, ClientTyped, KnownInv, WireTyped
<1>2. PICK c : c = Claim("client", 1, Origin[p.type], p.pid)
  OBVIOUS
<1>3. c \in Claims /\ c.side = "client" /\ c.at = 1 /\ c.type = Origin[p.type] /\ c.pid = p.pid
  BY <1>2, ClaimParts, ClaimFields
<1>4. Find(Origin[p.type], p.pid) # {}
  <2>1. PICK f \in [Claims -> DOMAIN mq] : Accounts(f, Claims, mq)
    BY <1>1 DEF Accounted
  <2>2. PICK k \in DOMAIN mq : k = f[c]
    BY <1>3, <2>1
  <2>3. mq[k].state = "AWAITING_ACK" /\ mq[k].packet.type = Origin[p.type] /\ mq[k].packet.pid = p.pid
    BY <1>3, <2>1, <2>2 DEF Accounts, Waits
  <2>4. k \in Find(Origin[p.type], p.pid)
    BY <2>3 DEF Find
  <2> QED BY <2>4
<1>5. PICK q : q = mq'
  OBVIOUS
<1>6. CASE UNCHANGED <<mq, error>>
  <2>1. Accounted(Claims', mq)
    BY <1>1, ReadClaims
  <2> QED BY <1>1, <1>6, <2>1
<1>7. ASSUME NEW k \in 1..Len(mq), k \in Find(Origin[p.type], p.pid),
             \/ p.type = "PUBREC" /\ TryPack(Release(k), Packet("PUBREL", 0, p.pid, mq[k].packet.val))
             \/ p.type = "PUBREL" /\ TryPack(Release(k), Simple("PUBCOMP", p.pid))
             \/ /\ p.type \notin {"PUBREC", "PUBREL"} /\ mq' = Release(k)
                /\ error' = error \/ error' \in {"CONNECTION_REFUSED", "SUBSCRIBE_FAILED"}
      PROVE  Accounted(Claims', mq') /\ error' # "ACK_OF_UNKNOWN"
  <2>1. mq[k].packet.type = Origin[p.type] /\ (p.pid # None => mq[k].packet.pid = p.pid) /\ k \in DOMAIN mq
    BY <1>1, <1>7, Found
  <2>2. mq[k].packet.pid = p.pid
    <3>1. CASE p.pid = None
      <4>1. p.type \in {"CONNACK", "PINGRESP"}
        <5>1. None \notin Pids /\ p.type \in DOMAIN Origin
          BY Constants DEF Receivable, PacketsOf
        <5> QED BY <3>1, <5>1 DEF Receivable, Numbered, WithoutId, Origin
      <4>2. mq[k].packet.type \in {"CONNECT", "PINGREQ"}
        BY <2>1, <4>1 DEF Origin
      <4>3. Numbered(mq[k].packet)
        BY <1>1, <2>1, MessageParts
      <4> QED BY <3>1, <4>2, <4>3 DEF Numbered, WithoutId
    <3> QED BY <2>1, <3>1
  <2>3. Accounted(Claims \ {c}, Release(k)) /\ QueueTyped(Release(k))
    <3>1. Accounted(Claims \ {c}, Release(k))
      BY <1>1, <1>3, <2>1, <2>2, ReleaseKnown
    <3>2. Completed(mq, Release(k))
      BY <1>1, <2>1, Released
    <3> QED BY <1>1, <3>1, <3>2 DEF Completed, Updated, QueueTyped
  <2>4. Accounted(Claims \ {c}, q) /\ error' # "ACK_OF_UNKNOWN"
    <3>1. ASSUME NEW x, New(x) \in Queued, TryPack(Release(k), x)
          PROVE  Accounted(Claims \ {c}, q) /\ error' # "ACK_OF_UNKNOWN"
      BY <1>1, <1>5, <2>3, <3>1, PackKnown
    <3>2. p.type \in {"PUBREC", "PUBREL"} => p.pid \in Pids
      BY DEF Receivable, Numbered, WithoutId
    <3>3. CASE p.type = "PUBREC"
      <4>1. PICK x : x = Packet("PUBREL", 0, p.pid, mq[k].packet.val)
        OBVIOUS
      <4>2. mq[k].packet.val \in Nat
        BY <1>1, <2>1, MessageParts DEF PacketsOf
      <4>3. x \in PacketsOf(Types) /\ Numbered(x)
        BY <3>2, <3>3, <4>1, <4>2, AnswerPacket
      <4>4. TryPack(Release(k), x)
        BY <1>7, <3>3, <4>1
      <4> QED BY <3>1, <4>3, <4>4, NewMessage
    <3>4. CASE p.type = "PUBREL"
      <4>1. PICK x : x = Simple("PUBCOMP", p.pid)
        OBVIOUS
      <4>2. 0 \in Nat
        OBVIOUS
      <4>3. x \in PacketsOf(Types) /\ Numbered(x)
        BY <3>2, <3>4, <4>1, <4>2, AnswerPacket
      <4>4. TryPack(Release(k), x)
        BY <1>7, <3>4, <4>1
      <4> QED BY <3>1, <4>3, <4>4, NewMessage
    <3>5. CASE p.type \notin {"PUBREC", "PUBREL"}
      BY <1>1, <1>5, <1>7, <2>3, <3>5
    <3> QED BY <3>3, <3>4, <3>5
  <2>5. \A d \in Claims : (d.side = "client" => d.at # 1) => d \in Claims \ {c}
    BY <1>3
  <2>6. Accounted(Claims', q)
    BY <1>1, <2>4, <2>5, ReadClaims
  <2> QED BY <1>5, <2>4, <2>6
<1> QED BY <1>1, <1>4, <1>6, <1>7, AcknowledgeParts

LEMMA ReceiveKnown ==
  ASSUME Inv, KnownInv, Receive, UNCHANGED <<reconnects, broker>>
  PROVE  KnownInv'
<1>1. /\ toClient # <<>> /\ toClient' = Tail(toClient) /\ toClient \in Seq(Receivable)
      /\ UNCHANGED <<resends, toBroker>>
  BY DEF Receive, broker, Inv, WireTyped
<1>2. 1 \in DOMAIN toClient /\ Head(toClient) = toClient[1]
  BY <1>1, TailOf
<1>3. PICK p \in Receivable : p = Head(toClient)
  BY <1>1, FirstPacket
<1>4. IF p.type = "PUBLISH" THEN Deliver(p) ELSE Acknowledge(p)
  BY <1>3 DEF Receive
<1>5. CASE p.type = "PUBLISH"
  <2>1. /\ QueueTyped(mq) /\ error \in Errors /\ error # "ACK_OF_UNKNOWN" /\ Accounted(Claims, mq)
    BY DEF Inv, QueueOK, ClientTyped, KnownInv
  <2>2. PICK q : q = mq'
    OBVIOUS
  <2>3. CASE UNCHANGED <<mq, error>>
    <3>1. Accounted(Claims', q)
      BY <1>1, <2>1, <2>2, <2>3, ReadClaims
    <3> QED BY <1>1, <2>1, <2>2, <2>3, <3>1 DEF KnownInv
  <2>4. CASE p.qos \in {1, 2} /\ TryPack(mq, Simple(IF p.qos = 1 THEN "PUBACK" ELSE "PUBREC", p.pid))
    <3>1. p.pid \in Pids /\ 0 \in Nat
      BY <1>5, <2>4 DEF Receivable, Numbered, WithoutId
    <3>2. PICK type \in {"PUBACK", "PUBREC"} : type = IF p.qos = 1 THEN "PUBACK" ELSE "PUBREC"
      OBVIOUS
    <3>3. PICK x : x = Simple(type, p.pid)
      OBVIOUS
    <3>4. x \in PacketsOf(Types) /\ Numbered(x)
      BY <3>1, <3>3, AnswerPacket
    <3>5. TryPack(mq, x) /\ New(x) \in Queued
      BY <2>4, <3>2, <3>3, <3>4, NewMessage
    <3>6. Accounted(Claims, q) /\ error' # "ACK_OF_UNKNOWN"
      BY <2>1, <2>2, <3>5, PackKnown
    <3>7. Accounted(Claims', q)
      BY <1>1, <3>6, ReadClaims
    <3> QED BY <1>1, <2>2, <3>6, <3>7 DEF KnownInv
  <2> QED BY <1>4, <1>5, <2>3, <2>4, DeliverParts
<1>6. CASE p.type # "PUBLISH"
  <2>1. Accounted(Claims', mq') /\ error' # "ACK_OF_UNKNOWN"
    BY <1>1, <1>2, <1>3, <1>4, <1>6, AcknowledgeKnown
  <2> QED BY <1>1, <2>1 DEF KnownInv
<1> QED BY <1>5, <1>6

LEMMA LostKnown ==
  ASSUME Inv, KnownInv, \/ Reconnect /\ CleanSession
                        \/ Break /\ UNCHANGED <<client, broker>>
  PROVE  KnownInv'
<1>1. CASE Reconnect /\ CleanSession
  <2>1. toBroker' = <<>> /\ toClient' = <<>> /\ error' = "OK" /\ resends' = resends
    BY <1>1, ReconnectParts DEF CleanSession
  <2>2. Claims' = {}
    BY <2>1 DEF Claims, Answering, Asking
  <2>3. PICK q : q = mq'
    OBVIOUS
  <2>4. Accounted(Claims', q)
    BY <2>2, NoClaims
  <2> QED BY <2>1, <2>3, <2>4 DEF KnownInv
<1>2. CASE Break /\ UNCHANGED <<client, broker>>
  <2>1. UNCHANGED <<mq, error, resends>> /\ toBroker' = <<>>
    BY <1>2, BreakParts DEF client, broker
  <2>2. \A n \in DOMAIN toClient' : n \in DOMAIN toClient /\ toClient'[n] = toClient[n]
    <3>1. /\ toClient \in Seq(Receivable) /\ toClient' \in Seq(Receivable) /\ Len(toClient') \in 0..Len(toClient)
          /\ \A n \in 1..Len(toClient') : toClient'[n] = toClient[n]
      BY <1>2, BreakParts DEF Inv, WireTyped
    <3>2. DOMAIN toClient = 1..Len(toClient) /\ DOMAIN toClient' = 1..Len(toClient') /\ Len(toClient) \in Nat
      BY <3>1, LenProperties
    <3>3. 1..Len(toClient') \subseteq 1..Len(toClient)
      BY <3>1, <3>2
    <3> QED BY <3>1, <3>2, <3>3
  <2> QED BY <2>1, <2>2, NothingNewKnown DEF KnownInv
<1> QED BY <1>1, <1>2

LEMMA BrokerKnown ==
  ASSUME Inv, KnownInv, BrokerReceives, UNCHANGED client
  PROVE  KnownInv'
<1>1. /\ UNCHANGED <<mq, error, resends>> /\ toBroker # <<>> /\ toBroker' = Tail(toBroker)
      /\ toBroker \in Seq(Sendable) /\ toClient \in Seq(Receivable)
  BY DEF client, BrokerReceives, Inv, WireTyped
<1>2. PICK p : p = Head(toBroker)
  OBVIOUS
<1>3. p = toBroker[1]
  BY <1>1, <1>2, TailOf
<1>4. ASSUME NEW x \in Receivable, toClient' = Append(toClient, x), x.type # "PUBLISH", Origin[x.type] = p.type
      PROVE  Asks(p)
  <2>1. p.type \in {"CONNECT", "PUBLISH", "PUBREC", "PUBREL", "SUBSCRIBE", "UNSUBSCRIBE", "PINGREQ"}
    <3>1. x.type \in DOMAIN Origin
      BY <1>4 DEF Receivable, PacketsOf
    <3> QED BY <1>4, <3>1 DEF Origin
  <2>2. p.type = "PUBLISH" => p.qos # 0
    <3>1. SUFFICES ASSUME p.type = "PUBLISH", p.qos = 0 PROVE FALSE
      OBVIOUS
    <3>2. toClient' = toClient
      <4>1. OnRequest(p) => p.type \in {"SUBSCRIBE", "UNSUBSCRIBE", "PINGREQ"}
        BY DEF OnRequest
      <4>2. OnAnswer(p) => p.type \in {"PUBACK", "PUBCOMP", "PUBREC"}
        BY DEF OnAnswer
      <4>3. Close \/ OnPublish(p)
        BY <1>2, <3>1, <4>1, <4>2, BrokerCases
      <4> QED BY <3>1, <4>3 DEF Close, Quiet, OnPublish
    <3>3. Len(Append(toClient, x)) = Len(toClient) + 1 /\ Len(toClient) \in Nat
      BY <1>1
    <3> QED BY <1>4, <3>2, <3>3
  <2> QED BY <2>1, <2>2 DEF Asks, AfterSend
<1>5. \/ toClient' = toClient
      \/ \E x \in Receivable :
           /\ toClient' = Append(toClient, x) /\ x.type # "PUBLISH" /\ Asks(p)
           /\ Origin[x.type] = p.type /\ x.pid = p.pid
  BY <1>2, <1>4, BrokerReplies
<1>6. Accounted(Claims', mq)
  BY <1>1, <1>3, <1>5, AnsweredClaims DEF KnownInv
<1> QED BY <1>1, <1>6 DEF KnownInv

LEMMA BrokerSendsKnown ==
  ASSUME Inv, KnownInv, MaxResends = 0, BrokerResends \/ \E qos \in OutQos : BrokerPublishes(qos), UNCHANGED client
  PROVE  KnownInv'
<1>1. PICK qos \in OutQos : BrokerPublishes(qos)
  BY DEF BrokerResends, KnownInv
<1>2. UNCHANGED <<mq, error, resends, toBroker>>
  BY <1>1 DEF client, BrokerPublishes
<1>3. PICK x \in Receivable : x.type = "PUBLISH" /\ toClient' = Append(toClient, x)
  BY <1>1, BrokerPublishParts
<1>4. \A n \in DOMAIN toClient' : toClient'[n].type # "PUBLISH" => n \in DOMAIN toClient /\ toClient'[n] = toClient[n]
  BY <1>3, AppendedTo DEF Inv, WireTyped
<1>5. Accounted(Claims', mq)
  BY <1>2, <1>4, NoMoreClaims DEF KnownInv
<1> QED BY <1>2, <1>5 DEF KnownInv

LEMMA KnownSteps ==
  ASSUME Inv, Nothing, KnownInv, MaxResends = 0, [Next]_vars, [SentOnce]_vars
  PROVE  KnownInv'
<1>1. CASE UNCHANGED vars
  <2>1. UNCHANGED <<mq, error, resends, toBroker, toClient>>
    BY <1>1 DEF vars, client, broker, wire
  <2> QED BY <2>1, PackStepKnown
<1>2. CASE Send /\ UNCHANGED <<reconnects, broker>>
  <2>1. CASE SentOnce
    BY <1>2, <2>1, SendKnown
  <2>2. CASE UNCHANGED vars
    BY <1>1, <2>2
  <2> QED BY <2>1, <2>2
<1>3. ASSUME NEW c \in Calls, Call(c[1], c[2]), UNCHANGED <<reconnects, broker>>
      PROVE  KnownInv'
  <2>1. UNCHANGED <<resends, toBroker, toClient>>
    BY <1>3 DEF Call, wire, broker
  <2> QED BY <1>3, <2>1, CallPacks, PackStepKnown
<1>4. ASSUME NEW t \in Threads, UnsubscribeReads(t) \/ UnsubscribeWrites(t) \/ Unsubscribe(t),
             UNCHANGED <<reconnects, broker>>
      PROVE  KnownInv'
  <2>1. UNCHANGED <<resends, toBroker, toClient>>
    BY <1>4 DEF UnsubscribeReads, UnsubscribeWrites, Unsubscribe, wire, broker
  <2> QED BY <1>4, <2>1, UnsubscribePacks, PackStepKnown
<1> QED BY <1>1, <1>2, <1>3, <1>4, Steps, StillKnown, ReceiveKnown, LostKnown, BrokerKnown, BrokerSendsKnown

\* A broker that answers each packet once and repeats none of its own is never taken for
\* one that answers what was not sent, as long as the client sends no packet a second time
\* because its answer is late (mqtt.c, MQTT_ERROR_ACK_OF_UNKNOWN in __mqtt_recv): not even
\* if two threads draw the same identifier, through full buffers and new connections.
THEOREM AnswersFindRequests ==
  ASSUME MaxResends = 0
  PROVE  Spec /\ [][SentOnce]_vars => []AnswersAreKnown
<1>1. Init => Nothing /\ KnownInv
  <2>1. SUFFICES ASSUME Init PROVE Nothing /\ KnownInv
    OBVIOUS
  <2>2. /\ toBroker = <<>> /\ toClient = <<>> /\ resends = 0 /\ Nothing /\ error # "ACK_OF_UNKNOWN"
    BY <2>1 DEF Init, ClientInit, BrokerInit, WireInit, Nothing
  <2>3. Claims = {}
    BY <2>2 DEF Claims, Answering, Asking
  <2> QED BY <2>2, <2>3, NoClaims DEF KnownInv
<1>2. Inv /\ Nothing /\ KnownInv /\ [Next]_vars /\ [SentOnce]_vars => Nothing' /\ KnownInv'
  BY NothingSteps, KnownSteps
<1>3. KnownInv => AnswersAreKnown
  BY DEF KnownInv, AnswersAreKnown
<1> QED BY <1>1, <1>2, <1>3, Invariant, PTL DEF Spec

-----------------------------------------------------------------------------
(* What the broker publishes is passed on: the steps.                      *)

\* A step of all but the broker's publishing keeps this.
LEMMA PassedKept ==
  ASSUME PassedInv, reconnects' = reconnects, pc' = "connect" => pc = "connect", published' = published,
         \A v : (GivenOn(v) => GivenOn(v)') /\ (Passed(v) => Passed(v)'),
         \A p \in Coming' : AtQos2(p) => p \in Coming,
         error' = "OK" =>
           /\ error = "OK" /\ (up' => up)
           /\ \A p \in Coming' : (AtQos2(p) /\ HasPubrec(p.pid)') => HasPubrec(p.pid) \/ Passed(p.val)'
           /\ up' => \A v : UnderWay(v) => UnderWay(v)' \/ GivenOn(v)'
  PROVE  PassedInv'
<1>1. CopiesAlike'
  BY DEF PassedInv, CopiesAlike
<1>2. error' = "OK" => DroppedArePassed'
  BY DEF PassedInv, DroppedArePassed
<1>3. ~reconnects' => PassedOn'
  <2>1. SUFFICES ASSUME ~reconnects, error' = "OK", up', NEW v \in 1..published' PROVE GivenOn(v)' \/ UnderWay(v)'
    BY DEF PassedOn, Arrives, GivenOn, UnderWay
  <2>2. GivenOn(v) \/ UnderWay(v)
    BY <2>1 DEF PassedInv, PassedOn, Arrives, GivenOn, UnderWay
  <2> QED BY <2>1, <2>2
<1> QED BY <1>1, <1>2, <1>3 DEF PassedInv

\* Packing adds at most its own packet to the PUBRECs of the queue.
LEMMA PubrecsPacked ==
  ASSUME Inv, NEW q, QueueTyped(q), DOMAIN q = DOMAIN mq, \A k \in DOMAIN mq : q[k].packet = mq[k].packet,
         NEW p, New(p) \in Queued, TryPack(q, p)
  PROVE  /\ \A pid : HasPubrec(pid)' => HasPubrec(pid) \/ (p.type = "PUBREC" /\ p.pid = pid)
         /\ error' = "OK" => error = "OK"
<1>1. error \in Errors
  BY DEF Inv, ClientTyped
<1>2. PICK n \in 0..Len(q) : /\ Packed(q, p, n, mq')
                             /\ error' = error \/ error' = "SEND_BUFFER_IS_FULL"
  BY <1>1, Packing
<1>3. \A j \in DOMAIN mq' : (j + n \in DOMAIN q /\ mq'[j] = q[j + n]) \/ mq'[j] = New(p)
  <2>1. PICK r : r = mq'
    OBVIOUS
  <2> QED BY <1>2, <2>1, PackedIndices
<1>4. New(p).packet = p
  BY DEF New
<1>5. ASSUME NEW pid, HasPubrec(pid)'
      PROVE  HasPubrec(pid) \/ (p.type = "PUBREC" /\ p.pid = pid)
  <2>1. PICK j \in DOMAIN mq' : Is(mq'[j], "PUBREC", pid)
    BY <1>5 DEF HasPubrec
  <2>2. CASE j + n \in DOMAIN q /\ mq'[j] = q[j + n]
    BY <2>1, <2>2 DEF HasPubrec, Is
  <2>3. CASE mq'[j] = New(p)
    BY <1>4, <2>1, <2>3 DEF Is
  <2> QED BY <1>3, <2>2, <2>3
<1> QED BY <1>2, <1>5

LEMMA SamePubrecs ==
  ASSUME DOMAIN mq' = DOMAIN mq, \A k \in DOMAIN mq : mq'[k].packet = mq[k].packet
  PROVE  \A pid : HasPubrec(pid)' => HasPubrec(pid)
BY DEF HasPubrec, Is

\* What the client does without receiving.
LEMMA OtherPassed ==
  ASSUME Inv, PassedInv, UNCHANGED <<toClient, up, delivered, reconnects, broker>>,
         pc' = "connect" => pc = "connect", error' = "OK" => error = "OK",
         \A pid : HasPubrec(pid)' => HasPubrec(pid)
  PROVE  PassedInv'
<1>1. pending' = pending /\ published' = published
  BY DEF broker
<1>2. Coming' = Coming
  BY <1>1 DEF Coming
<1>3. \A v : (GivenOn(v)' <=> GivenOn(v)) /\ (Passed(v)' <=> Passed(v)) /\ (UnderWay(v)' <=> UnderWay(v))
  BY DEF GivenOn, Passed, UnderWay
<1> QED BY <1>1, <1>2, <1>3, PassedKept

\* The client calls, sends or waits: it reads nothing and packs no PUBREC.
LEMMA QuietParts ==
  ASSUME Inv, UNCHANGED <<reconnects, broker>>,
         \/ Sync \/ ReceiveEnds \/ SendStarts \/ Send \/ SendEnds \/ Tick
         \/ \E c \in Calls : Call(c[1], c[2])
         \/ \E t \in Threads : UnsubscribeReads(t) \/ UnsubscribeWrites(t) \/ Unsubscribe(t)
  PROVE  /\ UNCHANGED <<toClient, up, delivered>> /\ (pc' = "connect" => pc = "connect")
         /\ error' = "OK" => error = "OK"
         /\ \A pid : HasPubrec(pid)' => HasPubrec(pid)
<1>1. QueueTyped(mq) /\ mq \in Seq(Queued) /\ DOMAIN mq = 1..Len(mq)
  BY QueueParts DEF Inv, QueueOK, QueueTyped
<1>2. ASSUME \/ UNCHANGED <<mq, error>>
             \/ \E p \in PacketsOf(Types) : Numbered(p) /\ p.type # "PUBREC" /\ TryPack(mq, p)
      PROVE  (error' = "OK" => error = "OK") /\ \A pid : HasPubrec(pid)' => HasPubrec(pid)
  <2>1. CASE UNCHANGED <<mq, error>>
    BY <2>1 DEF HasPubrec
  <2>2. ASSUME NEW p \in PacketsOf(Types), Numbered(p), p.type # "PUBREC", TryPack(mq, p)
        PROVE  (error' = "OK" => error = "OK") /\ \A pid : HasPubrec(pid)' => HasPubrec(pid)
    <3>1. New(p) \in Queued
      BY <2>2, NewMessage
    <3> QED BY <1>1, <2>2, <3>1, PubrecsPacked
  <2> QED BY <1>2, <2>1, <2>2
<1>3. CASE Sync \/ ReceiveEnds \/ SendStarts
  <2>1. /\ UNCHANGED <<mq, toClient, up, delivered>> /\ pc' # "connect"
        /\ error' = "OK" => error = "OK"
    BY <1>3 DEF Sync, ReceiveEnds, SendStarts, Fail, Return, wire
  <2> QED BY <2>1 DEF HasPubrec
<1>4. CASE Send
  <2>1. UNCHANGED <<toClient, up>> /\ pc' # "connect" /\ (error' = "OK" => error = "OK") /\ delivered' = delivered
    BY <1>4, SendCases DEF wire, Send
  <2>2. DOMAIN mq' = DOMAIN mq /\ \A k \in DOMAIN mq : mq'[k].packet = mq[k].packet
    <3>1. CASE mq' = [mq EXCEPT ![i] = Sent(mq[i])]
      <4>1. Updated(mq, mq')
        BY <1>1, <1>4, <3>1, SendCases, SentMessage
      <4> QED BY <1>1, <4>1, LenProperties DEF Updated
    <3> QED BY <1>4, <3>1, SendCases
  <2> QED BY <2>1, <2>2, SamePubrecs
<1>5. CASE Tick
  <2>1. UNCHANGED <<toClient, up, pc, error, delivered>>
    BY <1>5 DEF Tick, wire
  <2>2. DOMAIN mq' = DOMAIN mq /\ \A k \in DOMAIN mq : mq'[k].packet = mq[k].packet
    BY <1>1, <1>5, TickSteps, LenProperties DEF Completed, Updated
  <2> QED BY <2>1, <2>2, SamePubrecs
<1>6. CASE SendEnds
  <2>1. UNCHANGED <<toClient, up, delivered>> /\ pc' # "connect"
    BY <1>6 DEF SendEnds, Return, wire
  <2> QED BY <1>2, <1>6, <2>1, SendEndsPacks
<1>7. ASSUME NEW c \in Calls, Call(c[1], c[2])
      PROVE  /\ UNCHANGED <<toClient, up, delivered, pc>>
             /\ (error' = "OK" => error = "OK") /\ \A pid : HasPubrec(pid)' => HasPubrec(pid)
  <2>1. UNCHANGED <<toClient, up, delivered, pc>>
    BY <1>7 DEF Call, wire
  <2> QED BY <1>2, <1>7, <2>1, CallPacks
<1>8. ASSUME NEW t \in Threads, UnsubscribeReads(t) \/ UnsubscribeWrites(t) \/ Unsubscribe(t)
      PROVE  /\ UNCHANGED <<toClient, up, delivered, pc>>
             /\ (error' = "OK" => error = "OK") /\ \A pid : HasPubrec(pid)' => HasPubrec(pid)
  <2>1. UNCHANGED <<toClient, up, delivered, pc>>
    BY <1>8 DEF UnsubscribeReads, UnsubscribeWrites, Unsubscribe, wire
  <2> QED BY <1>2, <1>8, <2>1, UnsubscribePacks
<1> QED BY <1>3, <1>4, <1>5, <1>6, <1>7, <1>8

\* At the connection nothing is under way, nor in the queue.
LEMMA ConnectParts ==
  ASSUME Nothing, Connect, UNCHANGED <<reconnects, broker>>
  PROVE  /\ toClient' = <<>> /\ pending' = {} /\ Coming' = {} /\ pc = "connect" /\ pc' = "idle"
         /\ UNCHANGED <<published, toClient, pending, delivered, reconnects>>
<1>1. /\ toClient = <<>> /\ pending = {} /\ pc' = "idle" /\ pc = "connect"
      /\ UNCHANGED <<published, toClient, pending, delivered, reconnects>>
  BY DEF Connect, Nothing, wire, broker
<1> QED BY <1>1 DEF Coming

LEMMA QuietPassed ==
  ASSUME Inv, Nothing, PassedInv, UNCHANGED <<reconnects, broker>>,
         \/ Connect \/ Sync \/ ReceiveEnds \/ SendStarts \/ Send \/ SendEnds \/ Tick
         \/ \E c \in Calls : Call(c[1], c[2])
         \/ \E t \in Threads : UnsubscribeReads(t) \/ UnsubscribeWrites(t) \/ Unsubscribe(t)
  PROVE  PassedInv'
<1>1. CASE Connect
  <2>1. published' = 0 /\ Coming' = {} /\ pc' = "idle" /\ reconnects' = reconnects
    BY <1>1, ConnectParts DEF PassedInv
  <2>2. CopiesAlike' /\ DroppedArePassed' /\ PassedOn'
    BY <2>1 DEF CopiesAlike, DroppedArePassed, PassedOn
  <2> QED BY <2>1, <2>2 DEF PassedInv
<1> QED BY <1>1, QuietParts, OtherPassed

\* An acknowledgement packs no PUBREC.
LEMMA AcknowledgedPubrecs ==
  ASSUME Inv, NEW p \in Receivable, p.type # "PUBLISH", Acknowledge(p)
  PROVE  /\ delivered' = delivered /\ (pc' = "connect" => pc = "connect")
         /\ error' = "OK" => error = "OK"
         /\ \A pid : HasPubrec(pid)' => HasPubrec(pid)
<1>1. delivered' = delivered /\ (pc' = pc \/ pc' = "idle")
  BY AcknowledgeKeeps DEF Acknowledge
<1>2. QueueTyped(mq) /\ mq \in Seq(Queued) /\ DOMAIN mq = 1..Len(mq)
  BY QueueParts DEF Inv, QueueOK, QueueTyped
<1>3. ASSUME NEW k \in 1..Len(mq)
      PROVE  /\ Release(k) \in Seq(Queued) /\ DOMAIN Release(k) = DOMAIN mq /\ QueueTyped(Release(k))
             /\ \A j \in DOMAIN mq : Release(k)[j].packet = mq[j].packet
  <2>1. Completed(mq, Release(k))
    BY <1>2, Released
  <2> QED BY <1>2, <2>1, LenProperties DEF Completed, Updated, QueueTyped
<1>4. ASSUME NEW k \in 1..Len(mq), p.type \in {"PUBREC", "PUBREL"}, NEW r,
             r \in {Packet("PUBREL", 0, p.pid, mq[k].packet.val), Simple("PUBCOMP", p.pid)},
             TryPack(Release(k), r)
      PROVE  (error' = "OK" => error = "OK") /\ \A pid : HasPubrec(pid)' => HasPubrec(pid)
  <2>1. p.pid \in Pids
    BY <1>4 DEF Receivable, Numbered, WithoutId
  <2>2. mq[k].packet.val \in Nat
    <3>1. mq[k] \in Queued
      BY <1>2, QueueParts
    <3> QED BY <3>1, MessageParts DEF PacketsOf
  <2>3. r \in PacketsOf(Types) /\ Numbered(r) /\ r.type # "PUBREC"
    BY <1>4, <2>1, <2>2, AnswerPacket
  <2>4. New(r) \in Queued
    BY <2>3, NewMessage
  <2>5. PICK q : q = Release(k)
    OBVIOUS
  <2> QED BY <1>3, <1>4, <2>3, <2>4, <2>5, PubrecsPacked
<1>5. ASSUME NEW k \in 1..Len(mq), mq' = Release(k)
      PROVE  \A pid : HasPubrec(pid)' => HasPubrec(pid)
  BY <1>3, <1>5, SamePubrecs
<1>6. (mq' = mq) => \A pid : HasPubrec(pid)' => HasPubrec(pid)
  BY DEF HasPubrec
<1> QED BY <1>1, <1>2, <1>4, <1>5, <1>6, AcknowledgeParts

\* The answer to a publish is the only PUBREC that is packed for it.
LEMMA DeliveredPubrecs ==
  ASSUME Inv, NEW p \in Receivable, p.type = "PUBLISH", p.qos \in {1, 2},
         TryPack(mq, Simple(IF p.qos = 1 THEN "PUBACK" ELSE "PUBREC", p.pid))
  PROVE  /\ \A pid : HasPubrec(pid)' => HasPubrec(pid) \/ (p.qos = 2 /\ p.pid = pid)
         /\ error' = "OK" => error = "OK"
<1>1. QueueTyped(mq)
  BY DEF Inv, QueueOK
<1>2. PICK r : r = Simple(IF p.qos = 1 THEN "PUBACK" ELSE "PUBREC", p.pid)
  OBVIOUS
<1>3. p.pid \in Pids
  BY Constants DEF Receivable, Numbered, WithoutId
<1>4. r.pid = p.pid /\ r.type = IF p.qos = 1 THEN "PUBACK" ELSE "PUBREC"
  BY <1>2 DEF Simple, Packet
<1>5. r \in PacketsOf(Types) /\ Numbered(r)
  BY <1>2, <1>3, <1>4 DEF Simple, Packet, PacketsOf, Types, Numbered, WithoutId
<1> QED BY <1>1, <1>2, <1>4, <1>5, NewMessage, PubrecsPacked

\* The first packet is received: an answer passes nothing on, and a publish is passed on,
\* dropped as a duplicate of one that was, or lost with an error.
LEMMA ReceivePassed ==
  ASSUME Inv, OnceInv, PassedInv, Receive, UNCHANGED <<reconnects, broker>>
  PROVE  PassedInv'
<1>1. PICK p : p = Head(toClient)
  OBVIOUS
<1>2. /\ toClient # <<>> /\ toClient' = Tail(toClient) /\ UNCHANGED <<pending, published, reconnects, up>>
      /\ IF p.type = "PUBLISH" THEN Deliver(p) ELSE Acknowledge(p)
  BY <1>1 DEF Receive, broker
<1>3. /\ p \in Receivable /\ 1 \in DOMAIN toClient /\ p = toClient[1]
      /\ \A n \in DOMAIN toClient' : n + 1 \in DOMAIN toClient /\ toClient'[n] = toClient[n + 1]
  <2>1. toClient \in Seq(Receivable)
    BY DEF Inv, WireTyped
  <2> QED BY <1>1, <1>2, <2>1, TailOf, FirstPacket
<1>4. \A n \in DOMAIN toClient : n = 1 \/ (n - 1 \in DOMAIN toClient' /\ toClient'[n - 1] = toClient[n])
  <2>1. PICK len : len = Len(toClient)
    OBVIOUS
  <2>2. /\ len \in Nat /\ DOMAIN toClient = 1..len /\ DOMAIN toClient' = 1..(len - 1)
        /\ \A n \in 1..(len - 1) : toClient'[n] = toClient[n + 1]
    <3>1. toClient \in Seq(Receivable)
      BY DEF Inv, WireTyped
    <3> QED BY <1>2, <2>1, <3>1, FirstPacket, LenProperties
  <2>3. \A n \in 1..len : n = 1 \/ (n - 1 \in 1..(len - 1) /\ (n - 1) + 1 = n)
    BY <2>2
  <2> QED BY <2>2, <2>3
<1>5. Coming' \subseteq Coming /\ p \in Coming
  BY <1>2, <1>3 DEF Coming
<1>6. \A v : UnderWay(v) => UnderWay(v)' \/ (p.type = "PUBLISH" /\ p.val = v)
  BY <1>3, <1>4 DEF UnderWay
<1>7. /\ QueueTyped(mq) /\ mq \in Seq(Queued) /\ DOMAIN mq = 1..Len(mq) /\ pc = "recv"
      /\ delivered \in Seq(Receivable) /\ (error = "OK" => DroppedArePassed)
  BY QueueParts DEF Inv, QueueOK, QueueTyped, OnceInv, PassedInv, Receive
<1>8. ASSUME delivered' = Append(delivered, p)
      PROVE  /\ GivenOn(p.val)' /\ (p.qos = 2 => Passed(p.val)')
             /\ \A v : (GivenOn(v) => GivenOn(v)') /\ (Passed(v) => Passed(v)')
  <2>1. GivenOn(p.val)' /\ \A v : GivenOn(v) => GivenOn(v)'
    <3>1. /\ \A n \in DOMAIN delivered : n \in DOMAIN delivered' /\ delivered'[n] = delivered[n]
          /\ \E n \in DOMAIN delivered' : delivered'[n] = p
      BY <1>3, <1>7, <1>8, AppendedTo
    <3> QED BY <3>1 DEF GivenOn
  <2>2. \A v : Passed(v)' <=> Passed(v) \/ (p.qos = 2 /\ p.val = v)
    BY <1>3, <1>8, DeliveredMore
  <2> QED BY <2>1, <2>2
<1>9. delivered' = delivered => \A v : (GivenOn(v) => GivenOn(v)') /\ (Passed(v) => Passed(v)')
  BY DEF GivenOn, Passed
<1>10. (mq' = mq) => \A pid : HasPubrec(pid)' => HasPubrec(pid)
  BY DEF HasPubrec
<1>11. CASE p.type = "PUBLISH"
  <2>1. CASE p.qos = 0 /\ UNCHANGED <<mq, error, pc>> /\ delivered' = Append(delivered, p)
    BY <1>2, <1>5, <1>6, <1>7, <1>8, <1>10, <2>1, PassedKept
  <2>2. CASE p.qos = 2 /\ Find("PUBREC", p.pid) # {} /\ UNCHANGED <<mq, error, delivered, pc>>
    <3>1. p.pid # None
      BY <1>3, <1>11, <2>2, Constants DEF Receivable, Numbered, WithoutId
    <3>2. HasPubrec(p.pid)
      BY <2>2, <3>1 DEF Find, HasPubrec, Is
    <3>3. error' = "OK" => GivenOn(p.val)'
      <4>1. error = "OK" => Passed(p.val)
        BY <1>5, <1>7, <1>11, <2>2, <3>2 DEF DroppedArePassed, AtQos2
      <4>2. Passed(p.val) => GivenOn(p.val)
        BY DEF Passed, GivenOn
      <4> QED BY <1>9, <2>2, <4>1, <4>2
    <3> QED BY <1>2, <1>5, <1>6, <1>7, <1>9, <1>10, <2>2, <3>3, PassedKept
  <2>3. ASSUME p.qos \in {1, 2}, pc' = pc \/ pc' = "idle",
               TryPack(mq, Simple(IF p.qos = 1 THEN "PUBACK" ELSE "PUBREC", p.pid)),
               delivered' = IF error' = "OK" THEN Append(delivered, p) ELSE delivered
        PROVE  PassedInv'
    <3>1. /\ \A pid : HasPubrec(pid)' => HasPubrec(pid) \/ (p.qos = 2 /\ p.pid = pid)
          /\ error' = "OK" => error = "OK"
      BY <1>3, <1>11, <2>3, DeliveredPubrecs
    <3>2. /\ \A v : (GivenOn(v) => GivenOn(v)') /\ (Passed(v) => Passed(v)')
          /\ error' = "OK" => GivenOn(p.val)' /\ (p.qos = 2 => Passed(p.val)')
      BY <1>7, <1>8, <1>9, <2>3
    <3>3. \A y \in Coming' : (AtQos2(y) /\ p.qos = 2 /\ p.pid = y.pid) => y.val = p.val
      BY <1>5, <1>11 DEF PassedInv, CopiesAlike, AtQos2
    <3> QED BY <1>2, <1>5, <1>6, <1>7, <2>3, <3>1, <3>2, <3>3, PassedKept
  <2> QED BY <1>2, <1>3, <1>11, <2>1, <2>2, <2>3, DeliverParts
<1>12. CASE p.type # "PUBLISH"
  BY <1>2, <1>3, <1>5, <1>6, <1>9, <1>12, AcknowledgedPubrecs, PassedKept
<1> QED BY <1>11, <1>12

\* The broker answers or repeats what it has sent.
LEMMA AnsweredPassed ==
  ASSUME Inv, PassedInv, BrokerReceives \/ BrokerResends, UNCHANGED client
  PROVE  PassedInv'
<1>1. UNCHANGED <<mq, delivered, error, pc, reconnects, published>> /\ toClient \in Seq(Receivable) /\ (up' => up)
  BY DEF client, BrokerReceives, BrokerResends, Inv, WireTyped
<1>2. /\ \A v : (GivenOn(v)' <=> GivenOn(v)) /\ (Passed(v)' <=> Passed(v))
      /\ \A pid : HasPubrec(pid)' <=> HasPubrec(pid)
  BY <1>1 DEF GivenOn, Passed, HasPubrec
<1>3. SUFFICES /\ \A p \in Coming' : AtQos2(p) => p \in Coming
               /\ \A v : UnderWay(v) => UnderWay(v)'
  BY <1>1, <1>2, PassedKept
<1>4. CASE toClient' = toClient /\ pending' \subseteq pending
  BY <1>4 DEF Coming, UnderWay
<1>5. ASSUME NEW x, toClient' = Append(toClient, x), x \in pending \/ ~AtQos2(x),
             \A y \in pending' : y \in pending \/ y = x
      PROVE  /\ \A p \in Coming' : AtQos2(p) => p \in Coming
             /\ \A v : UnderWay(v) => UnderWay(v)'
  BY <1>1, <1>5, AppendedTo DEF Coming, UnderWay
<1>6. CASE BrokerResends
  BY <1>5, <1>6 DEF BrokerResends, Reply
<1>7. CASE BrokerReceives
  <2>1. PICK p : p = Head(toBroker)
    OBVIOUS
  <2>2. CASE toClient' = toClient
    <3>1. \A x : toClient' # Append(toClient, x)
      <4>1. \A x : Len(Append(toClient, x)) # Len(toClient)
        BY <1>1
      <4> QED BY <2>2, <4>1
    <3> QED BY <1>4, <1>7, <2>2, <3>1, BrokerPending
  <2>3. ASSUME NEW x \in Receivable, toClient' = Append(toClient, x), x.type # "PUBLISH",
               \/ pending' = NotPending(p.pid, {"PUBLISH", "PUBREL"}) \cup {x}
               \/ pending' = pending
        PROVE  /\ \A y \in Coming' : AtQos2(y) => y \in Coming
               /\ \A v : UnderWay(v) => UnderWay(v)'
    BY <1>5, <2>3 DEF NotPending, AtQos2
  <2> QED BY <1>7, <2>1, <2>2, <2>3, BrokerReplies
<1> QED BY <1>6, <1>7

\* It publishes.
LEMMA PublishedPassed ==
  ASSUME Inv, Nothing, PassedInv, NEW qos \in OutQos, BrokerPublishes(qos), BrokerDrawsFree, UNCHANGED client
  PROVE  PassedInv'
<1>1. /\ UNCHANGED <<mq, delivered, error, pc, reconnects, up>> /\ toClient \in Seq(Receivable)
      /\ published \in Nat /\ pc # "connect"
  BY DEF client, BrokerPublishes, Inv, WireTyped, BrokerTyped, Nothing
<1>2. PICK x \in Receivable :
        /\ x.type = "PUBLISH" /\ x.qos = qos /\ x.val = published + 1 /\ published' = published + 1
        /\ toClient' = Append(toClient, x)
        /\ IF qos = 0 THEN pending' = pending ELSE pending' = pending \cup {x} /\ x.pid \in Pids
        /\ \A y \in pending : y.pid # x.pid
  BY BrokerPublishParts
<1>3. /\ \A n \in DOMAIN toClient' : (n \in DOMAIN toClient /\ toClient'[n] = toClient[n]) \/ toClient'[n] = x
      /\ \A n \in DOMAIN toClient : n \in DOMAIN toClient' /\ toClient'[n] = toClient[n]
      /\ \E n \in DOMAIN toClient' : toClient'[n] = x
  BY <1>1, <1>2, AppendedTo
<1>4. AtQos2(x) => /\ ~HasPubrec(x.pid)
                   /\ \A y \in Coming : AtQos2(y) => y.pid # x.pid
  <2>1. SUFFICES ASSUME AtQos2(x) PROVE /\ ~HasPubrec(x.pid)
                                        /\ \A y \in Coming : AtQos2(y) => y.pid # x.pid
    OBVIOUS
  <2>2. qos = 2 /\ x \in pending' \ pending
    BY <1>2, <2>1 DEF AtQos2
  <2>3. ~HasPubrec(x.pid) /\ \A n \in DOMAIN toClient : AtQos2(toClient[n]) => toClient[n].pid # x.pid
    BY <2>2 DEF BrokerDrawsFree
  <2> QED BY <1>2, <2>3 DEF Coming
<1>5. \A y \in Coming' : y \in Coming \/ y = x
  BY <1>2, <1>3 DEF Coming
<1>6. CopiesAlike'
  BY <1>4, <1>5 DEF PassedInv, CopiesAlike
<1>7. /\ \A v : (GivenOn(v)' <=> GivenOn(v)) /\ (Passed(v)' <=> Passed(v))
      /\ \A pid : HasPubrec(pid)' <=> HasPubrec(pid)
  BY <1>1 DEF GivenOn, Passed, HasPubrec
<1>8. error' = "OK" => DroppedArePassed'
  BY <1>1, <1>4, <1>5, <1>7 DEF PassedInv, DroppedArePassed
<1>9. ~reconnects' => PassedOn'
  <2>1. SUFFICES ASSUME ~reconnects, error' = "OK", up', NEW v \in 1..published' PROVE GivenOn(v)' \/ UnderWay(v)'
    BY <1>1 DEF PassedOn, Arrives, GivenOn, UnderWay
  <2>2. CASE v = published + 1
    BY <1>2, <1>3, <2>2 DEF UnderWay
  <2>3. CASE v \in 1..published
    <3>1. GivenOn(v) \/ UnderWay(v)
      BY <1>1, <2>1, <2>3 DEF PassedInv, PassedOn, Arrives, GivenOn, UnderWay
    <3>2. UnderWay(v) => UnderWay(v)'
      BY <1>3 DEF UnderWay
    <3> QED BY <1>7, <3>1, <3>2
  <2>4. v = published + 1 \/ v \in 1..published
    BY <1>1, <1>2
  <2> QED BY <2>2, <2>3, <2>4
<1> QED BY <1>1, <1>6, <1>8, <1>9 DEF PassedInv

LEMMA PassedSteps ==
  ASSUME Inv, Nothing, OnceInv, PassedInv, [Next]_vars, [BrokerDrawsFree]_vars
  PROVE  PassedInv'
<1>1. CASE UNCHANGED vars
  <2>1. UNCHANGED <<mq, toClient, up, delivered, reconnects, broker, pc, error>>
    BY <1>1 DEF vars, client, wire
  <2>2. \A pid : HasPubrec(pid)' => HasPubrec(pid)
    BY <2>1 DEF HasPubrec
  <2> QED BY <2>1, <2>2, OtherPassed
<1>2. CASE Reconnect /\ CleanSession
  <2>1. toClient' = <<>> /\ pending' = {} /\ pc' # "connect" /\ reconnects /\ reconnects' = reconnects
    BY <1>2, ReconnectParts DEF Reconnect, Failed, CleanSession
  <2>2. Coming' = {}
    BY <2>1 DEF Coming
  <2> QED BY <2>1, <2>2 DEF PassedInv, CopiesAlike, DroppedArePassed
<1>3. CASE Break /\ UNCHANGED <<client, broker>>
  <2>1. /\ UNCHANGED <<mq, delivered, error, pc, reconnects, pending, published>>
        /\ up' = FALSE /\ Len(toClient) \in Nat
    BY <1>3, LenProperties DEF client, broker, Break, Inv, WireTyped
  <2>2. \A n \in DOMAIN toClient' : n \in DOMAIN toClient /\ toClient'[n] = toClient[n]
    <3>1. toClient' \in Seq(Receivable) /\ Len(toClient') \in 0..Len(toClient)
          /\ \A n \in 1..Len(toClient') : toClient'[n] = toClient[n]
      BY <1>3, BreakParts
    <3>2. DOMAIN toClient' = 1..Len(toClient') /\ DOMAIN toClient = 1..Len(toClient)
      BY <3>1, LenProperties DEF Inv, WireTyped
    <3> QED BY <2>1, <3>1, <3>2
  <2>3. \A p \in Coming' : p \in Coming
    BY <2>1, <2>2 DEF Coming
  <2>4. /\ \A v : (GivenOn(v)' <=> GivenOn(v)) /\ (Passed(v)' <=> Passed(v))
        /\ \A pid : HasPubrec(pid)' <=> HasPubrec(pid)
    BY <2>1 DEF GivenOn, Passed, HasPubrec
  <2> QED BY <2>1, <2>3, <2>4, PassedKept
<1>4. ASSUME NEW qos \in OutQos, BrokerPublishes(qos), UNCHANGED client
      PROVE  PassedInv'
  <2>1. BrokerDrawsFree
    <3>1. published' # published
      BY <1>4 DEF BrokerPublishes, Inv, BrokerTyped
    <3> QED BY <3>1 DEF vars, broker
  <2> QED BY <1>4, <2>1, PublishedPassed
<1> QED BY <1>1, <1>2, <1>3, <1>4, Steps, QuietPassed, ReceivePassed, AnsweredPassed

\* So what __mqtt_recv drops as a duplicate is one.
LEMMA PassedInvariant ==
  Spec /\ [][BrokerDrawsFree]_vars => [](Inv /\ OnceInv /\ PassedInv)
<1>1. Init => Nothing /\ PassedInv
  <2>1. SUFFICES ASSUME Init PROVE Nothing /\ PassedInv
    OBVIOUS
  <2>2. /\ toClient = <<>> /\ pending = {} /\ published = 0 /\ reconnects \in MayReconnect
        /\ Nothing
    BY <2>1 DEF Init, ClientInit, BrokerInit, WireInit, Nothing
  <2>3. Coming = {}
    BY <2>2 DEF Coming
  <2>4. CopiesAlike /\ DroppedArePassed /\ PassedOn
    BY <2>2, <2>3 DEF CopiesAlike, DroppedArePassed, PassedOn
  <2> QED BY <2>2, <2>4 DEF PassedInv
<1>2. Inv /\ Nothing /\ OnceInv /\ PassedInv /\ [Next]_vars /\ [BrokerDrawsFree]_vars => Nothing' /\ PassedInv'
  BY NothingSteps, PassedSteps
<1> QED BY <1>1, <1>2, Invariant, OnceInvariant, PTL DEF Spec

\* If the broker does not use an identifier again too early, and as long as the connection
\* is not replaced, every publish of the broker is passed on or on its way, unless the client
\* has met an error: what __mqtt_recv drops as a duplicate is one (mqtt.c:722-725).
THEOREM AllPassedOn ==
  ASSUME TRUE \notin MayReconnect
  PROVE  Spec /\ [][BrokerDrawsFree]_vars => []PassedOn
<1>1. PassedInv => PassedOn
  <2>1. PassedInv => reconnects \in BOOLEAN /\ reconnects # TRUE
    BY ClientAssumption DEF PassedInv
  <2> QED BY <2>1 DEF PassedInv
<1> QED BY <1>1, PassedInvariant, PTL

-----------------------------------------------------------------------------
(* What the broker publishes is passed on in order: the steps.             *)

\* What is passed on of another quality of service does not matter.
LEMMA PassedOther ==
  ASSUME OnceInv, NEW qos, InOrder(delivered, qos),
         \/ delivered' = delivered
         \/ \E p \in Receivable : delivered' = Append(delivered, p) /\ p.qos # qos
  PROVE  /\ InOrder(delivered, qos)'
         /\ \A j \in DOMAIN delivered' : delivered'[j].qos = qos =>
              j \in DOMAIN delivered /\ delivered[j] = delivered'[j]
<1>1. CASE delivered' = delivered
  BY <1>1 DEF InOrder
<1>2. ASSUME NEW p \in Receivable, delivered' = Append(delivered, p), p.qos # qos
      PROVE  /\ InOrder(delivered, qos)'
             /\ \A j \in DOMAIN delivered' : delivered'[j].qos = qos =>
                  j \in DOMAIN delivered /\ delivered[j] = delivered'[j]
  <2>1. \A j \in DOMAIN delivered' : delivered'[j].qos = qos =>
          j \in DOMAIN delivered /\ delivered[j] = delivered'[j]
    BY <1>2, AppendedTo DEF OnceInv
  <2> QED BY <2>1 DEF InOrder
<1> QED BY <1>1, <1>2

\* One that is later than all before it may follow.
LEMMA PassedLater ==
  ASSUME OnceInv, NEW p \in Receivable, delivered' = Append(delivered, p), InOrder(delivered, p.qos),
         \A j \in DOMAIN delivered : delivered[j].qos = p.qos => delivered[j].val < p.val
  PROVE  InOrder(delivered', p.qos)
<1>1. \A j, k \in DOMAIN delivered' : j < k =>
        /\ j \in DOMAIN delivered /\ delivered'[j] = delivered[j]
        /\ (k \in DOMAIN delivered /\ delivered'[k] = delivered[k]) \/ delivered'[k] = p
  BY AppendedTo DEF OnceInv
<1> QED BY <1>1 DEF InOrder

\* toClient keeps its packets, but perhaps the first and the last ones.
LEMMA ZerosKept ==
  ASSUME Inv, Inv', OnceInv, ZerosInOrder, NEW d \in {0, 1}, Len(toClient') <= Len(toClient) - d,
         \A n \in 1..Len(toClient') : toClient'[n] = toClient[n + d], published' = published,
         pending' \subseteq pending,
         \/ delivered' = delivered
         \/ \E p \in Receivable : delivered' = Append(delivered, p) /\ p.qos # 0
  PROVE  ZerosInOrder'
<1>1. /\ InOrder(delivered, 0)'
      /\ \A j \in DOMAIN delivered' : delivered'[j].qos = 0 => j \in DOMAIN delivered /\ delivered[j] = delivered'[j]
  BY PassedOther DEF ZerosInOrder
<1>2. \A n \in DOMAIN toClient' : n + d \in DOMAIN toClient /\ toClient'[n] = toClient[n + d]
  BY Shifted
<1>3. \A m, n \in DOMAIN toClient' : m < n => m + d < n + d
  BY LenProperties DEF Inv, WireTyped
<1> QED BY <1>1, <1>2, <1>3 DEF ZerosInOrder

\* The first packet is read.
LEMMA ReadNext ==
  ASSUME Inv, Inv', toClient # <<>>, toClient' = Tail(toClient)
  PROVE  /\ 1 \in {0, 1} /\ Len(toClient) \in Nat /\ Len(toClient') = Len(toClient) - 1
         /\ \A n \in 1..Len(toClient') : toClient'[n] = toClient[n + 1]
         /\ \A n \in DOMAIN toClient' : n \in Nat \ {0} /\ n + 1 \in DOMAIN toClient /\ toClient'[n] = toClient[n + 1]
         /\ 1 \in DOMAIN toClient /\ Head(toClient) = toClient[1]
         /\ Head(toClient) \in Receivable /\ Head(toClient).val \in Nat /\ Head(toClient) \in Coming
<1>1. /\ Len(toClient) \in Nat /\ Len(toClient') = Len(toClient) - 1
      /\ \A n \in 1..Len(toClient') : toClient'[n] = toClient[n + 1]
      /\ 1 \in DOMAIN toClient /\ Head(toClient) = toClient[1] /\ Head(toClient) \in Receivable
  <2>1. toClient \in Seq(Receivable)
    BY DEF Inv, WireTyped
  <2> QED BY <2>1, FirstPacket, TailOf
<1>2. Head(toClient).val \in Nat /\ Head(toClient) \in Coming
  BY <1>1 DEF Receivable, PacketsOf, Coming
<1>3. Len(toClient') <= Len(toClient) - 1
  BY <1>1
<1>4. 1 \in {0, 1}
  OBVIOUS
<1> QED BY <1>1, <1>2, <1>3, <1>4, Shifted

\* And passed on.
LEMMA ZerosPassed ==
  ASSUME Inv, Inv', OnceInv, ZerosInOrder, toClient # <<>>, toClient' = Tail(toClient),
         UNCHANGED <<pending, published>>, NEW p, p = Head(toClient), Zero(p), delivered' = Append(delivered, p)
  PROVE  ZerosInOrder'
<1>1. /\ \A n \in DOMAIN toClient' : n \in Nat \ {0} /\ n + 1 \in DOMAIN toClient /\ toClient'[n] = toClient[n + 1]
      /\ 1 \in DOMAIN toClient /\ p = toClient[1] /\ p \in Receivable /\ p.qos = 0
  BY ReadNext DEF Zero
<1>2. InOrder(delivered, 0)'
  BY <1>1, PassedLater DEF ZerosInOrder
<1>3. \A j \in DOMAIN delivered' : (j \in DOMAIN delivered /\ delivered'[j] = delivered[j]) \/ delivered'[j] = p
  BY AppendedTo DEF OnceInv
<1>4. \A m, n \in DOMAIN toClient' : m < n => m + 1 < n + 1
  BY <1>1
<1>5. \A n \in DOMAIN toClient' : 1 < n + 1
  BY <1>1
<1> QED BY <1>1, <1>2, <1>3, <1>4, <1>5 DEF ZerosInOrder

\* The broker sends x.
LEMMA ZerosSent ==
  ASSUME Inv, OnceInv, ZerosInOrder, delivered' = delivered, NEW x \in Receivable, toClient' = Append(toClient, x),
         published' \in {published, published + 1}, Zero(x) => x.val = published + 1 /\ published' = published + 1,
         \A p \in pending' : p \in pending \/ ~Zero(p)
  PROVE  ZerosInOrder'
<1>1. published \in Nat /\ toClient \in Seq(Receivable)
  BY DEF Inv, BrokerTyped, WireTyped
<1>2. /\ \A n \in DOMAIN toClient' : (n \in DOMAIN toClient /\ toClient'[n] = toClient[n]) \/ toClient'[n] = x
      /\ \A m, n \in DOMAIN toClient' : m < n => m \in DOMAIN toClient /\ toClient'[m] = toClient[m]
  BY <1>1, AppendedTo
<1>3. \A v \in Nat : v <= published => v <= published' /\ (Zero(x) => v < x.val)
  BY <1>1
<1>4. /\ \A n \in DOMAIN toClient : toClient[n].val \in Nat
      /\ \A n \in DOMAIN delivered : delivered[n].val \in Nat
  <2>1. \A y \in Receivable : y.val \in Nat
    BY DEF Receivable, PacketsOf
  <2> QED BY <1>1, <2>1, ElementOfSeq, LenProperties DEF OnceInv
<1>5. Zero(x) => x.val <= published'
  BY <1>1
<1>6. ASSUME NEW n \in DOMAIN toClient', Zero(toClient'[n])
      PROVE  /\ toClient'[n].val <= published'
             /\ \A j \in DOMAIN delivered : delivered[j].qos = 0 => delivered[j].val < toClient'[n].val
  BY <1>2, <1>3, <1>4, <1>5, <1>6 DEF ZerosInOrder
<1>7. ASSUME NEW m \in DOMAIN toClient', NEW n \in DOMAIN toClient', m < n, Zero(toClient'[m]), Zero(toClient'[n])
      PROVE  toClient'[m].val < toClient'[n].val
  BY <1>2, <1>3, <1>4, <1>7 DEF ZerosInOrder
<1>8. \A j \in DOMAIN delivered : delivered[j].qos = 0 => delivered[j].val <= published'
  BY <1>3, <1>4 DEF ZerosInOrder
<1>9. InOrder(delivered, 0)' /\ \A p \in pending' : ~Zero(p)
  BY DEF ZerosInOrder, InOrder
<1> QED BY <1>6, <1>7, <1>8, <1>9 DEF ZerosInOrder

\* The same for QoS 2: the first copies keep their order, if the packet that is read is not
\* a first copy that gets lost.
LEMMA FirstsKept ==
  ASSUME Inv, Inv', NEW d \in {0, 1}, Len(toClient') <= Len(toClient) - d,
         \A n \in 1..Len(toClient') : toClient'[n] = toClient[n + d], pending' \subseteq pending,
         FirstsFirst, \A v : Passed(v) => Passed(v)',
         NEW h, h = toClient[1], (d = 1 /\ AtQos2(h)) => Passed(h.val)'
  PROVE  /\ FirstsFirst'
         /\ (NoneLost /\ Len(toClient') = Len(toClient) - d) => NoneLost'
<1>1. \A n \in DOMAIN toClient' : n \in Nat \ {0} /\ n + d \in DOMAIN toClient /\ toClient'[n] = toClient[n + d]
  BY Shifted
<1>2. \A p \in Coming' : p \in Coming
  BY FewerComing
<1>3. /\ Len(toClient) \in Nat /\ DOMAIN toClient = 1..Len(toClient)
      /\ Len(toClient') \in Nat /\ DOMAIN toClient' = 1..Len(toClient')
  BY LenProperties DEF Inv, WireTyped
<1>4. \A p : \A m \in DOMAIN toClient : (AtQos2(p) /\ ~Passed(p.val)' /\ toClient[m] = p) => m # 1 \/ d = 0
  OBVIOUS
<1>5. FirstsFirst'
  <2>1. SUFFICES ASSUME NEW n \in DOMAIN toClient', NEW p \in Coming', AtQos2(toClient'[n]), AtQos2(p),
                        ~Passed(p.val)', p.val < toClient'[n].val
                 PROVE  \E m \in DOMAIN toClient' : m < n /\ toClient'[m] = p
    BY DEF FirstsFirst
  <2>2. PICK m \in DOMAIN toClient : m < n + d /\ toClient[m] = p
    BY <1>1, <1>2, <2>1 DEF FirstsFirst
  <2>3. m - d \in DOMAIN toClient' /\ m - d < n /\ (m - d) + d = m
    <3>1. m # 1 \/ d = 0
      BY <1>4, <2>1, <2>2
    <3>2. n \in 1..Len(toClient') /\ m \in 1..Len(toClient)
      BY <1>3
    <3>3. PICK a : a = Len(toClient')
      OBVIOUS
    <3>4. n \in 1..a /\ a \in Nat /\ m \in Nat \ {0} /\ m < n + d
      BY <1>3, <2>2, <3>2, <3>3
    <3>5. m - d \in 1..a /\ m - d < n /\ (m - d) + d = m
      BY ONLY <3>1, <3>4, d \in {0, 1}
    <3> QED BY <1>3, <3>3, <3>5
  <2> QED BY <1>1, <2>2, <2>3
<1>6. ASSUME NoneLost, Len(toClient') = Len(toClient) - d
      PROVE  NoneLost'
  <2>1. SUFFICES ASSUME NEW p \in pending', AtQos2(p), ~Passed(p.val)'
                 PROVE  \E n \in DOMAIN toClient' : toClient'[n] = p
    BY DEF NoneLost
  <2>2. PICK m \in DOMAIN toClient : toClient[m] = p
    BY <1>6, <2>1 DEF NoneLost
  <2>3. m - d \in DOMAIN toClient' /\ (m - d) + d = m
    <3>1. m # 1 \/ d = 0
      BY <1>4, <2>1, <2>2
    <3>2. PICK b : b = Len(toClient)
      OBVIOUS
    <3>3. m \in 1..b /\ b \in Nat
      BY <1>3, <3>2
    <3>4. m - d \in 1..(b - d) /\ (m - d) + d = m
      BY ONLY <3>1, <3>3, d \in {0, 1}
    <3> QED BY <1>3, <1>6, <3>2, <3>4
  <2> QED BY <1>1, <2>2, <2>3
<1> QED BY <1>5, <1>6

LEMMA TwosKept ==
  ASSUME Inv, Inv', OnceInv, TwosInOrder, NEW d \in {0, 1}, Len(toClient') <= Len(toClient) - d,
         \A n \in 1..Len(toClient') : toClient'[n] = toClient[n + d], pending' \subseteq pending,
         \/ delivered' = delivered
         \/ \E p \in Receivable : delivered' = Append(delivered, p) /\ p.qos # 2,
         error' = "OK" => /\ error = "OK" /\ (up' => up /\ Len(toClient') = Len(toClient) - d)
                          /\ (d = 1 /\ AtQos2(toClient[1])) => Passed(toClient[1].val)
  PROVE  TwosInOrder'
<1>1. /\ InOrder(delivered, 2)'
      /\ \A j \in DOMAIN delivered' : delivered'[j].qos = 2 => j \in DOMAIN delivered /\ delivered[j] = delivered'[j]
  BY PassedOther DEF TwosInOrder
<1>2. \A v : Passed(v)' <=> Passed(v)
  <2>1. CASE delivered' = delivered
    BY <2>1 DEF Passed
  <2>2. ASSUME NEW p \in Receivable, delivered' = Append(delivered, p), p.qos # 2
        PROVE  \A v : Passed(v)' <=> Passed(v)
    BY <2>2, DeliveredMore
  <2> QED BY <2>1, <2>2
<1>3. LaterUnpassed'
  <2>1. \A p \in Coming' : p \in Coming
    BY FewerComing
  <2> QED BY <1>1, <1>2, <2>1 DEF TwosInOrder, LaterUnpassed
<1>4. ASSUME error' = "OK"
      PROVE  FirstsFirst' /\ (up' => NoneLost')
  <2>1. PICK h : h = toClient[1]
    OBVIOUS
  <2>2. (d = 1 /\ AtQos2(h)) => Passed(h.val)'
    BY <1>2, <1>4, <2>1
  <2> QED BY <1>2, <1>4, <2>1, <2>2, FirstsKept DEF TwosInOrder
<1> QED BY <1>1, <1>3, <1>4 DEF TwosInOrder

\* The first packet is passed on for the first time: it is earlier than all of the others that
\* have not been.
LEMMA TwosPassed ==
  ASSUME Inv, Inv', OnceInv, TwosInOrder, toClient # <<>>, toClient' = Tail(toClient), pending' = pending,
         NEW p, p = Head(toClient), AtQos2(p), ~Passed(p.val), delivered' = Append(delivered, p),
         error = "OK", up' = up
  PROVE  TwosInOrder'
<1>1. /\ 1 \in {0, 1} /\ Len(toClient) \in Nat /\ Len(toClient') = Len(toClient) - 1
      /\ \A n \in 1..Len(toClient') : toClient'[n] = toClient[n + 1]
      /\ 1 \in DOMAIN toClient /\ p = toClient[1]
      /\ p \in Receivable /\ p.val \in Nat /\ p \in Coming /\ p.qos = 2
  BY ReadNext DEF AtQos2
<1>2. Len(toClient') <= Len(toClient) - 1 /\ pending' \subseteq pending
  BY <1>1
<1>3. \A q \in Coming' : q \in Coming /\ q.val \in Nat
  BY <1>1, <1>2, FewerComing, ComingTyped
<1>4. (\A v : Passed(v)' <=> Passed(v) \/ p.val = v)
  BY <1>1, DeliveredMore
<1>5. \A j \in DOMAIN delivered' : (j \in DOMAIN delivered /\ delivered'[j] = delivered[j]) \/ delivered'[j] = p
  BY AppendedTo DEF OnceInv
<1>6. \A j \in DOMAIN delivered : delivered[j].qos = 2 => delivered[j].val < p.val
  BY <1>1 DEF TwosInOrder, LaterUnpassed
<1>7. InOrder(delivered, 2)'
  BY <1>1, <1>6, PassedLater DEF TwosInOrder
<1>8. LaterUnpassed'
  <2>1. SUFFICES ASSUME NEW q \in Coming', AtQos2(q), ~Passed(q.val)' PROVE p.val < q.val
    BY <1>3, <1>4, <1>5 DEF TwosInOrder, LaterUnpassed
  <2>2. q.val # p.val /\ ~Passed(q.val)
    BY <1>4, <2>1
  <2>3. ~(q.val < p.val)
    <3>1. SUFFICES ASSUME q.val < p.val PROVE FALSE
      OBVIOUS
    <3>2. PICK m \in DOMAIN toClient : m < 1 /\ toClient[m] = q
      BY <1>1, <1>3, <2>1, <2>2, <3>1 DEF TwosInOrder, FirstsFirst
    <3> QED BY <3>2, LenProperties DEF Inv, WireTyped
  <2> QED BY <1>1, <1>3, <2>2, <2>3
<1>9. FirstsFirst' /\ (up' => NoneLost')
  BY <1>1, <1>2, <1>4, FirstsKept DEF TwosInOrder
<1> QED BY <1>7, <1>8, <1>9 DEF TwosInOrder

\* The broker sends x: what it has sent and not seen answered, a publish that is later than
\* all, or something else.
LEMMA TwosSent ==
  ASSUME Inv, OnceInv, TwosInOrder, UNCHANGED <<delivered, error>>, NEW x \in Receivable,
         toClient' = Append(toClient, x), up, \A p \in pending' : AtQos2(p) => p \in pending \/ p = x,
         AtQos2(x) => x \in pending \/ x.val = published + 1
  PROVE  TwosInOrder'
<1>1. published \in Nat /\ toClient \in Seq(Receivable)
  BY DEF Inv, BrokerTyped, WireTyped
<1>2. /\ \A n \in DOMAIN toClient' : \/ n \in DOMAIN toClient /\ toClient'[n] = toClient[n]
                                     \/ toClient'[n] = x /\ \A m \in DOMAIN toClient : m < n
      /\ \A n \in DOMAIN toClient : n \in DOMAIN toClient' /\ toClient'[n] = toClient[n]
      /\ \E n \in DOMAIN toClient' : toClient'[n] = x
  <2>1. \A m \in 1..Len(toClient) : m < Len(toClient) + 1
    BY <1>1, LenProperties
  <2> QED BY <1>1, <2>1, AppendedTo
<1>3. \A v : Passed(v)' <=> Passed(v)
  BY DEF Passed
<1>4. \A p \in Coming' : AtQos2(p) => p \in Coming \/ (p = x /\ p.val = published + 1)
  BY <1>2 DEF Coming
<1>5. \A v \in Nat : v <= published => v < published + 1
  BY <1>1
<1>6. /\ \A p \in Coming : AtQos2(p) => p.val \in Nat /\ p.val < published + 1
      /\ \A j \in DOMAIN delivered : delivered[j].qos = 2 => delivered[j].val < published + 1
  <2>1. \A j \in DOMAIN delivered : delivered[j].val \in Nat
    <3>1. \A y \in Receivable : y.val \in Nat
      BY DEF Receivable, PacketsOf
    <3> QED BY <3>1, ElementOfSeq, LenProperties DEF OnceInv
  <2> QED BY <1>5, <2>1, ComingTyped DEF OnceInv, ValsKnown
<1>7. LaterUnpassed'
  BY <1>3, <1>4, <1>6 DEF TwosInOrder, LaterUnpassed
<1>8. ASSUME error = "OK"
      PROVE  FirstsFirst'
  <2>1. SUFFICES ASSUME NEW n \in DOMAIN toClient', NEW p \in Coming', AtQos2(toClient'[n]), AtQos2(p),
                        ~Passed(p.val), p.val < toClient'[n].val
                 PROVE  \E m \in DOMAIN toClient' : m < n /\ toClient'[m] = p
    BY <1>3 DEF FirstsFirst
  <2>2. p \in Coming
    <3>1. toClient'[n] \in Coming \/ toClient'[n].val = published + 1
      BY <1>2, <1>4, <2>1 DEF Coming
    <3>2. toClient'[n].val \in Nat /\ toClient'[n].val <= published + 1
      BY <1>1, <1>6, <2>1, <3>1
    <3>3. p.val # published + 1
      BY <1>1, <2>1, <3>2
    <3> QED BY <1>4, <2>1, <3>3
  <2>3. CASE n \in DOMAIN toClient /\ toClient'[n] = toClient[n]
    BY <1>2, <1>8, <2>1, <2>2, <2>3 DEF TwosInOrder, FirstsFirst
  <2>4. CASE \A m \in DOMAIN toClient : m < n
    <3>1. \E m \in DOMAIN toClient : toClient[m] = p
      BY <1>8, <2>1, <2>2 DEF TwosInOrder, NoneLost, Coming
    <3> QED BY <1>2, <2>4, <3>1
  <2> QED BY <1>2, <2>3, <2>4
<1>9. ASSUME error = "OK"
      PROVE  NoneLost'
  BY <1>2, <1>3, <1>9 DEF TwosInOrder, NoneLost
<1>10. InOrder(delivered, 2)'
  BY DEF TwosInOrder, InOrder
<1> QED BY <1>7, <1>8, <1>9, <1>10 DEF TwosInOrder

\* Nothing is passed on, and nothing is left to come.
LEMMA NothingOrdered ==
  ASSUME OnceInv, TwosInOrder, ZerosInOrder, toClient' = <<>>, pending' = {}, UNCHANGED <<delivered, published>>
  PROVE  TwosInOrder' /\ ZerosInOrder'
<1>1. Coming' = {} /\ DOMAIN toClient' = {}
  BY DEF Coming
<1>2. InOrder(delivered, 2)' /\ InOrder(delivered, 0)'
  BY DEF TwosInOrder, ZerosInOrder, InOrder
<1>3. LaterUnpassed' /\ FirstsFirst' /\ NoneLost'
  BY <1>1 DEF LaterUnpassed, FirstsFirst, NoneLost
<1> QED BY <1>1, <1>2, <1>3 DEF TwosInOrder, ZerosInOrder

\* Nothing is read and nothing sent.
LEMMA OtherOrdered ==
  ASSUME Inv, Inv', OnceInv, TwosInOrder, ZerosInOrder, UNCHANGED <<toClient, delivered, published>>,
         pending' \subseteq pending, error' = "OK" => error = "OK", up' => up
  PROVE  TwosInOrder' /\ ZerosInOrder'
<1>1. Len(toClient) \in Nat /\ Len(toClient') = Len(toClient)
  BY LenProperties DEF Inv, WireTyped
<1>2. /\ 0 \in {0, 1} /\ Len(toClient') <= Len(toClient) - 0 /\ Len(toClient') = Len(toClient) - 0
      /\ \A n \in 1..Len(toClient') : toClient'[n] = toClient[n + 0]
  BY <1>1
<1>3. TwosInOrder'
  <2>1. ~(0 = 1)
    OBVIOUS
  <2>2. error' = "OK" => /\ error = "OK" /\ (up' => up /\ Len(toClient') = Len(toClient) - 0)
                         /\ (0 = 1 /\ AtQos2(toClient[1])) => Passed(toClient[1].val)
    BY <1>2, <2>1, Zenon
  <2> QED BY <1>2, <2>2, TwosKept
<1>4. ZerosInOrder'
  BY <1>2, ZerosKept
<1> QED BY <1>3, <1>4

LEMMA ReceiveOrdered ==
  ASSUME Inv, Inv', OnceInv, PassedInv, TwosInOrder, ZerosInOrder, Receive, UNCHANGED <<reconnects, broker>>
  PROVE  TwosInOrder' /\ ZerosInOrder'
<1>1. PICK p : p = Head(toClient)
  OBVIOUS
<1>2. /\ toClient # <<>> /\ toClient' = Tail(toClient) /\ UNCHANGED <<pending, published, up>>
      /\ IF p.type = "PUBLISH" THEN Deliver(p) ELSE Acknowledge(p)
  BY <1>1 DEF Receive, broker
<1>3. /\ 1 \in {0, 1} /\ Len(toClient) \in Nat /\ Len(toClient') = Len(toClient) - 1
      /\ \A n \in 1..Len(toClient') : toClient'[n] = toClient[n + 1]
      /\ p = toClient[1] /\ p \in Receivable /\ p \in Coming
  BY <1>1, <1>2, ReadNext
<1>4. Len(toClient') <= Len(toClient) - 1 /\ pending' \subseteq pending
  BY <1>2, <1>3
<1>5. ASSUME error' = "OK" => error = "OK" /\ (AtQos2(p) => Passed(p.val)),
             \/ delivered' = delivered
             \/ delivered' = Append(delivered, p) /\ p.qos # 2
      PROVE  TwosInOrder'
  BY <1>2, <1>3, <1>4, <1>5, TwosKept
<1>6. ASSUME \/ delivered' = delivered
             \/ delivered' = Append(delivered, p) /\ p.qos # 0
      PROVE  ZerosInOrder'
  BY <1>2, <1>3, <1>4, <1>6, ZerosKept
<1>7. CASE p.type = "PUBLISH"
  <2>1. CASE p.qos = 0 /\ UNCHANGED <<mq, error, pc>> /\ delivered' = Append(delivered, p)
    <3>1. TwosInOrder'
      BY <1>5, <2>1 DEF AtQos2
    <3>2. ZerosInOrder'
      BY <1>1, <1>2, <1>7, <2>1, ZerosPassed DEF Zero
    <3> QED BY <3>1, <3>2
  <2>2. CASE p.qos = 2 /\ Find("PUBREC", p.pid) # {} /\ UNCHANGED <<mq, error, delivered, pc>>
    <3>1. p.pid # None
      BY <1>3, <1>7, <2>2, Constants DEF Receivable, Numbered, WithoutId
    <3>2. HasPubrec(p.pid)
      BY <2>2, <3>1 DEF Find, HasPubrec, Is
    <3>3. error = "OK" => Passed(p.val)
      BY <1>3, <1>7, <2>2, <3>2 DEF PassedInv, DroppedArePassed, AtQos2
    <3> QED BY <1>5, <1>6, <2>2, <3>3
  <2>3. ASSUME p.qos \in {1, 2}, p.qos = 2 => Find("PUBREC", p.pid) = {},
               TryPack(mq, Simple(IF p.qos = 1 THEN "PUBACK" ELSE "PUBREC", p.pid)),
               delivered' = IF error' = "OK" THEN Append(delivered, p) ELSE delivered
        PROVE  TwosInOrder' /\ ZerosInOrder'
    <3>1. ZerosInOrder'
      BY <1>6, <2>3
    <3>2. error' = "OK" => error = "OK"
      BY <1>3, <1>7, <2>3, DeliveredPubrecs
    <3>3. CASE p.qos = 2 /\ error' = "OK"
      <4>1. p.pid # None
        BY <1>3, <1>7, <3>3, Constants DEF Receivable, Numbered, WithoutId
      <4>2. AtQos2(p) /\ ~Guarded(p)
        BY <1>7, <2>3, <3>3, <4>1 DEF Find, Guarded, AtQos2
      <4>3. ~Passed(p.val)
        BY <1>3, <4>2 DEF OnceInv, PassedGuarded
      <4>4. TwosInOrder'
        BY <1>1, <1>2, <2>3, <3>2, <3>3, <4>2, <4>3, TwosPassed
      <4> QED BY <3>1, <4>4
    <3>4. CASE ~(p.qos = 2 /\ error' = "OK")
      BY <1>5, <2>3, <3>1, <3>2, <3>4 DEF AtQos2
    <3> QED BY <3>3, <3>4
  <2> QED BY <1>2, <1>3, <1>7, <2>1, <2>2, <2>3, DeliverParts
<1>8. CASE p.type # "PUBLISH"
  BY <1>2, <1>3, <1>5, <1>6, <1>8, AcknowledgedPubrecs DEF AtQos2
<1> QED BY <1>7, <1>8

\* The broker's steps.
LEMMA BrokerOrdered ==
  ASSUME Inv, Inv', OnceInv, TwosInOrder, ZerosInOrder,
         BrokerReceives \/ BrokerResends \/ \E qos \in OutQos : BrokerPublishes(qos), UNCHANGED client
  PROVE  TwosInOrder' /\ ZerosInOrder'
<1>1. /\ UNCHANGED <<delivered, error>> /\ toClient \in Seq(Receivable) /\ pending \subseteq Receivable
      /\ up /\ published \in Nat
  BY DEF client, Inv, WireTyped, BrokerTyped, BrokerReceives, BrokerResends, BrokerPublishes
<1>2. CASE BrokerReceives
  <2>1. PICK p : p = Head(toBroker)
    OBVIOUS
  <2>2. published' = published
    BY <1>2 DEF BrokerReceives
  <2>3. CASE toClient' = toClient
    <3>1. pending' \subseteq pending
      <4>1. \A x : toClient' # Append(toClient, x)
        <5>1. \A x : Len(Append(toClient, x)) # Len(toClient)
          BY <1>1
        <5> QED BY <2>3, <5>1
      <4> QED BY <1>2, <4>1, BrokerPending
    <3> QED BY <1>1, <2>2, <2>3, <3>1, OtherOrdered
  <2>4. ASSUME NEW x \in Receivable, toClient' = Append(toClient, x), x.type # "PUBLISH",
               \/ pending' = NotPending(p.pid, {"PUBLISH", "PUBREL"}) \cup {x}
               \/ pending' = pending
        PROVE  TwosInOrder' /\ ZerosInOrder'
    <3>1. ~AtQos2(x) /\ ~Zero(x) /\ \A y \in pending' : y \in pending \/ y = x
      BY <2>4 DEF AtQos2, Zero, NotPending
    <3> QED BY <1>1, <2>2, <2>4, <3>1, TwosSent, ZerosSent
  <2> QED BY <1>2, <2>1, <2>3, <2>4, BrokerReplies
<1>3. CASE BrokerResends
  <2>1. PICK x \in pending : toClient' = Append(toClient, x)
    BY <1>3 DEF BrokerResends, Reply
  <2>2. UNCHANGED <<pending, published>>
    BY <1>3 DEF BrokerResends
  <2>3. ~Zero(x) /\ x \in Receivable
    BY <1>1, <2>1 DEF ZerosInOrder
  <2> QED BY <1>1, <2>1, <2>2, <2>3, TwosSent, ZerosSent
<1>4. ASSUME NEW qos \in OutQos, BrokerPublishes(qos)
      PROVE  TwosInOrder' /\ ZerosInOrder'
  <2>1. PICK x \in Receivable :
           /\ x.qos = qos /\ x.val = published + 1 /\ published' = published + 1
           /\ toClient' = Append(toClient, x)
           /\ IF qos = 0 THEN pending' = pending ELSE pending' = pending \cup {x} /\ x.pid \in Pids
    BY <1>4, BrokerPublishParts
  <2>2. \A p \in pending' : p \in pending \/ (p = x /\ ~Zero(p))
    BY <2>1 DEF Zero
  <2> QED BY <1>1, <2>1, <2>2, TwosSent, ZerosSent
<1> QED BY <1>2, <1>3, <1>4

LEMMA OrderedSteps ==
  ASSUME Inv, Nothing, Inv', OnceInv, PassedInv, TwosInOrder, ZerosInOrder, [Next]_vars
  PROVE  TwosInOrder' /\ ZerosInOrder'
<1>1. CASE UNCHANGED vars
  BY <1>1, OtherOrdered DEF vars, client, broker, wire
<1>2. CASE Connect /\ UNCHANGED <<reconnects, broker>>
  BY <1>2, ConnectParts, NothingOrdered
<1>3. CASE /\ \/ Sync \/ ReceiveEnds \/ SendStarts \/ Send \/ SendEnds \/ Tick
              \/ \E c \in Calls : Call(c[1], c[2])
              \/ \E t \in Threads : UnsubscribeReads(t) \/ UnsubscribeWrites(t) \/ Unsubscribe(t)
           /\ UNCHANGED <<reconnects, broker>>
  <2>1. UNCHANGED <<pending, published>>
    BY <1>3 DEF broker
  <2> QED BY <1>3, <2>1, QuietParts, OtherOrdered
<1>4. CASE Reconnect /\ CleanSession
  BY <1>4, ReconnectParts, NothingOrdered DEF Reconnect, CleanSession
<1>5. CASE Break /\ UNCHANGED <<client, broker>>
  <2>1. UNCHANGED <<published, delivered, pending, error>> /\ up' = FALSE /\ Len(toClient) \in Nat
    BY <1>5, LenProperties DEF client, broker, Break, Inv, WireTyped
  <2>2. Len(toClient') \in 0..Len(toClient) /\ \A n \in 1..Len(toClient') : toClient'[n] = toClient[n]
    BY <1>5, BreakParts
  <2>3. 0 \in {0, 1} /\ Len(toClient') <= Len(toClient) - 0 /\ \A n \in 1..Len(toClient') : toClient'[n] = toClient[n + 0]
    BY <2>1, <2>2
  <2> QED BY <2>1, <2>3, TwosKept, ZerosKept
<1> QED BY <1>1, <1>2, <1>3, <1>4, <1>5, Steps, ReceiveOrdered, BrokerOrdered

\* If the broker does not use an identifier again too early, its publishes of QoS 2 and of
\* QoS 0 are passed on in the order in which it sent them first, however it repeats them, and
\* whenever the connection breaks and the client connects again.
THEOREM AllPassedInOrder ==
  Spec /\ [][BrokerDrawsFree]_vars => []PassedInOrder
<1>1. Init => Nothing /\ TwosInOrder /\ ZerosInOrder
  <2>1. SUFFICES ASSUME Init PROVE Nothing /\ TwosInOrder /\ ZerosInOrder
    OBVIOUS
  <2>2. /\ toClient = <<>> /\ pending = {} /\ delivered = <<>> /\ Nothing
    BY <2>1 DEF Init, ClientInit, BrokerInit, WireInit, Nothing
  <2>3. Coming = {} /\ DOMAIN toClient = {} /\ DOMAIN delivered = {}
    BY <2>2 DEF Coming
  <2> QED BY <2>2, <2>3 DEF TwosInOrder, ZerosInOrder, InOrder, LaterUnpassed, FirstsFirst, NoneLost
<1>2. /\ Inv /\ Nothing /\ Inv' /\ OnceInv /\ PassedInv /\ TwosInOrder /\ ZerosInOrder /\ [Next]_vars
      => Nothing' /\ TwosInOrder' /\ ZerosInOrder'
  BY NothingSteps, OrderedSteps
<1>3. TwosInOrder /\ ZerosInOrder => PassedInOrder
  BY DEF TwosInOrder, ZerosInOrder, PassedInOrder
<1> QED BY <1>1, <1>2, <1>3, PassedInvariant, PTL DEF Spec

-----------------------------------------------------------------------------
(* What the client publishes reaches the broker in order.  At each moment  *)
(* the order is in four places: the queue, the packets under way, what the *)
(* broker holds and what it has taken over.                                *)

AtQos(p, qos) == p.type = "PUBLISH" /\ p.qos = qos

\* The publishes of the client come with the numbers of the calls, of which c is the last.
Sorted(q) ==
  \A j, k \in DOMAIN q : (j < k /\ q[j].packet.type = "PUBLISH" /\ q[k].packet.type = "PUBLISH")
                           => q[j].packet.val < q[k].packet.val
Bounded(q, b, H, G, c) ==
  /\ \A k \in DOMAIN q : q[k].packet.type \in {"PUBLISH", "PUBREL"} => q[k].packet.val \in 0..c
  /\ \A n \in DOMAIN b : b[n].type = "PUBLISH" => b[n].val \in 0..c
  /\ \A h \in H : h.val \in 0..c
  /\ \A j \in DOMAIN G : G[j].val \in 0..c

\* The loop of __mqtt_send has left nothing behind but publishes of QoS 2.
LoopSends == (pc = "send" /\ i <= Len(mq)) =>
               \A j \in DOMAIN mq : (j < i /\ mq[j].state = "UNSENT") => IsQos2(mq[j])

\* QoS 0, in the order of the calls: what the broker has, what is under way to it and what
\* is not sent yet.
Zeros(q, b, G) ==
  /\ \A m, n \in DOMAIN b : (m < n /\ AtQos(b[m], 0) /\ AtQos(b[n], 0)) => b[m].val < b[n].val
  /\ \A j \in DOMAIN G, n \in DOMAIN b : (G[j].qos = 0 /\ AtQos(b[n], 0)) => G[j].val < b[n].val
  /\ \A k \in DOMAIN q : AtQos(q[k].packet, 0) =>
       /\ q[k].state # "AWAITING_ACK"
       /\ q[k].state = "UNSENT" =>
            /\ \A j \in DOMAIN G : G[j].qos = 0 => G[j].val < q[k].packet.val
            /\ \A n \in DOMAIN b : AtQos(b[n], 0) => b[n].val < q[k].packet.val

\* QoS 1: the publish v is at the broker, or gets there before the packet at n, unless the
\* broker closes the connection.
Has(G, v) == \E j \in DOMAIN G : G[j].qos = 1 /\ G[j].val = v
Earlier(b, G, v, n) ==
  Has(G, v) \/ \E m \in DOMAIN b : m < n /\ (b[m].type = "GARBLED" \/ (AtQos(b[m], 1) /\ b[m].val = v))
Ones(q, b, G) ==
  /\ \A j \in DOMAIN G : G[j].qos = 1 =>
       /\ \A n \in DOMAIN b : (AtQos(b[n], 1) /\ b[n].val < G[j].val) => Has(G, b[n].val)
       /\ \A k \in DOMAIN q : (AtQos(q[k].packet, 1) /\ q[k].packet.val < G[j].val) => Has(G, q[k].packet.val)
  /\ \A m \in DOMAIN b : AtQos(b[m], 1) =>
       /\ \A n \in DOMAIN b : (m < n /\ AtQos(b[n], 1) /\ b[n].val < b[m].val) => Earlier(b, G, b[n].val, m)
       /\ \A k \in DOMAIN q : (AtQos(q[k].packet, 1) /\ q[k].packet.val < b[m].val)
                                => Earlier(b, G, q[k].packet.val, m)
  /\ \A k \in DOMAIN q : (AtQos(q[k].packet, 1) /\ q[k].state # "UNSENT")
                           => Earlier(b, G, q[k].packet.val, Len(b) + 1)

\* QoS 2: the publishes that the broker may still take over, which PUBRELs do in order.
Live(q, b, H) == H \cup {b[n] : n \in {m \in DOMAIN b : AtQos2(b[m])}}
                   \cup {q[k].packet : k \in {j \in DOMAIN q : IsQos2(q[j]) /\ q[j].state # "COMPLETE"}}
Freed(b, pid, n) == \E m \in DOMAIN b : m < n /\ (b[m].type = "GARBLED" \/ (b[m].type = "PUBREL" /\ b[m].pid = pid))
ReleasedBefore(q, pid, k) == \E j \in DOMAIN q : j < k /\ Is(q[j], "PUBREL", pid)
Twos(q, b, H, G) ==
  /\ \A y \in Live(q, b, H), j \in DOMAIN G : G[j].qos = 2 => G[j].val < y.val
  /\ \A y, z \in Live(q, b, H) : y.val = z.val => y = z
  /\ \A y \in Live(q, b, H), k \in DOMAIN q : q[k].packet.type = "PUBREL" =>
       /\ y.val < q[k].packet.val => ReleasedBefore(q, y.pid, k)
       /\ y.pid = q[k].packet.pid =>
            /\ y.val = q[k].packet.val /\ q[k].state # "COMPLETE"
            /\ q[k].state # "UNSENT" => Freed(b, y.pid, Len(b) + 1)
  /\ \A y, z \in Live(q, b, H), n \in DOMAIN b :
       (b[n].type = "PUBREL" /\ b[n].pid = z.pid /\ y.val < z.val) => Freed(b, y.pid, n)

Ordered(q, b, H, G) == Zeros(q, b, G) /\ Ones(q, b, G) /\ Twos(q, b, H, G)
OrderInv == /\ Sorted(mq) /\ Bounded(mq, toBroker, held, got, calls) /\ LoopSends /\ OrderedAtBroker
            /\ up => Ordered(mq, toBroker, held, got)

-----------------------------------------------------------------------------
(* The queue changes.                                                      *)

\* m is o, or o completed; a publish of QoS 1 is not completed before it is sent.
Stays(m, o) == /\ m.packet = o.packet /\ m.state \in {o.state, "COMPLETE"}
               /\ (AtQos(o.packet, 1) /\ m.state # "UNSENT") => o.state # "UNSENT"
\* The messages of r are some of those of q, and perhaps a new one for p.
Keeps(q, r, p) == \A j \in DOMAIN r : r[j] = New(p) \/ \E k \in DOMAIN q : Stays(r[j], q[k])

LEMMA KeptBounded ==
  ASSUME NEW q, NEW r, NEW b, NEW H, NEW G, NEW c \in Nat, NEW d \in {c, c + 1}, NEW p, Keeps(q, r, p),
         Bounded(q, b, H, G, c), p.type \in {"PUBLISH", "PUBREL"} => p.val \in 0..d
  PROVE  Bounded(r, b, H, G, d)
<1>1. 0..c \subseteq 0..d
  OBVIOUS
<1>2. \A j \in DOMAIN r : r[j].packet = p \/ \E k \in DOMAIN q : r[j].packet = q[k].packet
  BY DEF Keeps, Stays, New
<1>3. PICK C, D : C = 0..c /\ D = 0..d
  OBVIOUS
<1>4. \A j \in DOMAIN r : r[j].packet.type \in {"PUBLISH", "PUBREL"} => r[j].packet.val \in D
  BY <1>1, <1>2, <1>3 DEF Bounded
<1>5. /\ \A n \in DOMAIN b : b[n].type = "PUBLISH" => b[n].val \in D
      /\ \A h \in H : h.val \in D
      /\ \A j \in DOMAIN G : G[j].val \in D
  BY <1>1, <1>3 DEF Bounded
<1> QED BY <1>3, <1>4, <1>5 DEF Bounded

LEMMA KeptZeros ==
  ASSUME NEW q, NEW r, NEW b, NEW H, NEW G, NEW c \in Nat, NEW p, Keeps(q, r, p),
         Bounded(q, b, H, G, c), p.type = "PUBLISH" => p.val = c + 1, Zeros(q, b, G)
  PROVE  Zeros(r, b, G)
<1>1. SUFFICES ASSUME NEW k \in DOMAIN r, AtQos(r[k].packet, 0)
               PROVE  /\ r[k].state # "AWAITING_ACK"
                      /\ r[k].state = "UNSENT" =>
                           /\ \A j \in DOMAIN G : G[j].qos = 0 => G[j].val < r[k].packet.val
                           /\ \A n \in DOMAIN b : AtQos(b[n], 0) => b[n].val < r[k].packet.val
  BY DEF Zeros
<1>2. CASE r[k] = New(p)
  <2>1. r[k].packet = p /\ r[k].state = "UNSENT" /\ p.val = c + 1
    BY <1>1, <1>2 DEF New, AtQos
  <2>2. \A j \in DOMAIN G : G[j].val < p.val
    <3>1. \A j \in DOMAIN G : G[j].val \in 0..c
      BY DEF Bounded
    <3> QED BY <2>1, <3>1
  <2>3. \A n \in DOMAIN b : AtQos(b[n], 0) => b[n].val < p.val
    <3>1. \A n \in DOMAIN b : AtQos(b[n], 0) => b[n].val \in 0..c
      BY DEF Bounded, AtQos
    <3> QED BY <2>1, <3>1
  <2> QED BY <2>1, <2>2, <2>3
<1>3. ASSUME NEW m \in DOMAIN q, Stays(r[k], q[m])
      PROVE  /\ r[k].state # "AWAITING_ACK"
             /\ r[k].state = "UNSENT" =>
                  /\ \A j \in DOMAIN G : G[j].qos = 0 => G[j].val < r[k].packet.val
                  /\ \A n \in DOMAIN b : AtQos(b[n], 0) => b[n].val < r[k].packet.val
  <2>1. r[k].packet = q[m].packet /\ (r[k].state = q[m].state \/ r[k].state = "COMPLETE")
    BY <1>3 DEF Stays
  <2> QED BY <1>1, <2>1 DEF Zeros
<1> QED BY <1>2, <1>3 DEF Keeps

LEMMA KeptOnes ==
  ASSUME NEW q, NEW r, NEW b, NEW H, NEW G, NEW c \in Nat, NEW p, Keeps(q, r, p),
         Bounded(q, b, H, G, c), p.type = "PUBLISH" => p.val = c + 1, Ones(q, b, G)
  PROVE  Ones(r, b, G)
<1>1. ASSUME NEW k \in DOMAIN r, AtQos(r[k].packet, 1)
      PROVE  /\ \A j \in DOMAIN G : (G[j].qos = 1 /\ r[k].packet.val < G[j].val) => Has(G, r[k].packet.val)
             /\ \A m \in DOMAIN b : (AtQos(b[m], 1) /\ r[k].packet.val < b[m].val)
                                      => Earlier(b, G, r[k].packet.val, m)
             /\ r[k].state # "UNSENT" => Earlier(b, G, r[k].packet.val, Len(b) + 1)
  <2>1. CASE r[k] = New(p)
    <3>1. r[k].packet = p /\ r[k].state = "UNSENT" /\ p.val = c + 1
      BY <1>1, <2>1 DEF New, AtQos
    <3>2. \A j \in DOMAIN G : ~(p.val < G[j].val)
      <4>1. \A j \in DOMAIN G : G[j].val \in 0..c
        BY DEF Bounded
      <4> QED BY <3>1, <4>1
    <3>3. \A n \in DOMAIN b : AtQos(b[n], 1) => ~(p.val < b[n].val)
      <4>1. \A n \in DOMAIN b : AtQos(b[n], 1) => b[n].val \in 0..c
        BY DEF Bounded, AtQos
      <4> QED BY <3>1, <4>1
    <3> QED BY <3>1, <3>2, <3>3
  <2>2. ASSUME NEW o \in DOMAIN q, Stays(r[k], q[o])
        PROVE  /\ \A j \in DOMAIN G : (G[j].qos = 1 /\ r[k].packet.val < G[j].val) => Has(G, r[k].packet.val)
               /\ \A m \in DOMAIN b : (AtQos(b[m], 1) /\ r[k].packet.val < b[m].val)
                                        => Earlier(b, G, r[k].packet.val, m)
               /\ r[k].state # "UNSENT" => Earlier(b, G, r[k].packet.val, Len(b) + 1)
    <3>1. r[k].packet = q[o].packet /\ (r[k].state # "UNSENT" => q[o].state # "UNSENT")
      BY <1>1, <2>2 DEF Stays
    <3> QED BY <1>1, <3>1 DEF Ones
  <2> QED BY <2>1, <2>2 DEF Keeps
<1> QED BY <1>1 DEF Ones

\* MQTT_CLIENT_TRY_PACK: a packet joins the queue behind the others.
LEMMA PackedStays ==
  ASSUME NEW q, QueueTyped(q), NEW p, NEW n, NEW r, Packed(q, p, n, r)
  PROVE  Keeps(q, r, p)
<1>1. \A j \in DOMAIN r : (\E k \in DOMAIN q : r[j] = q[k]) \/ r[j] = New(p)
  BY PackedIndices
<1> QED BY <1>1 DEF Keeps, Stays

LEMMA PackedSorted ==
  ASSUME NEW q, QueueTyped(q), NEW p, NEW n, NEW r, Packed(q, p, n, r), Sorted(q),
         NEW b, NEW H, NEW G, NEW c \in Nat, Bounded(q, b, H, G, c), p.type = "PUBLISH" => p.val = c + 1
  PROVE  Sorted(r)
<1>1. SUFFICES ASSUME NEW j \in DOMAIN r, NEW k \in DOMAIN r, j < k, r[j].packet.type = "PUBLISH",
                      r[k].packet.type = "PUBLISH"
               PROVE  r[j].packet.val < r[k].packet.val
  BY DEF Sorted
<1>2. /\ n \in Nat /\ j \in Nat /\ k \in Nat
      /\ j + n \in DOMAIN q /\ r[j] = q[j + n]
      /\ (k + n \in DOMAIN q /\ r[k] = q[k + n]) \/ r[k] = New(p)
  BY <1>1, PackedIndices
<1>3. CASE k + n \in DOMAIN q /\ r[k] = q[k + n]
  <2>1. j + n < k + n
    BY <1>1, <1>2
  <2> QED BY <1>1, <1>2, <1>3, <2>1 DEF Sorted
<1>4. CASE r[k] = New(p)
  <2>1. r[k].packet = p /\ p.val = c + 1
    BY <1>1, <1>4 DEF New
  <2>2. r[j].packet.val \in 0..c
    BY <1>1, <1>2 DEF Bounded
  <2>3. PICK v : v = r[j].packet.val
    OBVIOUS
  <2>4. v < c + 1
    BY <2>2, <2>3
  <2> QED BY <2>1, <2>3, <2>4
<1> QED BY <1>2, <1>3, <1>4

\* A publish with an identifier of its own joins them, or a PUBREL before which those of
\* all earlier publishes are there.
FollowsLive(q, b, H, c, p) ==
  /\ p.type = "PUBLISH" => /\ p.val = c + 1
                           /\ \A k \in DOMAIN q : q[k].packet.pid # p.pid
                           /\ \A n \in DOMAIN b : b[n].type = "PUBREL" => b[n].pid # p.pid
  /\ p.type = "PUBREL" => \A y \in Live(q, b, H) : /\ y.val < p.val => HasRelease(q, y.pid)
                                                   /\ y.pid = p.pid => y.val = p.val

LEMMA LiveBounded ==
  ASSUME NEW q, NEW b, NEW H, NEW G, NEW c, Bounded(q, b, H, G, c)
  PROVE  \A y \in Live(q, b, H) : y.val \in 0..c
BY DEF Live, Bounded, IsQos2, AtQos2

LEMMA PackedTwos ==
  ASSUME NEW q, QueueTyped(q), NEW p, NEW n, NEW r, Packed(q, p, n, r),
         NEW b, NEW H, NEW G, NEW c \in Nat, Bounded(q, b, H, G, c), FollowsLive(q, b, H, c, p), Twos(q, b, H, G)
  PROVE  Twos(r, b, H, G)
<1>1. /\ n \in Nat /\ Len(q) \in Nat /\ DOMAIN q = 1..Len(q)
      /\ \A j \in DOMAIN r : /\ j \in Nat
                             /\ \/ j + n \in DOMAIN q /\ r[j] = q[j + n]
                                \/ j = Len(q) - n + 1 /\ r[j] = New(p)
      /\ \A k \in DOMAIN q : n < k => k - n \in DOMAIN r /\ r[k - n] = q[k]
      /\ \A k \in DOMAIN q : q[k].state # "COMPLETE" => n < k
      /\ \A j, k \in DOMAIN r : (j # k /\ k = Len(q) - n + 1) => j < k
  BY PackedIndices
<1>2. New(p).packet = p /\ New(p).state = "UNSENT"
  BY DEF New
<1> DEFINE L == Live(q, b, H)
           M == Live(r, b, H)
<1>3. \A y \in M : y \in L \/ (y = p /\ p.type = "PUBLISH" /\ p.val = c + 1)
  <2>1. \A j \in DOMAIN r : (\E k \in DOMAIN q : r[j] = q[k]) \/ r[j] = New(p)
    BY <1>1
  <2> QED BY <1>2, <2>1 DEF Live, IsQos2, FollowsLive
<1>4. \A y \in L : y.val \in 0..c
  BY LiveBounded
<1>5. \A y, z \in M : /\ y.val \in 0..(c + 1)
                      /\ y.val < z.val => y \in L
                      /\ (y.val = z.val /\ y \notin L) => z \notin L
  <2>1. SUFFICES ASSUME NEW y \in M, NEW z \in M
                 PROVE  /\ y.val \in 0..(c + 1)
                        /\ y.val < z.val => y \in L
                        /\ (y.val = z.val /\ y \notin L) => z \notin L
    OBVIOUS
  <2>2. (y \in L /\ y.val \in 0..c) \/ (y \notin L /\ y.val = c + 1)
    BY <1>3, <1>4
  <2>3. (z \in L /\ z.val \in 0..c) \/ (z \notin L /\ z.val = c + 1)
    BY <1>3, <1>4
  <2>4. PICK v, w : v = y.val /\ w = z.val
    OBVIOUS
  <2>5. /\ v \in 0..c \/ v = c + 1
        /\ w \in 0..c \/ w = c + 1
    BY <2>2, <2>3, <2>4
  <2>6. v \in 0..(c + 1) /\ (v = c + 1 => ~(v < w)) /\ (w \in 0..c => w # c + 1)
    BY <2>5
  <2> QED BY <2>2, <2>3, <2>4, <2>6
<1>6. \A j \in DOMAIN r : r[j].packet.type = "PUBREL" =>
        \/ j + n \in DOMAIN q /\ r[j] = q[j + n]
        \/ j = Len(q) - n + 1 /\ r[j] = New(p) /\ p.type = "PUBREL"
  BY <1>1, <1>2
<1> HIDE DEF L, M
<1>7. ASSUME NEW y \in M, NEW j \in DOMAIN G, G[j].qos = 2
      PROVE  G[j].val < y.val
  <2>1. CASE y \in L
    BY <1>7, <2>1 DEF L, Twos
  <2>2. CASE y.val = c + 1
    <3>1. G[j].val \in 0..c
      BY DEF Bounded
    <3>2. PICK g : g = G[j].val
      OBVIOUS
    <3>3. g < c + 1
      BY <3>1, <3>2
    <3> QED BY <2>2, <3>2, <3>3
  <2> QED BY <1>3, <2>1, <2>2
<1>8. ASSUME NEW y \in M, NEW z \in M, y.val = z.val
      PROVE  y = z
  <2>1. CASE y \in L /\ z \in L
    BY <1>8, <2>1 DEF L, Twos
  <2>2. CASE y \notin L
    BY <1>3, <1>5, <1>8, <2>2
  <2>3. CASE z \notin L
    BY <1>3, <1>5, <1>8, <2>3
  <2> QED BY <2>1, <2>2, <2>3
<1>9. ASSUME NEW y \in L, NEW j \in DOMAIN q, Is(q[j], "PUBREL", y.pid)
      PROVE  j - n \in DOMAIN r /\ Is(r[j - n], "PUBREL", y.pid)
  <2>1. q[j].state # "COMPLETE"
    BY <1>9 DEF L, Twos, Is
  <2> QED BY <1>1, <1>9, <2>1
<1>10. ASSUME NEW y \in M, NEW k \in DOMAIN r, r[k].packet.type = "PUBREL", y.val < r[k].packet.val
       PROVE  ReleasedBefore(r, y.pid, k)
  <2>1. CASE k + n \in DOMAIN q /\ r[k] = q[k + n]
    <3>1. y \in L
      <4>1. r[k].packet.val \in 0..c
        BY <1>10, <2>1 DEF Bounded
      <4>2. PICK v : v = r[k].packet.val
        OBVIOUS
      <4>3. v \in 0..c /\ y.val < v
        BY <1>10, <4>1, <4>2
      <4>4. y.val # c + 1
        BY <4>3
      <4> QED BY <1>3, <4>4
    <3>2. ReleasedBefore(q, y.pid, k + n)
      BY <1>10, <2>1, <3>1 DEF L, Twos
    <3>3. PICK j \in DOMAIN q : j < k + n /\ Is(q[j], "PUBREL", y.pid)
      BY <3>2 DEF ReleasedBefore
    <3>4. j - n \in DOMAIN r /\ Is(r[j - n], "PUBREL", y.pid)
      BY <1>9, <3>1, <3>3
    <3>5. j - n < k
      <4>1. j \in Int /\ k \in Int /\ n \in Int /\ j < k + n
        BY <1>1, <3>3
      <4> QED BY ONLY <4>1
    <3> QED BY <3>4, <3>5 DEF ReleasedBefore
  <2>2. CASE k = Len(q) - n + 1 /\ r[k] = New(p) /\ p.type = "PUBREL"
    <3>1. y \in L /\ y.val < p.val
      BY <1>2, <1>3, <1>10, <2>2
    <3>2. HasRelease(q, y.pid)
      BY <2>2, <3>1 DEF L, FollowsLive
    <3>3. PICK j \in DOMAIN q : Is(q[j], "PUBREL", y.pid)
      BY <3>2 DEF HasRelease
    <3>4. j - n \in DOMAIN r /\ Is(r[j - n], "PUBREL", y.pid)
      BY <1>9, <3>1, <3>3
    <3>5. j - n # k
      <4>1. j \in 1..Len(q) /\ Len(q) \in Nat /\ n \in Nat /\ k = Len(q) - n + 1
        BY <1>1, <2>2
      <4>2. PICK l : l = Len(q)
        OBVIOUS
      <4>3. j \in 1..l /\ l \in Nat /\ n \in Nat /\ k = l - n + 1
        BY <4>1, <4>2
      <4> QED BY ONLY <4>3
    <3>6. j - n < k
      BY <1>1, <2>2, <3>4, <3>5
    <3> QED BY <3>4, <3>6 DEF ReleasedBefore
  <2> QED BY <1>6, <1>10, <2>1, <2>2
<1>11. ASSUME NEW y \in M, NEW k \in DOMAIN r, r[k].packet.type = "PUBREL", y.pid = r[k].packet.pid
       PROVE  /\ y.val = r[k].packet.val /\ r[k].state # "COMPLETE"
              /\ r[k].state # "UNSENT" => Freed(b, y.pid, Len(b) + 1)
  <2>1. y \in L
    <3>1. CASE y = p /\ p.type = "PUBLISH"
      <4>1. k + n \in DOMAIN q /\ r[k] = q[k + n]
        BY <1>6, <1>11, <3>1
      <4> QED BY <1>11, <3>1, <4>1 DEF FollowsLive
    <3> QED BY <1>3, <3>1
  <2>2. CASE k + n \in DOMAIN q /\ r[k] = q[k + n]
    BY <1>11, <2>1, <2>2 DEF L, Twos
  <2>3. CASE r[k] = New(p) /\ p.type = "PUBREL"
    BY <1>2, <1>11, <2>1, <2>3 DEF L, FollowsLive
  <2> QED BY <1>6, <1>11, <2>2, <2>3
<1>12. ASSUME NEW y \in M, NEW z \in M, NEW m \in DOMAIN b, b[m].type = "PUBREL", b[m].pid = z.pid, y.val < z.val
       PROVE  Freed(b, y.pid, m)
  <2>1. y \in L
    BY <1>5, <1>12
  <2>2. z \in L
    BY <1>3, <1>12 DEF FollowsLive
  <2> QED BY <1>12, <2>1, <2>2 DEF L, Twos
<1> QED BY <1>7, <1>8, <1>10, <1>11, <1>12 DEF M, Twos

\* Messages change their state where they are.
LEMMA StayingKeeps ==
  ASSUME NEW q, NEW r, DOMAIN r = DOMAIN q, \A k \in DOMAIN q : Stays(r[k], q[k]), NEW p
  PROVE  Keeps(q, r, p)
BY DEF Keeps

LEMMA StayingSorted ==
  ASSUME NEW q, NEW r, DOMAIN r = DOMAIN q, \A k \in DOMAIN q : r[k].packet = q[k].packet, Sorted(q)
  PROVE  Sorted(r)
BY DEF Sorted

LEMMA StayingTwos ==
  ASSUME NEW q, NEW r, DOMAIN r = DOMAIN q, \A k \in DOMAIN q : Stays(r[k], q[k]),
         NEW b, NEW H, NEW G, Twos(q, b, H, G),
         \A k \in DOMAIN q : q[k].packet.type = "PUBREL" =>
           \/ r[k].state = q[k].state
           \/ \A y \in Live(r, b, H) : y.pid # q[k].packet.pid
  PROVE  Twos(r, b, H, G) /\ Live(r, b, H) \subseteq Live(q, b, H)
<1> DEFINE L == Live(q, b, H)
           M == Live(r, b, H)
<1>1. \A k \in DOMAIN q : r[k].packet = q[k].packet /\ (r[k].state # "COMPLETE" => q[k].state # "COMPLETE")
  BY DEF Stays
<1>2. M \subseteq L
  BY <1>1 DEF Live, IsQos2
<1>3. \A pid, k : ReleasedBefore(q, pid, k) => ReleasedBefore(r, pid, k)
  BY <1>1 DEF ReleasedBefore, Is
<1> HIDE DEF L, M
<1>4. ASSUME NEW y \in M, NEW k \in DOMAIN r, r[k].packet.type = "PUBREL"
      PROVE  /\ y.val < r[k].packet.val => ReleasedBefore(r, y.pid, k)
             /\ y.pid = r[k].packet.pid =>
                  /\ y.val = r[k].packet.val /\ r[k].state # "COMPLETE"
                  /\ r[k].state # "UNSENT" => Freed(b, y.pid, Len(b) + 1)
  <2>1. q[k].packet.type = "PUBREL" /\ r[k].packet = q[k].packet /\ y \in L
    BY <1>1, <1>2, <1>4
  <2>2. y.val < r[k].packet.val => ReleasedBefore(r, y.pid, k)
    BY <1>3, <2>1 DEF L, Twos
  <2>3. y.pid = r[k].packet.pid => r[k].state = q[k].state
    BY <2>1 DEF M
  <2> QED BY <2>1, <2>2, <2>3 DEF L, Twos
<1>5. /\ \A y \in M, j \in DOMAIN G : G[j].qos = 2 => G[j].val < y.val
      /\ \A y, z \in M : y.val = z.val => y = z
      /\ \A y, z \in M, n \in DOMAIN b :
           (b[n].type = "PUBREL" /\ b[n].pid = z.pid /\ y.val < z.val) => Freed(b, y.pid, n)
  BY <1>2 DEF L, Twos
<1> QED BY <1>2, <1>4, <1>5 DEF L, M, Twos

-----------------------------------------------------------------------------
(* A packet joins those to the broker.                                     *)

\* The message at i of q is sent, and its packet or a part of it follows the others.
Written(q, r, k, b, d, x) ==
  /\ QueueTyped(q) /\ k \in DOMAIN q /\ DOMAIN r = DOMAIN q
  /\ \A j \in DOMAIN q : r[j].packet = q[j].packet /\ (j # k => r[j] = q[j])
  /\ r[k].state = AfterSend(q[k].packet) /\ q[k].state # "COMPLETE"
  /\ b \in Seq(Sendable) /\ d = Append(b, x) /\ (x = q[k].packet \/ x.type = "GARBLED")
  /\ Sorted(q) /\ \A j \in DOMAIN q : (j < k /\ q[j].state = "UNSENT") => IsQos2(q[j])

LEMMA WrittenParts ==
  ASSUME NEW q, NEW r, NEW k, NEW b, NEW d, NEW x, Written(q, r, k, b, d, x)
  PROVE  /\ Len(b) \in Nat /\ DOMAIN b = 1..Len(b) /\ DOMAIN d = 1..(Len(b) + 1) /\ Len(d) = Len(b) + 1
         /\ d[Len(b) + 1] = x /\ Len(b) + 1 \in DOMAIN d
         /\ \A n \in DOMAIN b : n \in DOMAIN d /\ d[n] = b[n] /\ n < Len(b) + 1 /\ n < Len(d) + 1
         /\ \A n \in DOMAIN d : (n \in DOMAIN b /\ d[n] = b[n]) \/ (n = Len(b) + 1 /\ d[n] = x)
         /\ \A m, n \in DOMAIN d : m < n => m \in DOMAIN b /\ d[m] = b[m]
         /\ \A j, m \in DOMAIN q : j < m \/ m < j \/ j = m
<1>1. b \in Seq(Sendable) /\ d = Append(b, x) /\ q \in Seq(Queued)
  BY DEF Written, QueueTyped
<1>2. /\ Len(b) \in Nat /\ DOMAIN b = 1..Len(b) /\ DOMAIN d = 1..(Len(b) + 1)
      /\ d[Len(b) + 1] = x /\ Len(b) + 1 \in DOMAIN d
      /\ \A n \in DOMAIN b : n \in DOMAIN d /\ d[n] = b[n]
      /\ \A n \in DOMAIN d : (n \in DOMAIN b /\ d[n] = b[n]) \/ (n = Len(b) + 1 /\ d[n] = x)
      /\ \A m, n \in DOMAIN d : m < n => m \in DOMAIN b /\ d[m] = b[m]
  BY <1>1, AppendedTo
<1>3. Len(d) = Len(b) + 1
  BY <1>1
<1>4. \A n \in DOMAIN b : n < Len(b) + 1 /\ n < Len(d) + 1
  BY <1>2, <1>3
<1>5. \A j, m \in DOMAIN q : j < m \/ m < j \/ j = m
  <2>1. DOMAIN q = 1..Len(q) /\ Len(q) \in Nat
    BY <1>1, QueueParts
  <2> QED BY <2>1
<1> QED BY <1>2, <1>3, <1>4, <1>5

LEMMA WrittenZeros ==
  ASSUME NEW q, NEW r, NEW k, NEW b, NEW d, NEW x, Written(q, r, k, b, d, x), NEW G, Zeros(q, b, G)
  PROVE  Zeros(r, d, G)
<1>1. /\ \A n \in DOMAIN d : (n \in DOMAIN b /\ d[n] = b[n]) \/ d[n] = x
      /\ \A m, n \in DOMAIN d : m < n => m \in DOMAIN b /\ d[m] = b[m]
      /\ \A j, m \in DOMAIN q : j < m \/ m < j \/ j = m
  BY WrittenParts
<1>2. /\ k \in DOMAIN q /\ DOMAIN r = DOMAIN q
      /\ \A j \in DOMAIN q : r[j].packet = q[j].packet /\ (j # k => r[j] = q[j])
      /\ r[k].state = AfterSend(q[k].packet) /\ q[k].state # "COMPLETE"
      /\ x = q[k].packet \/ x.type = "GARBLED"
      /\ Sorted(q) /\ \A j \in DOMAIN q : (j < k /\ q[j].state = "UNSENT") => IsQos2(q[j])
  BY DEF Written
<1>3. AtQos(q[k].packet, 0) => q[k].state = "UNSENT" /\ r[k].state = "COMPLETE"
  <2>1. q[k].state \in {"UNSENT", "AWAITING_ACK", "COMPLETE"}
    <3>1. q[k] \in Queued
      BY QueueParts DEF Written, QueueTyped
    <3> QED BY <3>1, MessageParts DEF States
  <2> QED BY <1>2, <2>1 DEF Zeros, AfterSend, AtQos
<1>4. AtQos(x, 0) => x = q[k].packet /\ AtQos(q[k].packet, 0)
  BY <1>2 DEF AtQos
<1>5. ASSUME AtQos(x, 0)
      PROVE  /\ \A n \in DOMAIN b : AtQos(b[n], 0) => b[n].val < x.val
             /\ \A j \in DOMAIN G : G[j].qos = 0 => G[j].val < x.val
  BY <1>2, <1>3, <1>4, <1>5 DEF Zeros
<1>6. ASSUME NEW m \in DOMAIN d, NEW n \in DOMAIN d, m < n, AtQos(d[m], 0), AtQos(d[n], 0)
      PROVE  d[m].val < d[n].val
  <2>1. m \in DOMAIN b /\ d[m] = b[m]
    BY <1>1, <1>6
  <2>2. CASE n \in DOMAIN b /\ d[n] = b[n]
    BY <1>6, <2>1, <2>2 DEF Zeros
  <2>3. CASE d[n] = x
    BY <1>5, <1>6, <2>1, <2>3
  <2> QED BY <1>1, <2>2, <2>3
<1>7. ASSUME NEW j \in DOMAIN G, NEW n \in DOMAIN d, G[j].qos = 0, AtQos(d[n], 0)
      PROVE  G[j].val < d[n].val
  BY <1>1, <1>5, <1>7 DEF Zeros
<1>8. ASSUME NEW m \in DOMAIN r, AtQos(r[m].packet, 0)
      PROVE  /\ r[m].state # "AWAITING_ACK"
             /\ r[m].state = "UNSENT" =>
                  /\ \A j \in DOMAIN G : G[j].qos = 0 => G[j].val < r[m].packet.val
                  /\ \A n \in DOMAIN d : AtQos(d[n], 0) => d[n].val < r[m].packet.val
  <2>1. CASE m = k
    BY <1>2, <1>3, <1>8, <2>1
  <2>2. CASE m # k
    <3>1. r[m] = q[m] /\ m \in DOMAIN q
      BY <1>2, <2>2
    <3>2. ASSUME q[m].state = "UNSENT", AtQos(x, 0)
          PROVE  x.val < q[m].packet.val
      <4>1. ~(m < k)
        BY <1>2, <1>8, <3>1, <3>2 DEF AtQos, IsQos2
      <4>2. k < m
        BY <1>1, <1>2, <2>2, <3>1, <4>1
      <4> QED BY <1>2, <1>4, <1>8, <3>1, <3>2, <4>2 DEF Sorted, AtQos
    <3> QED BY <1>1, <1>8, <3>1, <3>2 DEF Zeros
  <2> QED BY <2>1, <2>2
<1> QED BY <1>6, <1>7, <1>8 DEF Zeros

LEMMA WrittenOnes ==
  ASSUME NEW q, NEW r, NEW k, NEW b, NEW d, NEW x, Written(q, r, k, b, d, x), NEW G, Ones(q, b, G)
  PROVE  Ones(r, d, G)
<1>1. /\ Len(d) = Len(b) + 1 /\ d[Len(b) + 1] = x /\ Len(b) + 1 \in DOMAIN d
      /\ \A n \in DOMAIN b : n \in DOMAIN d /\ d[n] = b[n] /\ n < Len(d) + 1
      /\ \A n \in DOMAIN d : (n \in DOMAIN b /\ d[n] = b[n]) \/ (n = Len(b) + 1 /\ d[n] = x)
      /\ \A m, n \in DOMAIN d : m < n => m \in DOMAIN b /\ d[m] = b[m]
      /\ \A j, m \in DOMAIN q : j < m \/ m < j \/ j = m
  BY WrittenParts
<1>2. /\ k \in DOMAIN q /\ DOMAIN r = DOMAIN q
      /\ \A j \in DOMAIN q : r[j].packet = q[j].packet /\ (j # k => r[j] = q[j])
      /\ x = q[k].packet \/ x.type = "GARBLED"
      /\ Sorted(q) /\ \A j \in DOMAIN q : (j < k /\ q[j].state = "UNSENT") => IsQos2(q[j])
  BY DEF Written
<1>3. \A v, n : Earlier(b, G, v, n) => Earlier(d, G, v, n)
  BY <1>1 DEF Earlier
<1>4. \A v : Earlier(b, G, v, Len(b) + 1) => Earlier(d, G, v, Len(d) + 1)
  BY <1>1 DEF Earlier
<1>5. AtQos(x, 1) => x = q[k].packet /\ AtQos(q[k].packet, 1)
  BY <1>2 DEF AtQos
<1>6. ASSUME NEW j \in DOMAIN G, G[j].qos = 1
      PROVE  /\ \A n \in DOMAIN d : (AtQos(d[n], 1) /\ d[n].val < G[j].val) => Has(G, d[n].val)
             /\ \A m \in DOMAIN r : (AtQos(r[m].packet, 1) /\ r[m].packet.val < G[j].val) => Has(G, r[m].packet.val)
  BY <1>1, <1>2, <1>5, <1>6 DEF Ones
<1>7. ASSUME NEW m \in DOMAIN d, AtQos(d[m], 1), NEW n \in DOMAIN d, m < n, AtQos(d[n], 1), d[n].val < d[m].val
      PROVE  Earlier(d, G, d[n].val, m)
  <2>1. m \in DOMAIN b /\ d[m] = b[m]
    BY <1>1, <1>7
  <2>2. Earlier(b, G, d[n].val, m)
    BY <1>1, <1>2, <1>5, <1>7, <2>1 DEF Ones
  <2> QED BY <1>3, <2>2
<1>8. ASSUME NEW m \in DOMAIN d, AtQos(d[m], 1), NEW o \in DOMAIN r, AtQos(r[o].packet, 1),
             r[o].packet.val < d[m].val
      PROVE  Earlier(d, G, r[o].packet.val, m)
  <2>1. o \in DOMAIN q /\ r[o].packet = q[o].packet
    BY <1>2
  <2>2. CASE m \in DOMAIN b /\ d[m] = b[m]
    <3>1. Earlier(b, G, q[o].packet.val, m)
      BY <1>8, <2>1, <2>2 DEF Ones
    <3> QED BY <1>3, <2>1, <3>1
  <2>3. CASE m = Len(b) + 1 /\ d[m] = x
    <3>1. x = q[k].packet /\ AtQos(q[k].packet, 1)
      BY <1>5, <1>8, <2>3
    <3>2. q[o].packet.val \in Nat /\ q[k].packet.val \in Nat
      <4>1. q[o] \in Queued /\ q[k] \in Queued
        BY <1>2, <2>1, QueueParts DEF Written, QueueTyped
      <4> QED BY <4>1, MessageParts DEF PacketsOf
    <3>3. q[o].packet.val < q[k].packet.val
      BY <1>8, <2>1, <2>3, <3>1
    <3>4. o # k /\ ~(q[k].packet.val < q[o].packet.val)
      <4>1. PICK v, w : v = q[o].packet.val /\ w = q[k].packet.val
        OBVIOUS
      <4>2. v \in Nat /\ w \in Nat /\ v < w
        BY <3>2, <3>3, <4>1
      <4>3. v # w /\ ~(w < v)
        BY ONLY <4>2
      <4> QED BY <4>1, <4>3
    <3>5. o < k
      BY <1>1, <1>2, <1>8, <2>1, <3>1, <3>4 DEF Sorted, AtQos
    <3>6. q[o].state # "UNSENT"
      BY <1>2, <1>8, <2>1, <3>5 DEF AtQos, IsQos2
    <3>7. Earlier(b, G, q[o].packet.val, Len(b) + 1)
      BY <1>8, <2>1, <3>6 DEF Ones
    <3> QED BY <1>3, <2>1, <2>3, <3>7
  <2> QED BY <1>1, <2>2, <2>3
<1>9. ASSUME NEW o \in DOMAIN r, AtQos(r[o].packet, 1), r[o].state # "UNSENT"
      PROVE  Earlier(d, G, r[o].packet.val, Len(d) + 1)
  <2>1. CASE o = k
    <3>1. Len(b) + 1 < Len(d) + 1
      <4>1. Len(b) \in Nat
        BY WrittenParts
      <4> QED BY <1>1, <4>1
    <3>2. x.type = "GARBLED" \/ (AtQos(x, 1) /\ x.val = r[o].packet.val)
      BY <1>2, <1>9, <2>1
    <3> QED BY <1>1, <3>1, <3>2 DEF Earlier
  <2>2. CASE o # k
    BY <1>2, <1>4, <1>9, <2>2 DEF Ones
  <2> QED BY <2>1, <2>2
<1> QED BY <1>6, <1>7, <1>8, <1>9 DEF Ones

LEMMA WrittenTwos ==
  ASSUME NEW q, NEW r, NEW k, NEW b, NEW d, NEW x, Written(q, r, k, b, d, x), NEW H, NEW G, Twos(q, b, H, G)
  PROVE  Twos(r, d, H, G)
<1>1. /\ Len(d) = Len(b) + 1 /\ d[Len(b) + 1] = x /\ Len(b) + 1 \in DOMAIN d
      /\ \A n \in DOMAIN b : n \in DOMAIN d /\ d[n] = b[n] /\ n < Len(d) + 1
      /\ \A n \in DOMAIN d : (n \in DOMAIN b /\ d[n] = b[n]) \/ (n = Len(b) + 1 /\ d[n] = x)
      /\ Len(b) + 1 < Len(d) + 1
  <2>1. Len(b) \in Nat
    BY WrittenParts
  <2> QED BY <2>1, WrittenParts
<1>2. /\ k \in DOMAIN q /\ DOMAIN r = DOMAIN q
      /\ \A j \in DOMAIN q : r[j].packet = q[j].packet /\ (j # k => r[j] = q[j])
      /\ q[k].state # "COMPLETE" /\ r[k].state = AfterSend(q[k].packet)
      /\ x = q[k].packet \/ x.type = "GARBLED"
      /\ \A j \in DOMAIN q : (j < k /\ q[j].state = "UNSENT") => IsQos2(q[j])
  BY DEF Written
<1> DEFINE L == Live(q, b, H)
           M == Live(r, d, H)
<1>3. M \subseteq L
  <2>1. \A n \in DOMAIN d : AtQos2(d[n]) => \/ \E m \in DOMAIN b : d[n] = b[m]
                                            \/ d[n] = q[k].packet /\ IsQos2(q[k])
    BY <1>1, <1>2 DEF AtQos2, IsQos2
  <2>2. \A j \in DOMAIN r : (IsQos2(r[j]) /\ r[j].state # "COMPLETE")
          => /\ IsQos2(q[j]) /\ q[j].state # "COMPLETE" /\ r[j].packet = q[j].packet /\ j \in DOMAIN q
    BY <1>2 DEF IsQos2
  <2>3. SUFFICES ASSUME NEW y \in M PROVE y \in L
    OBVIOUS
  <2>4. \/ y \in H
        \/ \E n \in DOMAIN d : AtQos2(d[n]) /\ y = d[n]
        \/ \E j \in DOMAIN r : IsQos2(r[j]) /\ r[j].state # "COMPLETE" /\ y = r[j].packet
    BY DEF Live
  <2>5. \/ y \in H
        \/ \E n \in DOMAIN b : AtQos2(b[n]) /\ y = b[n]
        \/ \E j \in DOMAIN q : IsQos2(q[j]) /\ q[j].state # "COMPLETE" /\ y = q[j].packet
    <3>1. ASSUME NEW n \in DOMAIN d, AtQos2(d[n]), y = d[n]
          PROVE  \/ \E m \in DOMAIN b : AtQos2(b[m]) /\ y = b[m]
                 \/ \E j \in DOMAIN q : IsQos2(q[j]) /\ q[j].state # "COMPLETE" /\ y = q[j].packet
      BY <1>2, <2>1, <3>1
    <3>2. ASSUME NEW j \in DOMAIN r, IsQos2(r[j]), r[j].state # "COMPLETE", y = r[j].packet
          PROVE  \E m \in DOMAIN q : IsQos2(q[m]) /\ q[m].state # "COMPLETE" /\ y = q[m].packet
      BY <2>2, <3>2
    <3> QED BY <2>4, <3>1, <3>2
  <2> QED BY <2>5 DEF Live
<1>4. \A pid, n : ReleasedBefore(q, pid, n) => ReleasedBefore(r, pid, n)
  BY <1>2 DEF ReleasedBefore, Is
<1>5. \A pid, n : Freed(b, pid, n) => Freed(d, pid, n)
  BY <1>1 DEF Freed
<1>6. \A pid : Freed(b, pid, Len(b) + 1) => Freed(d, pid, Len(d) + 1)
  BY <1>1 DEF Freed
<1> HIDE DEF L, M
<1>7. ASSUME NEW y \in M, NEW j \in DOMAIN r, r[j].packet.type = "PUBREL"
      PROVE  /\ y.val < r[j].packet.val => ReleasedBefore(r, y.pid, j)
             /\ y.pid = r[j].packet.pid =>
                  /\ y.val = r[j].packet.val /\ r[j].state # "COMPLETE"
                  /\ r[j].state # "UNSENT" => Freed(d, y.pid, Len(d) + 1)
  <2>1. y \in L /\ j \in DOMAIN q /\ r[j].packet = q[j].packet /\ q[j].packet.type = "PUBREL"
    BY <1>2, <1>3, <1>7
  <2>2. y.val < r[j].packet.val => ReleasedBefore(r, y.pid, j)
    BY <1>4, <2>1 DEF L, Twos
  <2>3. y.pid = r[j].packet.pid => y.val = r[j].packet.val
    BY <2>1 DEF L, Twos
  <2>4. CASE j # k
    <3>1. r[j] = q[j]
      BY <1>2, <2>1, <2>4
    <3>2. y.pid = r[j].packet.pid =>
            /\ r[j].state # "COMPLETE"
            /\ r[j].state # "UNSENT" => Freed(b, y.pid, Len(b) + 1)
      BY <2>1, <3>1 DEF L, Twos
    <3> QED BY <1>6, <2>2, <2>3, <3>2
  <2>5. CASE j = k
    <3>1. r[j].state = "AWAITING_ACK"
      BY <1>2, <2>1, <2>5 DEF AfterSend
    <3>2. y.pid = r[j].packet.pid => Freed(d, y.pid, Len(d) + 1)
      BY <1>1, <1>2, <2>1, <2>5 DEF Freed
    <3> QED BY <2>2, <2>3, <3>1, <3>2
  <2> QED BY <2>4, <2>5
<1>8. ASSUME NEW y \in M, NEW z \in M, NEW n \in DOMAIN d, d[n].type = "PUBREL", d[n].pid = z.pid, y.val < z.val
      PROVE  Freed(d, y.pid, n)
  <2>1. y \in L /\ z \in L
    BY <1>3
  <2>2. CASE n \in DOMAIN b /\ d[n] = b[n]
    <3>1. Freed(b, y.pid, n)
      BY <1>8, <2>1, <2>2 DEF L, Twos
    <3> QED BY <1>5, <3>1
  <2>3. CASE n = Len(b) + 1 /\ d[n] = x
    <3>1. x = q[k].packet /\ q[k].packet.type = "PUBREL" /\ z.pid = q[k].packet.pid
      BY <1>2, <1>8, <2>3
    <3>2. z.val = q[k].packet.val
      BY <1>2, <2>1, <3>1 DEF L, Twos
    <3>3. ReleasedBefore(q, y.pid, k)
      BY <1>2, <1>8, <2>1, <3>1, <3>2 DEF L, Twos
    <3>4. PICK j \in DOMAIN q : j < k /\ Is(q[j], "PUBREL", y.pid)
      BY <3>3 DEF ReleasedBefore
    <3>5. q[j].state # "UNSENT"
      BY <1>2, <3>4 DEF Is, IsQos2
    <3>6. Freed(b, y.pid, Len(b) + 1)
      BY <2>1, <3>4, <3>5 DEF L, Twos, Is
    <3> QED BY <1>5, <2>3, <3>6
  <2> QED BY <1>1, <2>2, <2>3
<1>9. /\ \A y \in M, j \in DOMAIN G : G[j].qos = 2 => G[j].val < y.val
      /\ \A y, z \in M : y.val = z.val => y = z
  BY <1>3 DEF L, Twos
<1> QED BY <1>7, <1>8, <1>9 DEF M, Twos

\* A part of a packet is written, or the rest of one.
LEMMA GarbledOrdered ==
  ASSUME NEW q, NEW b \in Seq(Sendable), NEW d, d = Append(b, Garbled), NEW H, NEW G, Ordered(q, b, H, G)
  PROVE  Ordered(q, d, H, G)
<1>1. /\ Len(b) \in Nat /\ Len(d) = Len(b) + 1
      /\ \A n \in DOMAIN b : n \in DOMAIN d /\ d[n] = b[n]
      /\ \A n \in DOMAIN d : (n \in DOMAIN b /\ d[n] = b[n]) \/ d[n] = Garbled
      /\ \A m, n \in DOMAIN d : m < n => m \in DOMAIN b /\ d[m] = b[m]
      /\ \A n \in DOMAIN b : n < Len(b) + 1 /\ n < Len(d) + 1
  <2>1. Len(b) \in Nat /\ DOMAIN b = 1..Len(b) /\ Len(d) = Len(b) + 1
    BY AppendedTo
  <2>2. \A n \in DOMAIN b : n < Len(b) + 1 /\ n < Len(d) + 1
    BY <2>1
  <2> QED BY <2>1, <2>2, AppendedTo
<1>2. Garbled.type = "GARBLED" /\ ~AtQos2(Garbled) /\ \A qos : ~AtQos(Garbled, qos)
  BY GarbledTyped DEF AtQos
<1>3. \A n \in DOMAIN d : d[n].type # "GARBLED" => n \in DOMAIN b /\ d[n] = b[n]
  BY <1>1, <1>2
<1>4. Zeros(q, d, G)
  BY <1>1, <1>2 DEF Ordered, Zeros
<1>5. Ones(q, d, G)
  <2>1. \A v, n : Earlier(b, G, v, n) => Earlier(d, G, v, n)
    BY <1>1 DEF Earlier
  <2>2. \A v : Earlier(b, G, v, Len(b) + 1) => Earlier(d, G, v, Len(d) + 1)
    BY <1>1 DEF Earlier
  <2>3. \A n \in DOMAIN d : AtQos(d[n], 1) => n \in DOMAIN b /\ d[n] = b[n]
    BY <1>1, <1>2
  <2> QED BY <2>1, <2>2, <2>3 DEF Ordered, Ones
<1>6. Twos(q, d, H, G)
  <2>1. \A pid, n : Freed(b, pid, n) => Freed(d, pid, n)
    BY <1>1 DEF Freed
  <2>2. \A pid : Freed(b, pid, Len(b) + 1) => Freed(d, pid, Len(d) + 1)
    BY <1>1 DEF Freed
  <2>3. Live(q, d, H) = Live(q, b, H)
    <3>1. {d[n] : n \in {m \in DOMAIN d : AtQos2(d[m])}} = {b[n] : n \in {m \in DOMAIN b : AtQos2(b[m])}}
      BY <1>1, <1>2
    <3> QED BY <3>1 DEF Live
  <2>4. \A n \in DOMAIN d : d[n].type = "PUBREL" => n \in DOMAIN b /\ d[n] = b[n]
    BY <1>1, <1>2
  <2>5. PICK L : L = Live(q, b, H)
    OBVIOUS
  <2> QED BY <2>1, <2>2, <2>3, <2>4, <2>5 DEF Ordered, Twos
<1> QED BY <1>4, <1>5, <1>6 DEF Ordered

-----------------------------------------------------------------------------
(* The broker takes the first of the packets.                              *)

\* The packet x is the first of b, and the broker takes over y or nothing.
Reads(b, d, x, G, F) == /\ b \in Seq(Sendable) /\ b # <<>> /\ d = Tail(b) /\ x = b[1] /\ x.type # "GARBLED"
                        /\ G \in Seq(Sendable)
                        /\ F = G \/ \E y : F = Append(G, y)

LEMMA ReadParts ==
  ASSUME NEW b, NEW d, NEW x, NEW G, NEW F, Reads(b, d, x, G, F)
  PROVE  /\ 1 \in DOMAIN b /\ \A n \in DOMAIN b : n = 1 \/ (n - 1 \in DOMAIN d /\ d[n - 1] = b[n])
         /\ \A n \in DOMAIN d : n \in Nat /\ n + 1 \in DOMAIN b /\ 1 < n + 1 /\ d[n] = b[n + 1]
         /\ Len(b) \in Nat /\ Len(d) + 1 = Len(b)
         /\ \A n \in DOMAIN b, m \in Nat : n < m + 1 => n - 1 < m
         /\ \A j \in DOMAIN G : j \in DOMAIN F /\ F[j] = G[j]
         /\ \A y : F = Append(G, y) => (\A j \in DOMAIN F : (j \in DOMAIN G /\ F[j] = G[j]) \/ F[j] = y)
                                       /\ \E j \in DOMAIN F : F[j] = y
         /\ \A j, k \in DOMAIN F : j < k => j \in DOMAIN G /\ F[j] = G[j]
<1>1. b \in Seq(Sendable) /\ b # <<>> /\ d = Tail(b) /\ G \in Seq(Sendable)
  BY DEF Reads
<1>2. /\ 1 \in DOMAIN b /\ \A n \in DOMAIN d : n \in Nat /\ n + 1 \in DOMAIN b /\ 1 < n + 1 /\ d[n] = b[n + 1]
  BY <1>1, TailOf
<1>3. /\ Len(b) \in Nat \ {0} /\ DOMAIN b = 1..Len(b) /\ Len(d) = Len(b) - 1 /\ DOMAIN d = 1..Len(d)
  <2>1. d \in Seq(Sendable) /\ Len(d) = Len(b) - 1 /\ Len(b) \in Nat \ {0} /\ DOMAIN b = 1..Len(b)
    BY <1>1, HeadTailProperties, EmptySeq, LenProperties
  <2> QED BY <2>1, LenProperties
<1>4. Len(d) + 1 = Len(b) /\ \A n \in DOMAIN b, m \in Nat : n < m + 1 => n - 1 < m
  BY <1>3
<1>5. \A n \in DOMAIN b : n = 1 \/ (n - 1 \in DOMAIN d /\ d[n - 1] = b[n])
  <2>1. \A n \in DOMAIN b : n = 1 \/ (n - 1 \in DOMAIN d /\ (n - 1) + 1 = n)
    BY <1>3
  <2> QED BY <1>2, <2>1
<1>6. ASSUME F = G
      PROVE  /\ \A j \in DOMAIN G : j \in DOMAIN F /\ F[j] = G[j]
             /\ \A y : F = Append(G, y) => (\A j \in DOMAIN F : (j \in DOMAIN G /\ F[j] = G[j]) \/ F[j] = y)
                                           /\ \E j \in DOMAIN F : F[j] = y
             /\ \A j, k \in DOMAIN F : j < k => j \in DOMAIN G /\ F[j] = G[j]
  <2>1. \A y : F # Append(G, y)
    <3>1. Len(G) \in Nat
      BY <1>1, LenProperties
    <3>2. \A y : Len(Append(G, y)) = Len(G) + 1
      BY <1>1
    <3> QED BY <1>6, <3>1, <3>2
  <2>2. \A y : F = Append(G, y) => (\A j \in DOMAIN F : (j \in DOMAIN G /\ F[j] = G[j]) \/ F[j] = y)
                                  /\ \E j \in DOMAIN F : F[j] = y
    BY <2>1
  <2>3. /\ \A j \in DOMAIN G : j \in DOMAIN F /\ F[j] = G[j]
        /\ \A j, k \in DOMAIN F : j < k => j \in DOMAIN G /\ F[j] = G[j]
    BY <1>6
  <2> QED BY <2>2, <2>3
<1>7. ASSUME NEW y, F = Append(G, y)
      PROVE  /\ \A j \in DOMAIN G : j \in DOMAIN F /\ F[j] = G[j]
             /\ \A j \in DOMAIN F : (j \in DOMAIN G /\ F[j] = G[j]) \/ F[j] = y
             /\ \E j \in DOMAIN F : F[j] = y
             /\ \A j, k \in DOMAIN F : j < k => j \in DOMAIN G /\ F[j] = G[j]
  BY <1>1, <1>7, AppendedTo
<1>8. /\ \A j \in DOMAIN G : j \in DOMAIN F /\ F[j] = G[j]
      /\ \A y : F = Append(G, y) => (\A j \in DOMAIN F : (j \in DOMAIN G /\ F[j] = G[j]) \/ F[j] = y)
                                    /\ \E j \in DOMAIN F : F[j] = y
      /\ \A j, k \in DOMAIN F : j < k => j \in DOMAIN G /\ F[j] = G[j]
  <2>1. F = G \/ \E y : F = Append(G, y)
    BY DEF Reads
  <2>2. CASE F = G
    BY <1>6, <2>2
  <2>3. ASSUME NEW y, F = Append(G, y)
        PROVE  /\ \A j \in DOMAIN G : j \in DOMAIN F /\ F[j] = G[j]
               /\ \A j, k \in DOMAIN F : j < k => j \in DOMAIN G /\ F[j] = G[j]
    BY <1>7, <2>3
  <2> QED BY <1>7, <2>1, <2>2, <2>3
<1> QED BY <1>2, <1>3, <1>4, <1>5, <1>8

LEMMA ReadZeros ==
  ASSUME NEW b, NEW d, NEW x, NEW G, NEW F, Reads(b, d, x, G, F), NEW q, Zeros(q, b, G), InOrder(G, 0),
         \A j \in DOMAIN F : F[j].qos = 0 => \/ j \in DOMAIN G /\ F[j] = G[j]
                                             \/ F[j] = x /\ AtQos(x, 0)
  PROVE  Zeros(q, d, F) /\ InOrder(F, 0)
<1>1. /\ 1 \in DOMAIN b /\ b[1] = x
      /\ \A n \in DOMAIN d : n \in Nat /\ n + 1 \in DOMAIN b /\ 1 < n + 1 /\ d[n] = b[n + 1]
      /\ \A j, k \in DOMAIN F : j < k => j \in DOMAIN G /\ F[j] = G[j]
  <2>1. b[1] = x
    BY DEF Reads
  <2> QED BY <2>1, ReadParts
<1>2. ASSUME NEW m \in DOMAIN d, NEW n \in DOMAIN d, m < n, AtQos(d[m], 0), AtQos(d[n], 0)
      PROVE  d[m].val < d[n].val
  <2>1. m + 1 < n + 1
    BY <1>1, <1>2
  <2> QED BY <1>1, <1>2, <2>1 DEF Zeros
<1>3. ASSUME NEW j \in DOMAIN F, NEW n \in DOMAIN d, F[j].qos = 0, AtQos(d[n], 0)
      PROVE  F[j].val < d[n].val
  <2>1. n + 1 \in DOMAIN b /\ d[n] = b[n + 1] /\ 1 < n + 1
    BY <1>1
  <2>2. CASE j \in DOMAIN G /\ F[j] = G[j]
    BY <1>3, <2>1, <2>2 DEF Zeros
  <2>3. CASE F[j] = x /\ AtQos(x, 0)
    BY <1>1, <1>3, <2>1, <2>3 DEF Zeros
  <2> QED BY <1>3, <2>2, <2>3
<1>4. ASSUME NEW k \in DOMAIN q, AtQos(q[k].packet, 0)
      PROVE  /\ q[k].state # "AWAITING_ACK"
             /\ q[k].state = "UNSENT" =>
                  /\ \A j \in DOMAIN F : F[j].qos = 0 => F[j].val < q[k].packet.val
                  /\ \A n \in DOMAIN d : AtQos(d[n], 0) => d[n].val < q[k].packet.val
  BY <1>1, <1>4 DEF Zeros
<1>5. InOrder(F, 0)
  <2>1. SUFFICES ASSUME NEW j \in DOMAIN F, NEW k \in DOMAIN F, j < k, F[j].qos = 0, F[k].qos = 0
                 PROVE  F[j].val < F[k].val
    BY DEF InOrder
  <2>2. j \in DOMAIN G /\ F[j] = G[j]
    BY <1>1, <2>1
  <2>3. CASE k \in DOMAIN G /\ F[k] = G[k]
    BY <2>1, <2>2, <2>3 DEF InOrder
  <2>4. CASE F[k] = x /\ AtQos(x, 0)
    BY <1>1, <2>1, <2>2, <2>4 DEF Zeros
  <2> QED BY <2>1, <2>3, <2>4
<1> QED BY <1>2, <1>3, <1>4, <1>5 DEF Zeros

LEMMA ReadOnes ==
  ASSUME NEW b, NEW d, NEW x, NEW G, NEW F, Reads(b, d, x, G, F), NEW q, Ones(q, b, G), FirstsInOrder(G, 1),
         \A j \in DOMAIN F : F[j].qos = 1 => \/ j \in DOMAIN G /\ F[j] = G[j]
                                             \/ F[j] = x /\ AtQos(x, 1),
         AtQos(x, 1) => F = Append(G, x)
  PROVE  Ones(q, d, F) /\ FirstsInOrder(F, 1)
<1>1. /\ 1 \in DOMAIN b /\ b[1] = x /\ x.type # "GARBLED" /\ Len(b) \in Nat /\ Len(d) + 1 = Len(b)
      /\ \A n \in DOMAIN b : n = 1 \/ (n - 1 \in DOMAIN d /\ d[n - 1] = b[n])
      /\ \A n \in DOMAIN d : n \in Nat /\ n + 1 \in DOMAIN b /\ 1 < n + 1 /\ d[n] = b[n + 1]
      /\ \A n \in DOMAIN b, m \in Nat : n < m + 1 => n - 1 < m
      /\ \A j \in DOMAIN G : j \in DOMAIN F /\ F[j] = G[j]
      /\ \A j, k \in DOMAIN F : j < k => j \in DOMAIN G /\ F[j] = G[j]
      /\ AtQos(x, 1) => \E j \in DOMAIN F : F[j] = x
  <2>1. b[1] = x /\ x.type # "GARBLED"
    BY DEF Reads
  <2>2. ASSUME AtQos(x, 1)
        PROVE  \E j \in DOMAIN F : F[j] = x
    BY <2>2, ReadParts
  <2> QED BY <2>1, <2>2, ReadParts
<1>2. \A v : Has(G, v) => Has(F, v)
  BY <1>1 DEF Has
<1>3. AtQos(x, 1) => Has(F, x.val)
  BY <1>1 DEF Has, AtQos
<1>4. ASSUME NEW v, NEW m \in Nat, Earlier(b, G, v, m + 1)
      PROVE  Earlier(d, F, v, m)
  <2>1. CASE Has(G, v)
    BY <1>2, <2>1 DEF Earlier
  <2>2. ASSUME NEW n \in DOMAIN b, n < m + 1, b[n].type = "GARBLED" \/ (AtQos(b[n], 1) /\ b[n].val = v)
        PROVE  Earlier(d, F, v, m)
    <3>1. CASE n = 1
      BY <1>1, <1>3, <2>2, <3>1 DEF Earlier
    <3>2. CASE n # 1
      <4>1. n - 1 \in DOMAIN d /\ d[n - 1] = b[n] /\ n - 1 < m
        BY <1>1, <2>2, <3>2
      <4> QED BY <2>2, <4>1 DEF Earlier
    <3> QED BY <3>1, <3>2
  <2> QED BY <1>4, <2>1, <2>2 DEF Earlier
<1>5. \A v : Earlier(b, G, v, 1) => Has(G, v)
  <2>1. \A n \in DOMAIN b : ~(n < 1)
    <3>1. DOMAIN b = 1..Len(b)
      BY LenProperties DEF Reads
    <3> QED BY <3>1
  <2> QED BY <2>1 DEF Earlier
<1>6. \A v : Earlier(b, G, v, Len(b) + 1) => Earlier(d, F, v, Len(d) + 1)
  <2>1. PICK l : l = Len(b)
    OBVIOUS
  <2> QED BY <1>1, <1>4, <2>1
<1>7. ASSUME NEW j \in DOMAIN F, F[j].qos = 1
      PROVE  /\ \A n \in DOMAIN d : (AtQos(d[n], 1) /\ d[n].val < F[j].val) => Has(F, d[n].val)
             /\ \A k \in DOMAIN q : (AtQos(q[k].packet, 1) /\ q[k].packet.val < F[j].val) => Has(F, q[k].packet.val)
  <2>1. CASE j \in DOMAIN G /\ F[j] = G[j]
    BY <1>1, <1>2, <1>7, <2>1, ZenonT(60) DEF Ones
  <2>2. CASE F[j] = x /\ AtQos(x, 1)
    <3>1. \A n \in DOMAIN d : (AtQos(d[n], 1) /\ d[n].val < x.val) => Earlier(b, G, d[n].val, 1)
      BY <1>1, <2>2 DEF Ones
    <3>2. \A k \in DOMAIN q : (AtQos(q[k].packet, 1) /\ q[k].packet.val < x.val) => Earlier(b, G, q[k].packet.val, 1)
      BY <1>1, <2>2 DEF Ones
    <3> QED BY <1>2, <1>5, <2>2, <3>1, <3>2
  <2> QED BY <1>7, <2>1, <2>2
<1>8. ASSUME NEW m \in DOMAIN d, AtQos(d[m], 1)
      PROVE  /\ \A n \in DOMAIN d : (m < n /\ AtQos(d[n], 1) /\ d[n].val < d[m].val) => Earlier(d, F, d[n].val, m)
             /\ \A k \in DOMAIN q : (AtQos(q[k].packet, 1) /\ q[k].packet.val < d[m].val)
                                      => Earlier(d, F, q[k].packet.val, m)
  <2>1. m \in Nat /\ m + 1 \in DOMAIN b /\ d[m] = b[m + 1]
    BY <1>1
  <2>2. ASSUME NEW n \in DOMAIN d, m < n, AtQos(d[n], 1), d[n].val < d[m].val
        PROVE  Earlier(d, F, d[n].val, m)
    <3>1. n \in Nat /\ n + 1 \in DOMAIN b /\ d[n] = b[n + 1]
      BY <1>1
    <3>2. m + 1 < n + 1
      BY <2>1, <2>2, <3>1
    <3>3. Earlier(b, G, d[n].val, m + 1)
      BY <1>8, <2>1, <2>2, <3>1, <3>2 DEF Ones
    <3> QED BY <1>4, <2>1, <3>3
  <2>3. ASSUME NEW k \in DOMAIN q, AtQos(q[k].packet, 1), q[k].packet.val < d[m].val
        PROVE  Earlier(d, F, q[k].packet.val, m)
    <3>1. Earlier(b, G, q[k].packet.val, m + 1)
      BY <1>8, <2>1, <2>3 DEF Ones
    <3> QED BY <1>4, <2>1, <3>1
  <2> QED BY <2>2, <2>3
<1>9. \A k \in DOMAIN q : (AtQos(q[k].packet, 1) /\ q[k].state # "UNSENT")
                            => Earlier(d, F, q[k].packet.val, Len(d) + 1)
  BY <1>6 DEF Ones
<1>10. FirstsInOrder(F, 1)
  <2>1. SUFFICES ASSUME NEW j \in DOMAIN F, NEW k \in DOMAIN F, j < k, F[j].qos = 1, F[k].qos = 1,
                        F[k].val < F[j].val
                 PROVE  \E n \in 1..(j - 1) : F[n].val = F[k].val
    BY DEF FirstsInOrder
  <2>2. j \in DOMAIN G /\ F[j] = G[j]
    BY <1>1, <2>1
  <2>3. Has(G, F[k].val)
    <3>1. CASE k \in DOMAIN G /\ F[k] = G[k]
      BY <2>1, <3>1 DEF Has
    <3>2. CASE F[k] = x /\ AtQos(x, 1)
      <4>1. G[j].qos = 1 /\ b[1].val < G[j].val /\ AtQos(b[1], 1) /\ b[1] = F[k]
        BY <1>1, <2>1, <2>2, <3>2
      <4>2. \A n \in DOMAIN b : (AtQos(b[n], 1) /\ b[n].val < G[j].val) => Has(G, b[n].val)
        BY <2>2, <4>1 DEF Ones
      <4> QED BY <1>1, <4>1, <4>2
    <3> QED BY <2>1, <3>1, <3>2
  <2>4. PICK n \in DOMAIN G : G[n].qos = 1 /\ G[n].val = F[k].val
    BY <2>3 DEF Has
  <2>5. DOMAIN G = 1..Len(G) /\ Len(G) \in Nat /\ \A m \in DOMAIN G : G[m].val \in Nat
    <3>1. G \in Seq(Sendable)
      BY DEF Reads
    <3>2. \A m \in DOMAIN G : G[m] \in Sendable
      BY <3>1, LenProperties, ElementOfSeq
    <3>3. \A m \in DOMAIN G : G[m].val \in Nat
      BY <3>2 DEF Sendable, PacketsOf
    <3> QED BY <3>1, <3>3, LenProperties
  <2>6. n # j
    <3>1. PICK v, w : v = G[n].val /\ w = G[j].val
      OBVIOUS
    <3>2. v \in Nat /\ w \in Nat /\ v < w
      BY <2>1, <2>2, <2>4, <2>5, <3>1
    <3>3. v # w
      BY <3>2
    <3> QED BY <3>1, <3>3
  <2>7. CASE n < j
    <3>1. n \in 1..(j - 1)
      BY <2>2, <2>4, <2>5, <2>7
    <3>2. F[n] = G[n]
      BY <1>1
    <3> QED BY <2>4, <3>1, <3>2
  <2>8. CASE j < n
    <3>1. PICK m \in 1..(j - 1) : G[m].val = G[n].val
      BY <2>1, <2>2, <2>4, <2>8 DEF FirstsInOrder
    <3>2. m \in DOMAIN G
      BY <2>2, <2>5, <3>1
    <3> QED BY <1>1, <2>4, <3>1, <3>2
  <2>9. n < j \/ j < n
    BY <2>2, <2>4, <2>5, <2>6
  <2> QED BY <2>7, <2>8, <2>9
<1> QED BY <1>7, <1>8, <1>9, <1>10 DEF Ones

\* Of QoS 2 it takes over what x releases, and it holds I then instead of H.
Releasing(q, b, d, x, H, I, G, F) ==
  /\ \A y \in I : y \in H \/ (y = x /\ AtQos2(x))
  /\ x.type = "PUBREL" => \A y \in Live(q, d, I) : y.pid # x.pid
  /\ \A j \in DOMAIN F : F[j].qos = 2 =>
       \/ j \in DOMAIN G /\ F[j] = G[j]
       \/ x.type = "PUBREL" /\ F[j] \in Live(q, b, H) /\ F[j].pid = x.pid

LEMMA ReadTwos ==
  ASSUME NEW b, NEW d, NEW x, NEW G, NEW F, Reads(b, d, x, G, F), NEW q, NEW H, NEW I, NEW c \in Nat,
         Bounded(q, b, H, G, c), Twos(q, b, H, G), InOrder(G, 2),
         Releasing(q, b, d, x, H, I, G, F)
  PROVE  Twos(q, d, I, F) /\ InOrder(F, 2)
<1> DEFINE L == Live(q, b, H)
           M == Live(q, d, I)
<1>1. /\ 1 \in DOMAIN b /\ b[1] = x /\ x.type # "GARBLED" /\ Len(b) \in Nat /\ Len(d) + 1 = Len(b)
      /\ \A n \in DOMAIN b : n = 1 \/ (n - 1 \in DOMAIN d /\ d[n - 1] = b[n])
      /\ \A n \in DOMAIN d : n \in Nat /\ n + 1 \in DOMAIN b /\ 1 < n + 1 /\ d[n] = b[n + 1]
      /\ \A n \in DOMAIN b, m \in Nat : n < m + 1 => n - 1 < m
      /\ \A n \in DOMAIN b : ~(n < 1)
      /\ \A j, k \in DOMAIN F : j < k => j \in DOMAIN G /\ F[j] = G[j]
  <2>1. b[1] = x /\ x.type # "GARBLED" /\ b \in Seq(Sendable)
    BY DEF Reads
  <2>2. \A n \in DOMAIN b : ~(n < 1)
    <3>1. DOMAIN b = 1..Len(b)
      BY <2>1, LenProperties
    <3> QED BY <3>1
  <2> QED BY <2>1, <2>2, ReadParts
<1>2. M \subseteq L /\ (x.type = "PUBREL" => \A y \in M : y.pid # x.pid)
  <2>1. \A n \in DOMAIN d : d[n] \in {b[m] : m \in DOMAIN b}
    BY <1>1
  <2>2. {d[n] : n \in {m \in DOMAIN d : AtQos2(d[m])}} \subseteq {b[n] : n \in {m \in DOMAIN b : AtQos2(b[m])}}
    BY <1>1
  <2>3. AtQos2(x) => x \in {b[n] : n \in {m \in DOMAIN b : AtQos2(b[m])}}
    BY <1>1
  <2>4. I \subseteq H \cup {b[n] : n \in {m \in DOMAIN b : AtQos2(b[m])}}
    BY <2>3 DEF Releasing
  <2> QED BY <2>2, <2>4 DEF Live, Releasing
<1>3. \A y \in L : y.val \in 0..c
  BY LiveBounded
<1>4. ASSUME NEW pid, NEW m \in Nat, Freed(b, pid, m + 1), x.type = "PUBREL" => pid # x.pid
      PROVE  Freed(d, pid, m)
  <2>1. PICK n \in DOMAIN b : n < m + 1 /\ (b[n].type = "GARBLED" \/ (b[n].type = "PUBREL" /\ b[n].pid = pid))
    BY <1>4 DEF Freed
  <2>2. n # 1
    BY <1>1, <1>4, <2>1
  <2>3. n - 1 \in DOMAIN d /\ d[n - 1] = b[n] /\ n - 1 < m
    BY <1>1, <2>1, <2>2
  <2> QED BY <2>1, <2>3 DEF Freed
<1>5. ASSUME NEW pid, Freed(b, pid, Len(b) + 1), x.type = "PUBREL" => pid # x.pid
      PROVE  Freed(d, pid, Len(d) + 1)
  <2>1. PICK l : l = Len(b)
    OBVIOUS
  <2>2. l \in Nat /\ Freed(b, pid, l + 1) /\ Len(d) + 1 = l
    BY <1>1, <1>5, <2>1
  <2>3. Freed(d, pid, l)
    BY <1>4, <1>5, <2>2
  <2> QED BY <2>2, <2>3
<1>6. ASSUME NEW y \in L, x.type = "PUBREL", y.pid = x.pid, NEW z \in M
      PROVE  y.val < z.val
  <2>1. z \in L /\ z.pid # x.pid
    BY <1>2, <1>6
  <2>2. y.val # z.val
    BY <1>6, <2>1 DEF Twos, L
  <2>3. ~(z.val < y.val)
    <3>1. ~Freed(b, z.pid, 1)
      BY <1>1 DEF Freed
    <3> QED BY <1>1, <1>6, <2>1, <3>1 DEF Twos, L
  <2>4. PICK v, w : v = y.val /\ w = z.val
    OBVIOUS
  <2>5. v \in 0..c /\ w \in 0..c /\ v # w /\ ~(w < v)
    BY <1>3, <1>6, <2>1, <2>2, <2>3, <2>4
  <2>6. v < w
    BY <2>5
  <2> QED BY <2>4, <2>6
<1> HIDE DEF M
<1>7. /\ \A y \in M, j \in DOMAIN F : F[j].qos = 2 => F[j].val < y.val
      /\ \A y, z \in M : y.val = z.val => y = z
  <2>1. \A y \in M, j \in DOMAIN G : G[j].qos = 2 => G[j].val < y.val
    BY <1>2 DEF Twos, L
  <2>2. \A y \in M, j \in DOMAIN F : F[j].qos = 2 => F[j].val < y.val
    BY <1>6, <2>1 DEF Releasing, L
  <2> QED BY <1>2, <2>2 DEF Twos, L
<1>8. ASSUME NEW y \in M, NEW k \in DOMAIN q, q[k].packet.type = "PUBREL"
      PROVE  /\ y.val < q[k].packet.val => ReleasedBefore(q, y.pid, k)
             /\ y.pid = q[k].packet.pid =>
                  /\ y.val = q[k].packet.val /\ q[k].state # "COMPLETE"
                  /\ q[k].state # "UNSENT" => Freed(d, y.pid, Len(d) + 1)
  <2>1. y \in L /\ (x.type = "PUBREL" => y.pid # x.pid)
    BY <1>2, <1>8
  <2>2. /\ y.val < q[k].packet.val => ReleasedBefore(q, y.pid, k)
        /\ y.pid = q[k].packet.pid =>
             /\ y.val = q[k].packet.val /\ q[k].state # "COMPLETE"
             /\ q[k].state # "UNSENT" => Freed(b, y.pid, Len(b) + 1)
    BY <1>8, <2>1 DEF Twos, L
  <2> QED BY <1>5, <2>1, <2>2
<1>9. ASSUME NEW y \in M, NEW z \in M, NEW n \in DOMAIN d,
             d[n].type = "PUBREL", d[n].pid = z.pid, y.val < z.val
      PROVE  Freed(d, y.pid, n)
  <2>1. y \in L /\ z \in L /\ (x.type = "PUBREL" => y.pid # x.pid)
    BY <1>2, <1>9
  <2>2. n \in Nat /\ n + 1 \in DOMAIN b /\ d[n] = b[n + 1]
    BY <1>1
  <2>3. Freed(b, y.pid, n + 1)
    BY <1>9, <2>1, <2>2 DEF Twos, L
  <2> QED BY <1>4, <2>1, <2>2, <2>3
<1>10. InOrder(F, 2)
  <2>1. SUFFICES ASSUME NEW j \in DOMAIN F, NEW k \in DOMAIN F, j < k, F[j].qos = 2, F[k].qos = 2
                 PROVE  F[j].val < F[k].val
    BY DEF InOrder
  <2>2. j \in DOMAIN G /\ F[j] = G[j]
    BY <1>1, <2>1
  <2>3. CASE k \in DOMAIN G /\ F[k] = G[k]
    BY <2>1, <2>2, <2>3 DEF InOrder
  <2>4. CASE F[k] \in L
    BY <2>1, <2>2, <2>4 DEF Twos, L
  <2> QED BY <2>1, <2>3, <2>4 DEF Releasing, L
<1> QED BY <1>7, <1>8, <1>9, <1>10 DEF Twos, M

-----------------------------------------------------------------------------
(* The publishes stay in order: the steps of the client.                   *)

\* What is under way and at the broker goes with the queue r as it went with q.
Leads(q, r, c, d) == /\ Sorted(r) /\ Bounded(r, toBroker, held, got, d)
                     /\ Ordered(q, toBroker, held, got) => Ordered(r, toBroker, held, got)

LEMMA PackLeads ==
  ASSUME NEW q, QueueTyped(q), NEW p, New(p) \in Queued, error \in Errors, TryPack(q, p),
         NEW c \in Nat, NEW d \in {c, c + 1}, Sorted(q), Bounded(q, toBroker, held, got, c),
         p.type \in {"PUBLISH", "PUBREL"} => p.val \in 0..d, p.type = "PUBLISH" => p.val = c + 1,
         error = "OK" => FollowsLive(q, toBroker, held, c, p)
  PROVE  Leads(q, mq', c, d)
<1>1. PICK n \in 0..Len(q) :
        /\ Packed(q, p, n, mq')
        /\ \/ error = "OK" /\ error' = "OK" /\ Len(mq') = Len(q) - n + 1
           \/ error # "OK" /\ error' = error /\ mq' = q /\ n = 0
           \/ error = "OK" /\ error' = "SEND_BUFFER_IS_FULL" /\ Len(mq') = Len(q) - n
  BY Packing
<1>2. PICK r : r = mq'
  OBVIOUS
<1>3. Packed(q, p, n, r) /\ (error = "OK" \/ r = q)
  BY <1>1, <1>2
<1>4. PICK b, H, G : b = toBroker /\ H = held /\ G = got
  OBVIOUS
<1>5. Keeps(q, r, p) /\ Bounded(q, b, H, G, c)
  BY <1>3, <1>4, PackedStays
<1>6. Sorted(r)
  BY <1>3, <1>5, PackedSorted
<1>7. Bounded(r, b, H, G, d)
  BY <1>5, KeptBounded
<1>8. Zeros(q, b, G) => Zeros(r, b, G)
  BY <1>5, KeptZeros
<1>9. Ones(q, b, G) => Ones(r, b, G)
  BY <1>5, KeptOnes
<1>10. Twos(q, b, H, G) => Twos(r, b, H, G)
  <2>1. CASE r = q
    BY <2>1
  <2>2. CASE error = "OK"
    BY <1>3, <1>4, <1>5, <2>2, PackedTwos
  <2> QED BY <1>3, <2>1, <2>2
<1> QED BY <1>2, <1>4, <1>6, <1>7, <1>8, <1>9, <1>10 DEF Leads, Ordered

LEMMA StayingLeads ==
  ASSUME NEW q, NEW r, DOMAIN r = DOMAIN q, \A k \in DOMAIN q : Stays(r[k], q[k]),
         NEW c \in Nat, Sorted(q), Bounded(q, toBroker, held, got, c),
         \A k \in DOMAIN q : q[k].packet.type = "PUBREL" =>
           \/ r[k].state = q[k].state
           \/ \A y \in Live(r, toBroker, held) : y.pid # q[k].packet.pid
  PROVE  Leads(q, r, c, c)
<1>1. PICK b, H, G : b = toBroker /\ H = held /\ G = got
  OBVIOUS
<1>2. PICK p : p = Garbled
  OBVIOUS
<1>3. p.type = "GARBLED"
  BY <1>2, GarbledTyped
<1>4. Keeps(q, r, p) /\ Bounded(q, b, H, G, c)
  BY <1>1, StayingKeeps
<1>5. Sorted(r)
  BY StayingSorted DEF Stays
<1>6. Bounded(r, b, H, G, c)
  BY <1>3, <1>4, KeptBounded
<1>7. Zeros(q, b, G) => Zeros(r, b, G)
  BY <1>3, <1>4, KeptZeros
<1>8. Ones(q, b, G) => Ones(r, b, G)
  BY <1>3, <1>4, KeptOnes
<1>9. Twos(q, b, H, G) => Twos(r, b, H, G)
  BY <1>1, StayingTwos
<1> QED BY <1>1, <1>5, <1>6, <1>7, <1>8, <1>9 DEF Leads, Ordered

\* An acknowledgement completes the message at k.
LEMMA ReleaseLeads ==
  ASSUME QueueTyped(mq), NEW k \in DOMAIN mq,
         mq[k].packet.type = "PUBLISH" => mq[k].state # "UNSENT",
         mq[k].packet.type = "PUBREL" =>
           \A y \in Live(mq, toBroker, held) : y.pid # mq[k].packet.pid,
         NEW c \in Nat, Sorted(mq), Bounded(mq, toBroker, held, got, c)
  PROVE  /\ Leads(mq, Release(k), c, c) /\ QueueTyped(Release(k))
         /\ Live(Release(k), toBroker, held) \subseteq Live(mq, toBroker, held)
         /\ \A pid : HasRelease(mq, pid) => HasRelease(Release(k), pid)
<1>1. PICK q, r : q = mq /\ r = Release(k)
  OBVIOUS
<1>2. /\ DOMAIN r = DOMAIN q /\ QueueTyped(r)
      /\ \A j \in DOMAIN q : r[j].packet = q[j].packet /\ r[j].state = IF j = k THEN "COMPLETE" ELSE q[j].state
  <2>1. mq \in Seq(Queued) /\ DOMAIN mq = 1..Len(mq) /\ Len(mq) \in Nat
    BY QueueParts DEF QueueTyped
  <2>2. /\ Completed(mq, Release(k)) /\ Release(k)[k].state = "COMPLETE"
        /\ \A j \in 1..Len(mq) : j # k => Release(k)[j].state = mq[j].state
    BY <2>1, Released
  <2>3. DOMAIN Release(k) = 1..Len(mq)
    BY <2>1, <2>2, LenProperties DEF Completed, Updated
  <2> QED BY <1>1, <2>1, <2>2, <2>3 DEF Completed, Updated, QueueTyped
<1>3. \A j \in DOMAIN q : Stays(r[j], q[j])
  BY <1>1, <1>2 DEF Stays, AtQos
<1>4. Live(r, toBroker, held) \subseteq Live(q, toBroker, held)
  BY <1>2 DEF Live, IsQos2
<1>5. \A j \in DOMAIN q : q[j].packet.type = "PUBREL" =>
        r[j].state = q[j].state \/ \A y \in Live(r, toBroker, held) : y.pid # q[j].packet.pid
  BY <1>1, <1>2, <1>4
<1>6. Sorted(q) /\ Bounded(q, toBroker, held, got, c)
  BY <1>1
<1>7. Leads(q, r, c, c)
  BY <1>2, <1>3, <1>5, <1>6, StayingLeads
<1>8. \A pid : HasRelease(q, pid) => HasRelease(r, pid)
  BY <1>2 DEF HasRelease, Is
<1> QED BY <1>1, <1>2, <1>4, <1>7, <1>8

LEMMA QueueInOrder ==
  ASSUME OrderInv, UNCHANGED <<toBroker, held, got>>, up' => up, Leads(mq, mq', calls, calls'), LoopSends'
  PROVE  OrderInv'
<1>1. /\ Sorted(mq') /\ Bounded(mq', toBroker, held, got, calls')
      /\ Ordered(mq, toBroker, held, got) => Ordered(mq', toBroker, held, got)
  BY DEF Leads
<1>2. OrderedAtBroker' /\ (up => Ordered(mq, toBroker, held, got))
  BY DEF OrderInv, OrderedAtBroker
<1>3. up' => Ordered(mq', toBroker, held, got)
  BY <1>1, <1>2
<1> QED BY <1>1, <1>2, <1>3 DEF OrderInv

LEMMA SameLeads ==
  ASSUME Inv, OrderInv, DOMAIN mq' = DOMAIN mq, UNCHANGED calls,
         \A k \in DOMAIN mq : mq'[k].packet = mq[k].packet /\ mq'[k].state = mq[k].state
  PROVE  Leads(mq, mq', calls, calls')
<1>1. PICK q, r : q = mq /\ r = mq'
  OBVIOUS
<1>2. DOMAIN r = DOMAIN q /\ \A k \in DOMAIN q : Stays(r[k], q[k]) /\ r[k].state = q[k].state
  BY <1>1 DEF Stays
<1>3. calls \in Nat /\ Sorted(q) /\ Bounded(q, toBroker, held, got, calls)
  BY <1>1 DEF Inv, ClientTyped, OrderInv
<1>4. Leads(q, r, calls, calls)
  BY <1>2, <1>3, StayingLeads
<1> QED BY <1>1, <1>4

\* A packet that is neither a publish nor a PUBREL is put in the queue.
LEMMA IrrelevantLeads ==
  ASSUME NEW q, QueueTyped(q), error \in Errors, NEW p \in PacketsOf(Types), Numbered(p),
         p.type \notin {"PUBLISH", "PUBREL"}, TryPack(q, p),
         NEW c \in Nat, NEW d \in {c, c + 1}, Sorted(q), Bounded(q, toBroker, held, got, c)
  PROVE  Leads(q, mq', c, d)
<1>1. New(p) \in Queued
  BY NewMessage
<1>2. FollowsLive(q, toBroker, held, c, p)
  BY DEF FollowsLive
<1> QED BY <1>1, <1>2, PackLeads

LEMMA CallInOrder ==
  ASSUME Inv, OrderInv, DrawsFree, NEW c \in Calls, Call(c[1], c[2]), UNCHANGED <<reconnects, broker>>
  PROVE  OrderInv'
<1>1. c[1] \in {"PUBLISH", "SUBSCRIBE", "PINGREQ", "DISCONNECT"} /\ c[2] \in 0..2
  BY ClientAssumption
<1>2. calls \in Nat /\ calls' \in Nat /\ calls' = calls + 1 /\ calls' \in 0..calls'
  BY DEF Inv, ClientTyped, Call, Called
<1>3. UNCHANGED <<held, got, toBroker, toClient, up, pc>> /\ pc # "send"
  BY DEF Call, wire, broker, Unlocked
<1>4. QueueTyped(mq) /\ error \in Errors /\ Sorted(mq) /\ Bounded(mq, toBroker, held, got, calls)
  BY DEF Inv, QueueOK, ClientTyped, OrderInv
<1>5. CASE Draws(c[1]) /\ lfsr' \in NextPid(lfsr) /\ TryPack(mq, Packet(c[1], c[2], lfsr', calls'))
  <2>1. PICK p : p = Packet(c[1], c[2], lfsr', calls')
    OBVIOUS
  <2>2. lfsr' \in Pids /\ \A k \in DOMAIN mq : mq[k].packet.pid # lfsr'
    BY <1>5, DrawnIsFree DEF Inv, QueueOK
  <2>3. p.type = c[1] /\ p.pid = lfsr' /\ p.val = calls'
    BY <2>1 DEF Packet
  <2>4. c[1] \in {"PUBLISH", "SUBSCRIBE"}
    BY <1>5 DEF Draws
  <2>5. p \in PacketsOf(Types) /\ Numbered(p)
    BY <1>1, <1>2, <2>1, <2>2, <2>3, <2>4 DEF Packet, PacketsOf, Types, Numbered, WithoutId
  <2>6. New(p) \in Queued
    BY <2>5, NewMessage
  <2>7. FollowsLive(mq, toBroker, held, calls, p)
    <3>1. \A n \in DOMAIN toBroker : toBroker[n].type = "PUBREL" => toBroker[n].pid # p.pid
      BY <1>5, <2>3 DEF DrawsFree, OnTheWay
    <3> QED BY <1>2, <2>2, <2>3, <2>4, <3>1 DEF FollowsLive
  <2>8. Leads(mq, mq', calls, calls')
    BY <1>2, <1>4, <1>5, <2>1, <2>3, <2>6, <2>7, PackLeads
  <2> QED BY <1>3, <2>8, QueueInOrder DEF LoopSends
<1>6. CASE ~Draws(c[1]) /\ TryPack(mq, Simple(c[1], None))
  <2>1. PICK p : p = Simple(c[1], None)
    OBVIOUS
  <2>2. c[1] \in {"PINGREQ", "DISCONNECT"} /\ p.type = c[1]
    BY <1>1, <1>6, <2>1 DEF Draws, Simple, Packet
  <2>3. p \in PacketsOf(Types) /\ Numbered(p)
    BY <2>1, <2>2 DEF Simple, Packet, PacketsOf, Types, Numbered, WithoutId
  <2>4. Leads(mq, mq', calls, calls')
    BY <1>2, <1>4, <1>6, <2>1, <2>2, <2>3, IrrelevantLeads
  <2> QED BY <1>3, <2>4, QueueInOrder DEF LoopSends
<1> QED BY <1>5, <1>6 DEF Call

LEMMA UnsubscribeInOrder ==
  ASSUME Inv, OrderInv, NEW t \in Threads, UnsubscribeReads(t) \/ UnsubscribeWrites(t) \/ Unsubscribe(t),
         UNCHANGED <<reconnects, broker>>
  PROVE  OrderInv'
<1>1. UNCHANGED <<held, got, toBroker, toClient, up, pc, i>> /\ calls \in Nat
  BY DEF UnsubscribeReads, UnsubscribeWrites, Unsubscribe, wire, broker, Inv, ClientTyped
<1>2. CASE UnsubscribeReads(t) \/ UnsubscribeWrites(t)
  <2>1. mq' = mq /\ calls' \in {calls, calls + 1}
    BY <1>2 DEF UnsubscribeReads, UnsubscribeWrites, Called
  <2>2. Sorted(mq) /\ Bounded(mq, toBroker, held, got, calls)
    BY DEF OrderInv
  <2>3. Bounded(mq, toBroker, held, got, calls')
    <3>1. PICK p : p = Garbled
      OBVIOUS
    <3>2. p.type = "GARBLED"
      BY <3>1, GarbledTyped
    <3>3. Keeps(mq, mq, p)
      BY StayingKeeps DEF Stays, Keeps
    <3> QED BY <1>1, <2>1, <2>2, <3>2, <3>3, KeptBounded
  <2>4. Leads(mq, mq', calls, calls')
    BY <2>1, <2>2, <2>3 DEF Leads
  <2>5. LoopSends'
    BY <1>1, <2>1 DEF OrderInv, LoopSends
  <2> QED BY <1>1, <2>4, <2>5, QueueInOrder
<1>3. CASE Unsubscribe(t)
  <2>1. PICK p : p = Simple("UNSUBSCRIBE", drawn[t][2])
    OBVIOUS
  <2>2. drawn[t][2] \in Pids
    <3>1. drawn[t] # Idle
      BY <1>3 DEF Unsubscribe, Idle
    <3> QED BY <3>1 DEF Inv, ClientTyped, DrawnTyped
  <2>3. p \in PacketsOf(Types) /\ Numbered(p) /\ p.type = "UNSUBSCRIBE"
    BY <2>1, <2>2 DEF Simple, Packet, PacketsOf, Types, Numbered, WithoutId
  <2>4. TryPack(mq, p) /\ calls' = calls /\ pc # "send"
    BY <1>3, <2>1 DEF Unsubscribe, Unlocked
  <2>5. QueueTyped(mq) /\ error \in Errors /\ Sorted(mq) /\ Bounded(mq, toBroker, held, got, calls)
    BY DEF Inv, QueueOK, ClientTyped, OrderInv
  <2>6. Leads(mq, mq', calls, calls')
    BY <1>1, <2>3, <2>4, <2>5, IrrelevantLeads
  <2> QED BY <1>1, <2>4, <2>6, QueueInOrder DEF LoopSends
<1> QED BY <1>2, <1>3

\* Only the CONNECT of a new connection is in the queue.
LEMMA FreshInOrder ==
  ASSUME NEW q, \A k \in DOMAIN q : q[k].packet.type = "CONNECT", NEW G, NEW c,
         \A j \in DOMAIN G : G[j].val \in 0..c
  PROVE  Sorted(q) /\ Bounded(q, <<>>, {}, G, c) /\ Ordered(q, <<>>, {}, G)
<1>1. PICK b : b = <<>> /\ DOMAIN b = {}
  OBVIOUS
<1>2. Sorted(q) /\ Bounded(q, b, {}, G, c)
  BY <1>1 DEF Sorted, Bounded
<1>3. Zeros(q, b, G) /\ Ones(q, b, G)
  BY <1>1 DEF Zeros, Ones, AtQos
<1>4. Live(q, b, {}) = {}
  BY <1>1 DEF Live, IsQos2
<1>5. Twos(q, b, {}, G)
  BY <1>1, <1>4 DEF Twos
<1> QED BY <1>1, <1>2, <1>3, <1>5 DEF Ordered

LEMMA StillInOrder ==
  ASSUME Inv, Nothing, OrderInv, UNCHANGED <<reconnects, broker>>,
         Connect \/ Sync \/ ReceiveEnds \/ SendStarts \/ SendEnds \/ Tick
  PROVE  OrderInv'
<1>1. /\ UNCHANGED <<held, got, toBroker, toClient, up, calls>> /\ calls \in Nat
      /\ QueueTyped(mq) /\ error \in Errors /\ Sorted(mq) /\ Bounded(mq, toBroker, held, got, calls)
      /\ mq \in Seq(Queued) /\ DOMAIN mq = 1..Len(mq) /\ Len(mq) \in Nat
  BY QueueParts DEF Connect, Sync, ReceiveEnds, SendStarts, SendEnds, Tick, wire, broker, Inv, ClientTyped,
                    QueueOK, QueueTyped, OrderInv
<1>2. CASE Connect
  <2>1. QueueOK(mq') /\ Len(mq') = 1 /\ mq'[1] = New(Simple("CONNECT", None))
    BY <1>2, FirstMessage DEF Connect
  <2>2. \A k \in DOMAIN mq' : mq'[k].packet.type = "CONNECT"
    <3>1. DOMAIN mq' = 1..1
      BY <2>1, QueueParts DEF QueueOK, QueueTyped
    <3> QED BY <2>1, <3>1 DEF New, Simple, Packet
  <2>3. held = {} /\ toBroker = <<>> /\ pc' = "idle"
    BY <1>2 DEF Connect, Nothing
  <2>4. PICK q : q = mq'
    OBVIOUS
  <2>5. \A j \in DOMAIN got : got[j].val \in 0..calls
    BY <1>1 DEF Bounded
  <2>6. Sorted(q) /\ Bounded(q, <<>>, {}, got, calls) /\ Ordered(q, <<>>, {}, got)
    BY <2>2, <2>4, <2>5, FreshInOrder
  <2>7. Leads(mq, mq', calls, calls')
    BY <1>1, <2>3, <2>4, <2>6 DEF Leads
  <2>8. LoopSends'
    BY <2>3 DEF LoopSends
  <2> QED BY <1>1, <2>7, <2>8, QueueInOrder
<1>3. CASE Sync \/ ReceiveEnds \/ SendStarts
  <2>1. mq' = mq /\ (pc' = "send" => i' = 1)
    BY <1>3 DEF Sync, ReceiveEnds, SendStarts, Fail, Return
  <2>2. Leads(mq, mq', calls, calls')
    BY <1>1, <2>1 DEF Leads
  <2>3. LoopSends'
    <3>1. \A j \in DOMAIN mq : ~(j < 1)
      BY <1>1
    <3> QED BY <2>1, <3>1 DEF LoopSends
  <2> QED BY <1>1, <2>2, <2>3, QueueInOrder
<1>4. CASE SendEnds
  <2>1. LoopSends'
    BY <1>4 DEF SendEnds, Return, LoopSends
  <2>2. CASE UNCHANGED <<mq, error>>
    <3>1. Leads(mq, mq', calls, calls')
      BY <1>1, <2>2 DEF Leads
    <3> QED BY <1>1, <2>1, <3>1, QueueInOrder
  <2>3. CASE TryPack(mq, Simple("PINGREQ", None))
    <3>1. PICK p : p = Simple("PINGREQ", None)
      OBVIOUS
    <3>2. p \in PacketsOf(Types) /\ Numbered(p) /\ p.type = "PINGREQ"
      BY <3>1 DEF Simple, Packet, PacketsOf, Types, Numbered, WithoutId
    <3>3. Leads(mq, mq', calls, calls')
      BY <1>1, <2>3, <3>1, <3>2, IrrelevantLeads
    <3> QED BY <1>1, <2>1, <3>3, QueueInOrder
  <2> QED BY <1>4, <2>2, <2>3 DEF SendEnds
<1>5. CASE Tick
  <2>1. Completed(mq, mq') /\ \A k \in 1..Len(mq) : mq'[k].state = mq[k].state
    BY <1>5, TickSteps
  <2>2. DOMAIN mq' = DOMAIN mq /\ \A k \in DOMAIN mq : mq'[k].packet = mq[k].packet /\ mq'[k].state = mq[k].state
    BY <1>1, <2>1, LenProperties DEF Completed, Updated
  <2>3. Leads(mq, mq', calls, calls')
    BY <1>1, <2>2, SameLeads
  <2>4. LoopSends'
    <3>1. UNCHANGED <<pc, i>> /\ Len(mq') = Len(mq)
      BY <1>5, <2>1 DEF Tick, Completed, Updated
    <3> QED BY <2>2, <3>1 DEF OrderInv, LoopSends, IsQos2
  <2> QED BY <1>1, <2>3, <2>4, QueueInOrder
<1> QED BY <1>2, <1>3, <1>4, <1>5

LEMMA ReconnectInOrder ==
  ASSUME OrderInv, Reconnect, CleanSession
  PROVE  OrderInv'
<1>1. /\ mq' = Append(<<>>, New(Simple("CONNECT", None))) /\ toBroker' = <<>> /\ pc' = "reconnected"
      /\ held' = {} /\ got' = got /\ calls' = calls
  BY ReconnectParts DEF CleanSession, Reconnect
<1>2. \A k \in DOMAIN mq' : mq'[k].packet.type = "CONNECT"
  <2>1. QueueOK(mq') /\ Len(mq') = 1 /\ mq'[1] = New(Simple("CONNECT", None))
    BY <1>1, FirstMessage
  <2>2. DOMAIN mq' = 1..1
    BY <2>1, QueueParts DEF QueueOK, QueueTyped
  <2> QED BY <2>1, <2>2 DEF New, Simple, Packet
<1>3. PICK q : q = mq'
  OBVIOUS
<1>4. \A j \in DOMAIN got : got[j].val \in 0..calls
  BY DEF OrderInv, Bounded
<1>5. Sorted(q) /\ Bounded(q, <<>>, {}, got, calls) /\ Ordered(q, <<>>, {}, got)
  BY <1>2, <1>3, <1>4, FreshInOrder
<1>6. LoopSends' /\ OrderedAtBroker'
  BY <1>1 DEF LoopSends, OrderInv, OrderedAtBroker
<1> QED BY <1>1, <1>3, <1>5, <1>6 DEF OrderInv

LEMMA BreakInOrder ==
  ASSUME Inv, OrderInv, Break, UNCHANGED <<client, broker>>
  PROVE  OrderInv'
<1>1. UNCHANGED <<mq, pc, i, calls, held, got>> /\ toBroker' = <<>> /\ up' = FALSE
  BY BreakParts DEF client, broker
<1>2. Bounded(mq, <<>>, held, got, calls) /\ Sorted(mq)
  BY DEF OrderInv, Bounded
<1>3. LoopSends' /\ OrderedAtBroker'
  BY <1>1 DEF OrderInv, LoopSends, OrderedAtBroker
<1> QED BY <1>1, <1>2, <1>3 DEF OrderInv

\* What is live has the identifier of a publish in the queue only if it is that publish.
LEMMA LiveAsQueued ==
  ASSUME Inv, ReceivedOK(mq), NEW k \in DOMAIN mq, mq[k].packet.type = "PUBLISH",
         NEW y \in Live(mq, toBroker, held), y.pid = mq[k].packet.pid
  PROVE  y = mq[k].packet
<1>1. Is(mq[k], "PUBLISH", y.pid)
  BY DEF Is
<1>2. CASE y \in held
  BY <1>1, <1>2 DEF ReceivedOK, HeldAsQueued
<1>3. ASSUME NEW n \in DOMAIN toBroker, y = toBroker[n], AtQos2(y)
      PROVE  y = mq[k].packet
  BY <1>1, <1>3 DEF ReceivedOK, SentAsQueued, AtQos2
<1>4. ASSUME NEW j \in DOMAIN mq, y = mq[j].packet, IsQos2(mq[j])
      PROVE  y = mq[k].packet
  BY <1>4 DEF Inv, QueueOK, Distinct, Draws, IsQos2
<1> QED BY <1>2, <1>3, <1>4 DEF Live

\* When a publish of QoS 2 has been sent, the PUBRELs of all earlier ones are in the queue.
LEMMA EarlierReleased ==
  ASSUME Inv, ReceivedOK(mq), AllOpen(mq), Sorted(mq), HeldTyped, NEW k \in DOMAIN mq, IsQos2(mq[k]),
         mq[k].state # "UNSENT", NEW y \in Live(mq, toBroker, held), y.val < mq[k].packet.val
  PROVE  HasRelease(mq, y.pid)
<1>1. /\ DOMAIN mq = 1..Len(mq) /\ Len(mq) \in Nat /\ \A j \in DOMAIN mq : mq[j].packet.val \in Nat
  <2>1. DOMAIN mq = 1..Len(mq) /\ Len(mq) \in Nat /\ \A j \in DOMAIN mq : mq[j] \in Queued
    BY QueueParts DEF Inv, QueueOK, QueueTyped
  <2> QED BY <2>1, MessageParts DEF PacketsOf
<1>2. ASSUME NEW j \in DOMAIN mq, IsQos2(mq[j]), mq[j].state # "COMPLETE", mq[j].packet.val = y.val
      PROVE  FALSE
  <2>1. PICK v, w : v = mq[j].packet.val /\ w = mq[k].packet.val
    OBVIOUS
  <2>2. v \in Nat /\ w \in Nat /\ v < w
    BY <1>1, <1>2, <2>1
  <2>3. ~(w < v) /\ v # w
    BY <2>2
  <2>4. j # k
    BY <2>1, <2>3
  <2>5. ~(j < k)
    BY <1>2 DEF ReceivedOK, OneSent
  <2>6. ~(k < j)
    BY <1>2, <2>1, <2>3 DEF Sorted, IsQos2
  <2>7. j < k \/ k < j
    BY <1>1, <2>4
  <2> QED BY <2>5, <2>6, <2>7
<1>3. ASSUME Open(mq, y), \A j \in DOMAIN mq : Is(mq[j], "PUBLISH", y.pid) => AtQos2(mq[j].packet)
      PROVE  HasRelease(mq, y.pid)
  <2>1. PICK j \in DOMAIN mq : /\ mq[j].packet.type \in {"PUBLISH", "PUBREL"} /\ mq[j].state # "COMPLETE"
                               /\ mq[j].packet.pid = y.pid /\ mq[j].packet.val = y.val
    BY <1>3 DEF Open
  <2>2. mq[j].packet.type # "PUBLISH"
    BY <1>2, <1>3, <2>1 DEF Is, AtQos2, IsQos2
  <2> QED BY <2>1, <2>2 DEF HasRelease, Is
<1>4. CASE y \in held
  <2>1. \A j \in DOMAIN mq : Is(mq[j], "PUBLISH", y.pid) => AtQos2(mq[j].packet)
    BY <1>4 DEF ReceivedOK, HeldAsQueued, HeldTyped
  <2> QED BY <1>3, <1>4, <2>1 DEF AllOpen
<1>5. ASSUME NEW n \in DOMAIN toBroker, y = toBroker[n], AtQos2(y)
      PROVE  HasRelease(mq, y.pid)
  <2>1. \A j \in DOMAIN mq : Is(mq[j], "PUBLISH", y.pid) => AtQos2(mq[j].packet)
    BY <1>5 DEF ReceivedOK, SentAsQueued, AtQos2
  <2> QED BY <1>3, <1>5, <2>1 DEF AllOpen
<1>6. ASSUME NEW j \in DOMAIN mq, y = mq[j].packet, IsQos2(mq[j]), mq[j].state # "COMPLETE"
      PROVE  FALSE
  BY <1>2, <1>6
<1> QED BY <1>4, <1>5, <1>6 DEF Live

\* What both pieces of the step give.
LEMMA LeadsOn ==
  ASSUME NEW q, NEW r, NEW s, NEW c, Leads(q, r, c, c), Leads(r, s, c, c)
  PROVE  Leads(q, s, c, c)
BY DEF Leads

\* A PUBREC: the PUBREL follows those of all earlier publishes.
LEMMA PubrecInOrder ==
  ASSUME Inv, ReceivedInv, OrderInv, 1 \in DOMAIN toClient, NEW p, p = toClient[1], p.type = "PUBREC",
         p.pid \in Pids, NEW k \in DOMAIN mq, Is(mq[k], "PUBLISH", p.pid),
         TryPack(Release(k), Packet("PUBREL", 0, p.pid, mq[k].packet.val))
  PROVE  Leads(mq, mq', calls, calls)
<1>1. /\ QueueTyped(mq) /\ error \in Errors /\ mq[k] \in Queued /\ ReceivedOK(mq) /\ calls \in Nat
      /\ Sorted(mq) /\ Bounded(mq, toBroker, held, got, calls) /\ HeldTyped
      /\ mq[k].packet.type = "PUBLISH" /\ mq[k].packet.pid = p.pid
  BY QueueParts DEF Inv, QueueOK, QueueTyped, ClientTyped, ReceivedInv, OrderInv, Is
<1>2. PICK x : x = Packet("PUBREL", 0, p.pid, mq[k].packet.val)
  OBVIOUS
<1>3. x.type = "PUBREL" /\ x.pid = p.pid /\ x.val = mq[k].packet.val
  BY <1>2 DEF Packet
<1>4. New(x) \in Queued
  <2>1. mq[k].packet.val \in Nat
    BY <1>1, MessageParts DEF PacketsOf
  <2>2. x \in {Simple("PUBREL", p.pid), Packet("PUBREL", 0, p.pid, mq[k].packet.val)}
    BY <1>2
  <2>3. x \in PacketsOf(Types) /\ Numbered(x)
    BY <2>1, <2>2, AnswerPacket
  <2> QED BY <2>3, NewMessage
<1>5. mq[k].state # "UNSENT" /\ IsQos2(mq[k])
  BY <1>1 DEF ReceivedOK, AnsweredAsQueued, AnswersPublish, IsQos2
<1>6. PICK r : r = Release(k)
  OBVIOUS
<1>7. /\ Leads(mq, r, calls, calls) /\ QueueTyped(r)
      /\ Live(r, toBroker, held) \subseteq Live(mq, toBroker, held)
      /\ \A pid : HasRelease(mq, pid) => HasRelease(r, pid)
  BY <1>1, <1>5, <1>6, ReleaseLeads
<1>8. ASSUME error = "OK"
      PROVE  FollowsLive(r, toBroker, held, calls, x)
  <2>1. AllOpen(mq)
    BY <1>8 DEF ReceivedInv
  <2>2. ASSUME NEW y \in Live(r, toBroker, held)
        PROVE  /\ y.val < x.val => HasRelease(r, y.pid)
               /\ y.pid = x.pid => y.val = x.val
    <3>1. y \in Live(mq, toBroker, held)
      BY <1>7
    <3>2. y.val < x.val => HasRelease(r, y.pid)
      BY <1>1, <1>3, <1>5, <1>7, <2>1, <3>1, EarlierReleased
    <3>3. y.pid = x.pid => y.val = x.val
      BY <1>1, <1>3, <3>1, LiveAsQueued
    <3> QED BY <3>2, <3>3
  <2> QED BY <1>3, <2>2 DEF FollowsLive
<1>9. Sorted(r) /\ Bounded(r, toBroker, held, got, calls)
  BY <1>7 DEF Leads
<1>10. x.val \in 0..calls
  BY <1>1, <1>3 DEF Bounded
<1>11. Leads(r, mq', calls, calls)
  BY <1>1, <1>2, <1>3, <1>4, <1>6, <1>7, <1>8, <1>9, <1>10, PackLeads
<1> QED BY <1>7, <1>11, LeadsOn

LEMMA AcknowledgeInOrder ==
  ASSUME Inv, ReceivedInv, OrderInv, NEW p \in Receivable, p = toClient[1], 1 \in DOMAIN toClient,
         p.type # "PUBLISH", Acknowledge(p)
  PROVE  Leads(mq, mq', calls, calls)
<1>1. /\ QueueTyped(mq) /\ mq \in Seq(Queued) /\ DOMAIN mq = 1..Len(mq) /\ error \in Errors /\ calls \in Nat
      /\ Sorted(mq) /\ Bounded(mq, toBroker, held, got, calls) /\ ReceivedOK(mq)
  BY QueueParts DEF Inv, QueueOK, QueueTyped, ClientTyped, OrderInv, ReceivedInv
<1>2. CASE UNCHANGED mq
  BY <1>1, <1>2 DEF Leads
<1>3. ASSUME NEW k \in 1..Len(mq), k \in Find(Origin[p.type], p.pid),
             \/ p.type = "PUBREC" /\ TryPack(Release(k), Packet("PUBREL", 0, p.pid, mq[k].packet.val))
             \/ p.type = "PUBREL" /\ TryPack(Release(k), Simple("PUBCOMP", p.pid))
             \/ p.type \notin {"PUBREC", "PUBREL"} /\ mq' = Release(k)
      PROVE  Leads(mq, mq', calls, calls)
  <2>1. mq[k].packet.type = Origin[p.type] /\ (p.pid # None => mq[k].packet.pid = p.pid) /\ k \in DOMAIN mq
    BY <1>1, <1>3, Found
  <2>2. p.type \in {"PUBREC", "PUBREL", "PUBACK", "PUBCOMP"} => p.pid \in Pids /\ p.pid # None
    BY Constants DEF Receivable, Numbered, WithoutId
  <2>3. CASE p.type = "PUBREC"
    <3>1. Is(mq[k], "PUBLISH", p.pid)
      BY <2>1, <2>2, <2>3 DEF Is, Origin
    <3>2. TryPack(Release(k), Packet("PUBREL", 0, p.pid, mq[k].packet.val))
      BY <1>3, <2>3
    <3> QED BY <2>1, <2>2, <2>3, <3>1, <3>2, PubrecInOrder
  <2>4. CASE p.type = "PUBREL"
    <3>1. mq[k].packet.type = "PUBREC"
      BY <2>1, <2>4 DEF Origin
    <3>2. PICK x, r : x = Simple("PUBCOMP", p.pid) /\ r = Release(k)
      OBVIOUS
    <3>3. x.type = "PUBCOMP" /\ x \in PacketsOf(Types) /\ Numbered(x)
      <4>1. 0 \in Nat
        OBVIOUS
      <4> QED BY <2>2, <2>4, <3>2, <4>1, AnswerPacket
    <3>4. Leads(mq, r, calls, calls) /\ QueueTyped(r)
      BY <1>1, <2>1, <3>1, <3>2, ReleaseLeads
    <3>5. Sorted(r) /\ Bounded(r, toBroker, held, got, calls)
      BY <3>4 DEF Leads
    <3>6. Leads(r, mq', calls, calls)
      BY <1>1, <1>3, <2>4, <3>2, <3>3, <3>4, <3>5, IrrelevantLeads
    <3> QED BY <3>4, <3>6, LeadsOn
  <2>5. CASE p.type = "PUBACK"
    <3>1. mq[k].packet.type = "PUBLISH" /\ Is(mq[k], "PUBLISH", p.pid)
      BY <2>1, <2>2, <2>5 DEF Is, Origin
    <3>2. mq[k].state # "UNSENT"
      BY <1>1, <2>1, <2>5, <3>1 DEF ReceivedOK, AnsweredAsQueued, AnswersPublish
    <3>3. Leads(mq, Release(k), calls, calls)
      BY <1>1, <2>1, <3>1, <3>2, ReleaseLeads
    <3> QED BY <1>3, <2>5, <3>3
  <2>6. CASE p.type = "PUBCOMP"
    <3>1. mq[k].packet.type = "PUBREL" /\ mq[k].packet.pid = p.pid
      BY <2>1, <2>2, <2>6 DEF Origin
    <3>2. ASSUME NEW y \in Live(mq, toBroker, held), y.pid = mq[k].packet.pid
          PROVE  FALSE
      <4>1. y \notin held /\ \A n \in DOMAIN toBroker : AtQos2(toBroker[n]) => toBroker[n] # y
        BY <2>6, <3>1, <3>2 DEF ReceivedInv, NoneAfterRelease
      <4>2. PICK j \in DOMAIN mq : y = mq[j].packet /\ IsQos2(mq[j]) /\ mq[j].state # "COMPLETE"
        BY <4>1 DEF Live
      <4> QED BY <2>1, <3>1, <3>2, <4>2 DEF Inv, QueueOK, Distinct, Draws, IsQos2
    <3>3. Leads(mq, Release(k), calls, calls)
      BY <1>1, <2>1, <3>1, <3>2, ReleaseLeads
    <3> QED BY <1>3, <2>6, <3>3
  <2>7. CASE p.type \in {"CONNACK", "SUBACK", "UNSUBACK", "PINGRESP"}
    <3>1. mq[k].packet.type \notin {"PUBLISH", "PUBREL"}
      BY <2>1, <2>7 DEF Origin
    <3>2. Leads(mq, Release(k), calls, calls)
      BY <1>1, <2>1, <3>1, ReleaseLeads
    <3> QED BY <1>3, <2>7, <3>2
  <2>8. p.type \in DOMAIN Origin
    BY DEF Receivable, PacketsOf
  <2> QED BY <2>3, <2>4, <2>5, <2>6, <2>7, <2>8 DEF Origin
<1> QED BY <1>1, <1>2, <1>3, AcknowledgeParts

LEMMA DeliverInOrder ==
  ASSUME Inv, OrderInv, NEW p \in Receivable, p.type = "PUBLISH", Deliver(p)
  PROVE  Leads(mq, mq', calls, calls)
<1>1. QueueTyped(mq) /\ error \in Errors /\ calls \in Nat /\ Sorted(mq) /\ Bounded(mq, toBroker, held, got, calls)
  BY DEF Inv, QueueOK, ClientTyped, OrderInv
<1>2. CASE UNCHANGED mq
  BY <1>1, <1>2 DEF Leads
<1>3. CASE p.qos \in {1, 2} /\ TryPack(mq, Simple(IF p.qos = 1 THEN "PUBACK" ELSE "PUBREC", p.pid))
  <2>1. p.pid \in Pids /\ 0 \in Nat
    BY <1>3 DEF Receivable, Numbered, WithoutId
  <2>2. PICK type \in {"PUBACK", "PUBREC"} : type = IF p.qos = 1 THEN "PUBACK" ELSE "PUBREC"
    OBVIOUS
  <2>3. PICK r : r = Simple(type, p.pid)
    OBVIOUS
  <2>4. r.type = type /\ r \in PacketsOf(Types) /\ Numbered(r)
    BY <2>1, <2>3, AnswerPacket
  <2>5. TryPack(mq, r)
    BY <1>3, <2>2, <2>3
  <2> QED BY <1>1, <2>4, <2>5, IrrelevantLeads
<1> QED BY <1>2, <1>3, DeliverParts

LEMMA ReceiveInOrder ==
  ASSUME Inv, ReceivedInv, OrderInv, Receive, UNCHANGED <<reconnects, broker>>
  PROVE  OrderInv'
<1>1. /\ toClient # <<>> /\ toClient \in Seq(Receivable) /\ UNCHANGED <<held, got, toBroker, up, calls>>
      /\ pc = "recv"
  BY DEF Receive, broker, Inv, WireTyped
<1>2. 1 \in DOMAIN toClient /\ Head(toClient) = toClient[1]
  BY <1>1, TailOf
<1>3. PICK p \in Receivable : p = Head(toClient)
  BY <1>1, FirstPacket
<1>4. IF p.type = "PUBLISH" THEN Deliver(p) ELSE Acknowledge(p)
  BY <1>3 DEF Receive
<1>5. Leads(mq, mq', calls, calls)
  BY <1>1, <1>2, <1>3, <1>4, DeliverInOrder, AcknowledgeInOrder
<1>6. pc' # "send"
  BY <1>1, <1>3, <1>4, DeliverKeeps, AcknowledgeKeeps
<1>7. LoopSends'
  BY <1>6 DEF LoopSends
<1> QED BY <1>1, <1>5, <1>7, QueueInOrder

LEMMA SendInOrder ==
  ASSUME Inv, ReceivedInv, OrderInv, Send, UNCHANGED <<reconnects, broker>>
  PROVE  OrderInv'
<1>1. /\ UNCHANGED <<held, got, calls>> /\ pc = "send" /\ i \in 1..Len(mq) /\ QueueTyped(mq)
      /\ DOMAIN mq = 1..Len(mq) /\ Len(mq) \in Nat /\ Sorted(mq) /\ Bounded(mq, toBroker, held, got, calls)
      /\ toBroker \in Seq(Sendable) /\ Garbled.type = "GARBLED"
      /\ \A j \in DOMAIN mq : (j < i /\ mq[j].state = "UNSENT") => IsQos2(mq[j])
  <2>1. UNCHANGED <<held, got, calls>> /\ pc = "send" /\ i \in 1..Len(mq)
    BY SendCases DEF Send, broker
  <2>2. QueueTyped(mq) /\ DOMAIN mq = 1..Len(mq) /\ Len(mq) \in Nat /\ toBroker \in Seq(Sendable)
    BY QueueParts DEF Inv, QueueOK, QueueTyped, WireTyped
  <2>3. i <= Len(mq)
    BY DEF Send
  <2>4. /\ Sorted(mq) /\ Bounded(mq, toBroker, held, got, calls)
        /\ \A j \in DOMAIN mq : (j < i /\ mq[j].state = "UNSENT") => IsQos2(mq[j])
    BY <2>1, <2>3 DEF OrderInv, LoopSends
  <2> QED BY <2>1, <2>2, <2>4, GarbledTyped
<1>2. OrderedAtBroker'
  BY <1>1 DEF OrderInv, OrderedAtBroker
<1>3. \A j \in DOMAIN mq : j < i + 1 => j < i \/ j = i
  BY <1>1
<1>4. CASE ~Due(mq[i]) /\ UNCHANGED <<mq, error, pc, wire>> /\ i' = i + 1
  <2>1. mq[i].state = "UNSENT" => IsQos2(mq[i])
    BY <1>4 DEF Due
  <2>2. LoopSends'
    BY <1>1, <1>3, <1>4, <2>1 DEF LoopSends
  <2>3. UNCHANGED <<toBroker, up>>
    BY <1>4 DEF wire
  <2> QED BY <1>1, <1>2, <1>4, <2>2, <2>3 DEF OrderInv
<1>5. CASE UNCHANGED <<mq, wire>> /\ pc' = "idle"
  <2>1. UNCHANGED <<toBroker, up>> /\ LoopSends'
    BY <1>5 DEF wire, LoopSends
  <2> QED BY <1>1, <1>2, <1>5, <2>1 DEF OrderInv
<1>6. CASE /\ UNCHANGED <<mq, up>> /\ i' = Len(mq) + 1
           /\ toBroker' = toBroker \/ toBroker' = Append(toBroker, Garbled)
  <2>1. LoopSends'
    <3>1. ~(Len(mq) + 1 <= Len(mq))
      BY <1>1
    <3> QED BY <1>6, <3>1 DEF LoopSends
  <2>2. CASE toBroker' = toBroker
    BY <1>1, <1>2, <1>6, <2>1, <2>2 DEF OrderInv
  <2>3. CASE toBroker' = Append(toBroker, Garbled)
    <3>1. PICK d : d = toBroker'
      OBVIOUS
    <3>2. \A n \in DOMAIN d : d[n].type = "PUBLISH" => n \in DOMAIN toBroker /\ d[n] = toBroker[n]
      BY <1>1, <2>3, <3>1, AppendedTo
    <3>3. Bounded(mq, d, held, got, calls)
      BY <1>1, <3>2 DEF Bounded
    <3>4. Ordered(mq, toBroker, held, got) => Ordered(mq, d, held, got)
      BY <1>1, <2>3, <3>1, GarbledOrdered
    <3>5. up => Ordered(mq, d, held, got)
      BY <3>4 DEF OrderInv
    <3> QED BY <1>1, <1>2, <1>6, <2>1, <3>1, <3>3, <3>5 DEF OrderInv
  <2> QED BY <1>6, <2>2, <2>3
<1>7. CASE /\ Due(mq[i]) /\ mq' = [mq EXCEPT ![i] = Sent(mq[i])] /\ i' = i + 1
           /\ UNCHANGED <<pc, up>>
           /\ IF up THEN \E x \in {mq[i].packet, Garbled} : toBroker' = Append(toBroker, x)
                    ELSE toBroker' = toBroker
  <2>1. PICK r, d : r = mq' /\ d = toBroker'
    OBVIOUS
  <2>2. /\ i \in DOMAIN mq /\ DOMAIN r = DOMAIN mq
        /\ \A j \in DOMAIN mq : r[j].packet = mq[j].packet /\ (j # i => r[j] = mq[j])
        /\ r[i].state = AfterSend(mq[i].packet) /\ mq[i].state # "COMPLETE" /\ r[i].state # "UNSENT"
    BY <1>7, <2>1, SentReceived DEF ReceivedInv
  <2>3. LoopSends'
    <3>1. \A j \in DOMAIN mq : (j < i + 1 /\ r[j].state = "UNSENT") => IsQos2(r[j])
      BY <1>1, <1>3, <2>2 DEF IsQos2
    <3> QED BY <1>7, <2>1, <2>2, <3>1 DEF LoopSends
  <2>4. Sorted(r)
    BY <1>1, <2>2, StayingSorted
  <2>5. Bounded(r, toBroker, held, got, calls)
    BY <1>1, <2>2 DEF Bounded
  <2>6. CASE ~up
    <3>1. toBroker' = toBroker /\ ~up'
      BY <1>7, <2>6
    <3> QED BY <1>1, <1>2, <2>1, <2>3, <2>4, <2>5, <3>1 DEF OrderInv
  <2>7. CASE up
    <3>1. PICK x \in {mq[i].packet, Garbled} : d = Append(toBroker, x)
      BY <1>7, <2>1, <2>7
    <3>2. Written(mq, r, i, toBroker, d, x)
      BY <1>1, <2>2, <3>1 DEF Written
    <3>3. Ordered(mq, toBroker, held, got)
      BY <2>7 DEF OrderInv
    <3>4. Zeros(r, d, got) /\ Ones(r, d, got) /\ Twos(r, d, held, got)
      BY <3>2, <3>3, WrittenZeros, WrittenOnes, WrittenTwos DEF Ordered
    <3>5. \A n \in DOMAIN d : (n \in DOMAIN toBroker /\ d[n] = toBroker[n]) \/ d[n] = x
      BY <1>1, <3>1, AppendedTo
    <3>6. x.type = "PUBLISH" => x.val \in 0..calls
      BY <1>1, <2>2, <3>1 DEF Bounded
    <3>7. Bounded(r, d, held, got, calls)
      BY <2>5, <3>5, <3>6 DEF Bounded
    <3> QED BY <1>1, <1>2, <2>1, <2>3, <2>4, <3>4, <3>7 DEF OrderInv, Ordered
  <2> QED BY <2>6, <2>7
<1> QED BY <1>4, <1>5, <1>6, <1>7, SendCases

-----------------------------------------------------------------------------
(* The publishes stay in order: the steps of the broker.                   *)

\* The broker takes over the packet it reads, what that releases, or nothing; I is what
\* it holds then.
LEMMA TakenInOrder ==
  ASSUME Inv, ReceivedInv, OrderInv, up, toBroker # <<>>, UNCHANGED <<mq, calls>>, LoopSends',
         toBroker' = Tail(toBroker), NEW x, x = toBroker[1], x.type # "GARBLED",
         \/ got' = got /\ ~AtQos(x, 1)
         \/ got' = Append(got, x) /\ (AtQos(x, 0) \/ AtQos(x, 1))
         \/ x.type = "PUBREL" /\ \E h \in held : h.pid = x.pid /\ got' = Append(got, h),
         \A h \in held' : h \in held \/ (h = x /\ AtQos2(x)),
         x.type = "PUBREL" => \A h \in held' : h.pid # x.pid
  PROVE  OrderInv'
<1>1. PICK q, b, d, H, I, G, F, c : /\ q = mq /\ b = toBroker /\ d = toBroker' /\ H = held /\ I = held'
                                    /\ G = got /\ F = got' /\ c = calls
  OBVIOUS
<1>2. /\ b \in Seq(Sendable) /\ G \in Seq(Sendable) /\ c \in Nat /\ ReceivedOK(mq) /\ NoneAfterRelease
      /\ Sorted(q) /\ Bounded(q, b, H, G, c) /\ InOrder(G, 2) /\ InOrder(G, 0) /\ FirstsInOrder(G, 1)
      /\ Zeros(q, b, G) /\ Ones(q, b, G) /\ Twos(q, b, H, G) /\ \A h \in H : AtQos2(h)
  BY <1>1 DEF Inv, WireTyped, ClientTyped, ReceivedInv, HeldTyped, OrderInv, OrderedAtBroker, Ordered
<1>3. Reads(b, d, x, G, F)
  BY <1>1, <1>2 DEF Reads
<1>4. /\ 1 \in DOMAIN b /\ \A n \in DOMAIN d : n + 1 \in DOMAIN b /\ 1 < n + 1 /\ d[n] = b[n + 1]
  BY <1>3, ReadParts
<1>5. /\ x = b[1] /\ (\A y \in I : y \in H \/ (y = x /\ AtQos2(x))) /\ (x.type = "PUBREL" => \A h \in I : h.pid # x.pid)
      /\ AtQos(x, 1) => F = Append(G, x)
      /\ \/ F = G
         \/ F = Append(G, x) /\ (AtQos(x, 0) \/ AtQos(x, 1))
         \/ x.type = "PUBREL" /\ \E h \in H : h.pid = x.pid /\ F = Append(G, h)
  BY <1>1 DEF AtQos
<1>6. ASSUME NEW j \in DOMAIN F
      PROVE  \/ j \in DOMAIN G /\ F[j] = G[j]
             \/ F[j] = x /\ (AtQos(x, 0) \/ AtQos(x, 1))
             \/ x.type = "PUBREL" /\ F[j] \in H /\ F[j].pid = x.pid
  <2>1. CASE F = G
    BY <1>6, <2>1
  <2>2. ASSUME NEW y, F = Append(G, y)
        PROVE  (j \in DOMAIN G /\ F[j] = G[j]) \/ F[j] = y
    BY <1>3, <1>6, <2>2, ReadParts
  <2> QED BY <1>5, <2>1, <2>2
<1>7. x.type = "PUBREL" => \A y \in Live(q, d, I) : y.pid # x.pid
  <2>1. SUFFICES ASSUME x.type = "PUBREL", NEW y \in Live(q, d, I), y.pid = x.pid
                 PROVE  FALSE
    OBVIOUS
  <2>2. y \notin I
    BY <1>5, <2>1
  <2>3. ASSUME NEW n \in DOMAIN d, AtQos2(d[n]), y = d[n]
        PROVE  FALSE
    <3>1. n + 1 \in DOMAIN b /\ 1 < n + 1 /\ d[n] = b[n + 1]
      BY <1>4
    <3> QED BY <1>1, <1>2, <1>4, <1>5, <2>1, <2>3, <3>1 DEF NoneAfterRelease
  <2>4. ASSUME NEW j \in DOMAIN q, y = q[j].packet, IsQos2(q[j]), q[j].state # "COMPLETE"
        PROVE  FALSE
    <3>1. Is(mq[j], "PUBLISH", x.pid) /\ j \in DOMAIN mq
      BY <1>1, <2>1, <2>4 DEF Is, IsQos2
    <3>2. HasRelease(mq, x.pid)
      BY <1>1, <1>2, <1>4, <1>5, <2>1, <3>1 DEF ReceivedOK, SentAsQueued
    <3>3. PICK k \in DOMAIN mq : Is(mq[k], "PUBREL", x.pid)
      BY <3>2 DEF HasRelease
    <3>4. j # k /\ mq[j].packet.pid = mq[k].packet.pid /\ Draws(mq[j].packet.type) /\ mq[k].packet.type = "PUBREL"
      BY <3>1, <3>3 DEF Is, Draws
    <3>5. mq[j].state = "COMPLETE"
      BY <3>1, <3>3, <3>4 DEF Inv, QueueOK, Distinct
    <3> QED BY <1>1, <2>4, <3>5
  <2> QED BY <2>2, <2>3, <2>4 DEF Live
<1>8. Zeros(q, d, F) /\ InOrder(F, 0)
  <2>1. \A j \in DOMAIN F : F[j].qos = 0 => \/ j \in DOMAIN G /\ F[j] = G[j]
                                            \/ F[j] = x /\ AtQos(x, 0)
    BY <1>2, <1>6 DEF AtQos, AtQos2
  <2> QED BY <1>2, <1>3, <2>1, ReadZeros
<1>9. Ones(q, d, F) /\ FirstsInOrder(F, 1)
  <2>1. \A j \in DOMAIN F : F[j].qos = 1 => \/ j \in DOMAIN G /\ F[j] = G[j]
                                            \/ F[j] = x /\ AtQos(x, 1)
    BY <1>2, <1>6 DEF AtQos, AtQos2
  <2> QED BY <1>2, <1>3, <1>5, <2>1, ReadOnes
<1>10. Twos(q, d, I, F) /\ InOrder(F, 2)
  <2>1. \A j \in DOMAIN F : F[j].qos = 2 =>
          \/ j \in DOMAIN G /\ F[j] = G[j]
          \/ x.type = "PUBREL" /\ F[j] \in Live(q, b, H) /\ F[j].pid = x.pid
    BY <1>6 DEF AtQos, Live
  <2>2. Releasing(q, b, d, x, H, I, G, F)
    BY <1>5, <1>7, <2>1 DEF Releasing
  <2> QED BY <1>2, <1>3, <2>2, ReadTwos
<1>11. Bounded(q, d, I, F, c)
  <2>1. \A n \in DOMAIN d : d[n].type = "PUBLISH" => d[n].val \in 0..c
    BY <1>2, <1>4 DEF Bounded
  <2>2. AtQos2(x) \/ AtQos(x, 0) \/ AtQos(x, 1) => x.val \in 0..c
    BY <1>2, <1>4, <1>5 DEF Bounded, AtQos2, AtQos
  <2>3. \A h \in I : h.val \in 0..c
    BY <1>2, <1>5, <2>2 DEF Bounded
  <2>4. \A j \in DOMAIN F : F[j].val \in 0..c
    BY <1>2, <1>6, <2>2 DEF Bounded
  <2> QED BY <1>2, <2>1, <2>3, <2>4 DEF Bounded
<1>12. OrderedAtBroker'
  BY <1>1, <1>8, <1>9, <1>10 DEF OrderedAtBroker, InOrder, FirstsInOrder
<1> QED BY <1>1, <1>2, <1>8, <1>9, <1>10, <1>11, <1>12 DEF OrderInv, Ordered

LEMMA BrokerInOrder ==
  ASSUME Inv, ReceivedInv, OrderInv, BrokerReceives, UNCHANGED client
  PROVE  OrderInv'
<1>1. /\ UNCHANGED <<mq, calls, pc, i>> /\ up /\ toBroker # <<>> /\ toBroker' = Tail(toBroker)
      /\ toBroker \in Seq(Sendable)
  BY DEF client, BrokerReceives, Inv, WireTyped
<1>2. LoopSends'
  BY <1>1 DEF OrderInv, LoopSends
<1>3. PICK p : p = Head(toBroker)
  OBVIOUS
<1>4. p = toBroker[1] /\ \A n \in DOMAIN toBroker' : n + 1 \in DOMAIN toBroker /\ toBroker'[n] = toBroker[n + 1]
  BY <1>1, <1>3, TailOf
<1>5. CASE Close
  <2>1. UNCHANGED <<held, got>> /\ up' = FALSE
    BY <1>5 DEF Close
  <2>2. PICK d : d = toBroker'
    OBVIOUS
  <2>3. Bounded(mq, d, held, got, calls) /\ Sorted(mq)
    BY <1>4, <2>2 DEF OrderInv, Bounded
  <2>4. OrderedAtBroker'
    BY <2>1 DEF OrderInv, OrderedAtBroker
  <2> QED BY <1>1, <1>2, <2>1, <2>2, <2>3, <2>4 DEF OrderInv
<1>6. CASE UNCHANGED <<held, got>> /\ p.type \notin {"PUBLISH", "PUBREL", "GARBLED"}
  <2>1. ~AtQos(p, 1)
    BY <1>6 DEF AtQos
  <2> QED BY <1>1, <1>2, <1>4, <1>6, <2>1, TakenInOrder
<1>7. CASE p.type = "PUBLISH" /\ OnPublish(p)
  <2>1. CASE p.qos \in {0, 1} /\ got' = Append(got, p) /\ held' = held
    <3>1. AtQos(p, 0) \/ AtQos(p, 1)
      BY <1>7, <2>1 DEF AtQos
    <3> QED BY <1>1, <1>2, <1>4, <1>7, <2>1, <3>1, TakenInOrder
  <2>2. CASE p.qos = 2 /\ got' = got /\ held' = IF \E h \in held : h.pid = p.pid THEN held ELSE held \cup {p}
    <3>1. ~AtQos(p, 1) /\ \A h \in held' : h \in held \/ (h = p /\ AtQos2(p))
      BY <1>7, <2>2 DEF AtQos, AtQos2
    <3> QED BY <1>1, <1>2, <1>4, <1>7, <2>2, <3>1, TakenInOrder
  <2> QED BY <1>7, <2>1, <2>2 DEF OnPublish
<1>8. CASE p.type = "PUBREL" /\ OnPubrel(p)
  <2>1. /\ held' = {h \in held : h.pid # p.pid}
        /\ (held' = held /\ got' = got) \/ \E h \in held \ held' : got' = Append(got, h)
    BY <1>8 DEF OnPubrel
  <2>2. /\ held' \subseteq held /\ \A h \in held' : h.pid # p.pid
        /\ got' = got \/ \E h \in held : h.pid = p.pid /\ got' = Append(got, h)
    BY <2>1
  <2>3. ~AtQos(p, 1)
    BY <1>8 DEF AtQos
  <2> QED BY <1>1, <1>2, <1>4, <1>8, <2>2, <2>3, TakenInOrder
<1>9. OnRequest(p) => UNCHANGED <<held, got>> /\ p.type \in {"SUBSCRIBE", "UNSUBSCRIBE", "PINGREQ"}
  BY DEF OnRequest
<1>10. OnAnswer(p) => p.type \in {"PUBACK", "PUBCOMP", "PUBREC"}
  BY DEF OnAnswer
<1> QED BY <1>3, <1>5, <1>6, <1>7, <1>8, <1>9, <1>10, BrokerCases

LEMMA BrokerSendsInOrder ==
  ASSUME OrderInv, BrokerResends \/ \E qos \in OutQos : BrokerPublishes(qos), UNCHANGED client
  PROVE  OrderInv'
<1>1. UNCHANGED <<mq, calls, pc, i, held, got, toBroker, up>>
  BY DEF client, BrokerResends, BrokerPublishes
<1>2. LoopSends' /\ OrderedAtBroker'
  BY <1>1 DEF OrderInv, LoopSends, OrderedAtBroker
<1> QED BY <1>1, <1>2 DEF OrderInv

LEMMA InOrderSteps ==
  ASSUME Inv, Nothing, ReceivedInv, OrderInv, [Next]_vars, [DrawsFree]_vars
  PROVE  OrderInv'
<1>1. CASE UNCHANGED vars
  <2>1. UNCHANGED <<mq, calls, pc, i, held, got, toBroker, up>>
    BY <1>1 DEF vars, client, broker, wire
  <2>2. LoopSends' /\ OrderedAtBroker'
    BY <2>1 DEF OrderInv, LoopSends, OrderedAtBroker
  <2> QED BY <2>1, <2>2 DEF OrderInv
<1>2. ASSUME NEW c \in Calls, Call(c[1], c[2])
      PROVE  DrawsFree
  <2>1. calls \in Nat /\ calls' = calls + 1
    BY <1>2 DEF Inv, ClientTyped, Call, Called
  <2>2. calls' # calls
    BY <2>1
  <2> QED BY <2>2 DEF vars, client
<1> QED BY <1>1, <1>2, Steps, StillInOrder, ReceiveInOrder, SendInOrder, CallInOrder, UnsubscribeInOrder,
           ReconnectInOrder, BrokerInOrder, BrokerSendsInOrder, BreakInOrder

\* If no identifier is drawn that belongs to an exchange of which something is still under
\* way, the broker takes over the publishes of QoS 2 at most once and in the order of the
\* calls, those of QoS 0 in that order, and none of QoS 1 for the first time after a later
\* one (mqtt.c __mqtt_send, __mqtt_recv): through timeouts, cleanings of the queue and new
\* connections.  inflight_qos2 (mqtt.c:504-515) is why.
THEOREM AllReceivedInOrder ==
  Spec /\ [][DrawsFree]_vars => []OrderedAtBroker
<1>1. Init => Nothing /\ OrderInv
  <2>1. SUFFICES ASSUME Init PROVE Nothing /\ OrderInv
    OBVIOUS
  <2>2. /\ mq = <<>> /\ toBroker = <<>> /\ held = {} /\ got = <<>> /\ Nothing /\ pc # "send"
        /\ DOMAIN mq = {} /\ DOMAIN got = {}
    BY <2>1 DEF Init, ClientInit, BrokerInit, WireInit, Nothing
  <2>3. Sorted(mq) /\ Bounded(mq, <<>>, {}, got, calls) /\ Ordered(mq, <<>>, {}, got)
    BY <2>2, FreshInOrder
  <2>4. LoopSends /\ OrderedAtBroker
    BY <2>2 DEF LoopSends, OrderedAtBroker, InOrder, FirstsInOrder
  <2> QED BY <2>2, <2>3, <2>4 DEF OrderInv
<1>2. Inv /\ Nothing /\ ReceivedInv /\ OrderInv /\ [Next]_vars /\ [DrawsFree]_vars => Nothing' /\ OrderInv'
  BY NothingSteps, InOrderSteps
<1>3. OrderInv => OrderedAtBroker
  BY DEF OrderInv
<1> QED BY <1>1, <1>2, <1>3, Invariant, ReceivedInvariant, PTL DEF Spec

=============================================================================
