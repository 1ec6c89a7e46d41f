----------------------------- MODULE MqttStream -----------------------------
(***************************************************************************)
(* The bytes of the connection: how the packets of the broker arrive in    *)
(* parts and are put together again by __mqtt_recv in a buffer of limited  *)
(* size, and what the requests of the client look like to the broker.      *)
(* What the client does with a packet is module MqttClient, which takes    *)
(* packets whole.                                                          *)
(***************************************************************************)
EXTENDS MqttPacket

CONSTANTS
  RecvCap,      \* bytes of the receive buffer
  Incoming,     \* packets that the broker may send
  Strays,       \* bytes it may send that are no packet for a client
  MaxPackets,   \* BOUND on packets sent
  Requests,     \* requests the client may pack
  Rooms         \* bytes that may be free for one

ASSUME StreamAssumption == RecvCap \in Nat \ {0} /\ MaxPackets \in Nat /\ Rooms \subseteq Nat

VARIABLES
  net,      \* bytes sent by the broker, not yet read
  buffer,   \* bytes read, from recv_buffer.mem_start to recv_buffer.curr
  error,    \* mqtt_client.error
  sent,     \* HISTORY: packets sent by the broker
  got,      \* HISTORY: responses unpacked, in order
  asked     \* HISTORY: the request packed by this step, its room and the outcome

vars == <<net, buffer, error, sent, got, asked>>

Errors ==
  {"OK", "CONTROL_FORBIDDEN_TYPE", "CONTROL_INVALID_FLAGS", "INVALID_REMAINING_LENGTH",
   "MALFORMED_RESPONSE", "CONNACK_FORBIDDEN_FLAGS", "CONNACK_FORBIDDEN_CODE",
   "RESPONSE_INVALID_CONTROL_TYPE", "RECV_BUFFER_TOO_SMALL"}

NoRequest == [request |-> [type |-> "none"], room |-> 0, result |-> Refused("none")]

Init ==
  /\ net = <<>> /\ buffer = <<>> /\ error = "OK"
  /\ sent = <<>> /\ got = <<>> /\ asked = NoRequest

-----------------------------------------------------------------------------
(* The broker, external, writes and reads packets as MQTT 3.1.1 says.      *)

Word(n) == <<n \div WordBase, n % WordBase>>
String(text) == Word(Len(text)) \o text

Body(p) ==
  CASE p.type = "CONNACK" -> <<p.session, p.code>>
    [] p.type = "PUBLISH" ->
         String(p.topic) \o (IF p.qos > 0 THEN Word(p.id) ELSE <<>>) \o p.message
    [] p.type = "SUBACK" -> Word(p.id) \o p.codes
    [] p.type = "PINGRESP" -> <<>>
    [] OTHER -> Word(p.id)

Flags(p) ==
  CASE p.type = "PUBLISH" -> 8 * Bit(p.dup) + 2 * p.qos + Bit(p.retain)
    [] p.type = "PUBREL" -> 2
    [] OTHER -> 0

\* The number n in as few digits as it takes, each but the last one marked.
Digits(n) ==
  LET B == LengthBase
      q1 == n \div B   q2 == q1 \div B   q3 == q2 \div B
      marked(m) == (m % B) + B
  IN IF q1 = 0 THEN <<n>>
     ELSE IF q2 = 0 THEN <<marked(n), q1>>
     ELSE IF q3 = 0 THEN <<marked(n), marked(q1), q2>>
     ELSE <<marked(n), marked(q1), marked(q2), q3>>

Encode(p) ==
  IF p.type = "stray" THEN p.bytes
  ELSE <<16 * Code(p.type) + Flags(p)>> \o Digits(Len(Body(p))) \o Body(p)

\* What a broker sends: identifiers of quality 0 do not exist, a SUBACK has a
\* code, and no packet is longer than the standard allows.
ASSUME IncomingAssumption ==
  /\ Incoming \subseteq
       [type : {"CONNACK"}, session : {0, 1}, code : 0..5]
         \cup [type : {"PUBLISH"}, dup : BOOLEAN, qos : 0..2, retain : BOOLEAN,
               topic : Texts, id : Nat, message : Texts]
         \cup [type : {"PUBACK", "PUBREC", "PUBREL", "PUBCOMP", "UNSUBACK"}, id : Nat]
         \cup [type : {"SUBACK"}, id : Nat, codes : Texts \ {<<>>}]
         \cup [type : {"PINGRESP"}]
  /\ \A p \in Incoming : /\ Len(Body(p)) < LengthLimit
                         /\ p.type = "PUBLISH" /\ p.qos = 0 => p.id = 0

\* A client cannot read a stray, and knows it when it has all of it or before.
ASSUME StrayAssumption ==
  /\ Strays \subseteq Texts \ {<<>>}
  /\ \A s \in Strays :
       /\ UnpackResponse(s).rv \notin {"OK", "INCOMPLETE"}
       /\ \A n \in 1..(Len(s) - 1) : UnpackResponse(SubSeq(s, 1, n)).rv # "OK"

\* At most one: <<>> for the NULL of the code.
Optional(S) == {s \in Seq(S) : Len(s) <= 1}

\* What the functions of mqtt.h take; mqtt_publish and mqtt_connect refuse the
\* quality 3.
ASSUME RequestsAssumption ==
  Requests \subseteq
    [type : {"CONNECT"}, client : Texts, clean : BOOLEAN,
     will : Optional([topic : Texts, message : Optional(Texts)]), willQos : 0..3,
     willRetain : BOOLEAN, user : Optional(Texts), password : Optional(Texts), keepAlive : Nat]
      \cup [type : {"PUBLISH"}, topic : Texts, id : Nat, qos : 0..3, dup : BOOLEAN,
            retain : BOOLEAN, message : Texts]
      \cup [type : {"PUBACK", "PUBREC", "PUBREL", "PUBCOMP"}, id : Nat]
      \cup [type : {"SUBSCRIBE"}, id : Nat, topics : Seq([name : Texts, qos : Bytes])]
      \cup [type : {"UNSUBSCRIBE"}, id : Nat, topics : Seq(Texts)]
      \cup [type : {"PINGREQ", "DISCONNECT"}]

Sendable == Incoming \cup {[type |-> "stray", bytes |-> s] : s \in Strays}

\* Strays, packets longer than the receive buffer, and, by UnpackPublish, a
\* publish with a body of less than four bytes.
Unreadable ==
  {p \in Sendable : \/ p.type = "stray" \/ Len(Encode(p)) > RecvCap
                    \/ p.type = "PUBLISH" /\ Len(Body(p)) < 4}

BrokerSends(p) ==
  /\ Len(sent) < MaxPackets
  /\ sent' = Append(sent, p) /\ net' = net \o Encode(p)
  /\ asked' = NoRequest
  /\ UNCHANGED <<buffer, error, got>>

-----------------------------------------------------------------------------
(* The client.                                                             *)

\* Mutant: the buffer counts as one byte larger than it is.
RecvAll_PastEnd(n) == n <= Len(net) /\ n <= RecvCap + 1 - Len(buffer)

\* mqtt_pal_recvall reads what has arrived, n bytes, as far as there is room.
RecvAll(n) == n <= Len(net) /\ n <= RecvCap - Len(buffer)

\* Mutant: the bytes that came with a packet and belong to the next go with it.
Remaining_Dropped(bytes, size) == <<>>

\* What is behind a packet is moved to the start of the buffer.
Remaining(bytes, size) == SubSeq(bytes, size + 1, Len(bytes))

\* One turn of the loop of __mqtt_recv, and its next call after a turn that had
\* to wait for more.  An error stops it for good.
Recv(n) ==
  /\ error = "OK" /\ RecvAll(n)
  /\ net' = SubSeq(net, n + 1, Len(net))
  /\ LET bytes == buffer \o SubSeq(net, 1, n)
         response == UnpackResponse(bytes)
     IN \/ /\ response.rv = "OK"
           /\ got' = Append(got, response.packet)
           /\ buffer' = Remaining(bytes, response.size)
           /\ UNCHANGED error
        \/ /\ response.rv = "INCOMPLETE"
           /\ error' = IF Len(bytes) = RecvCap THEN "RECV_BUFFER_TOO_SMALL" ELSE error
           /\ buffer' = bytes /\ UNCHANGED got
        \/ /\ response.rv \notin {"OK", "INCOMPLETE"}
           /\ error' = response.rv
           /\ buffer' = bytes /\ UNCHANGED got
  /\ asked' = NoRequest
  /\ UNCHANGED sent

\* A request is packed into a buffer with some room.  Packing and receiving have
\* no memory in common; BOUND: one request at a time, before any packet arrives.
Request(q, room) ==
  /\ sent = <<>> /\ asked = NoRequest
  /\ asked' = [request |-> q, room |-> room, result |-> Pack(q, room)]
  /\ UNCHANGED <<net, buffer, error, sent, got>>

Next ==
  \/ \E p \in Sendable : BrokerSends(p)
  \/ \E n \in 0..RecvCap : Recv(n)
  \/ \E q \in Requests, room \in Rooms : Request(q, room)

Spec == Init /\ [][Next]_vars

\* mqtt_sync is called for ever, and TCP delivers what was sent.
FairSpec == Spec /\ WF_vars(\E n \in 0..RecvCap : Recv(n))

-----------------------------------------------------------------------------
(* Properties.                                                             *)

\* The receive buffer never holds more than its size, and all in it is bytes.
TypeOK ==
  /\ net \in Seq(Bytes) /\ buffer \in Seq(Bytes) /\ Len(buffer) <= RecvCap
  /\ error \in Errors

\* Whatever parts the packets arrive in, the client gets each whole, once and
\* in order, and stops only at one it cannot read: a packet that fills the
\* buffer to its end is still read.
Promised == INSTANCE PacketStream WITH failed <- error # "OK"
ImplementsPacketStream == Promised!Spec

\* Every packet is received in the end, or the client has stopped.
AllReceived ==
  \A k \in 1..MaxPackets : Len(sent) >= k ~> (Len(got) >= k \/ error # "OK")

\* How the broker reads a request: its length, and the texts in its body from
\* position i on, each followed by gap more bytes.
HeaderLen(b) == 1 + (CHOOSE k \in 1..4 : b[k + 1] < LengthBase /\ \A j \in 2..k : b[j] >= LengthBase)
Announced(b) ==
  SumFunction([i \in 1..(HeaderLen(b) - 1) |-> (b[i + 1] % LengthBase) * LengthBase^(i - 1)])
TextsFrom(body, first, gap) ==
  LET after(i) == i + 2 + body[i] * WordBase + body[i + 1]
      texts[i \in 1..(Len(body) + 1)] ==
        IF i > Len(body) THEN <<>>
        ELSE <<SubSeq(body, i + 2, after(i) - 1)>> \o texts[after(i) + gap]
  IN texts[first]

ReadsConnect(q, body) ==
  LET willed == q.will # <<>>
      flags == body[8]
      bit(i) == (flags \div 2^i) % 2 = 1
  IN /\ SubSeq(body, 1, 7) = <<0, 4, 77, 81, 84, 84, 4>>
     /\ body[9] * WordBase + body[10] = q.keepAlive
     /\ TextsFrom(body, 11, 0) =
          <<q.client>> \o (IF willed THEN <<q.will[1].topic>> \o q.will[1].message ELSE <<>>)
            \o q.user \o q.password
     /\ ~bit(0) /\ bit(1) = q.clean /\ bit(2) = willed
     /\ (flags \div 8) % 4 = (IF willed THEN q.willQos ELSE 0)
     /\ bit(5) = (willed /\ q.willRetain)
     /\ bit(6) = (q.password # <<>>) /\ bit(7) = (q.user # <<>>)

ReadsPublish(q, flags, body) ==
  LET after == 3 + Len(q.topic)
  IN /\ flags = 8 * Bit(q.dup /\ q.qos > 0) + 2 * q.qos + Bit(q.retain)
     /\ TextsFrom(SubSeq(body, 1, after - 1), 1, 0) = <<q.topic>>
     /\ IF q.qos = 0 THEN SubSeq(body, after, Len(body)) = q.message
        ELSE /\ body[after] * WordBase + body[after + 1] = q.id
             /\ SubSeq(body, after + 2, Len(body)) = q.message

\* The body is that of the request q.
Reads(q, flags, body) ==
  CASE q.type = "CONNECT" -> flags = 0 /\ ReadsConnect(q, body)
    [] q.type = "PUBLISH" -> ReadsPublish(q, flags, body)
    [] q.type \in {"SUBSCRIBE", "UNSUBSCRIBE"} ->
         /\ flags = 2 /\ body[1] * WordBase + body[2] = q.id
         /\ IF q.type = "UNSUBSCRIBE" THEN TextsFrom(body, 3, 0) = q.topics
            ELSE TextsFrom(body, 3, 1) = [i \in 1..Len(q.topics) |-> q.topics[i].name]
    [] q.type \in {"PINGREQ", "DISCONNECT"} -> flags = 0 /\ body = <<>>
    [] OTHER -> /\ flags = (IF q.type = "PUBREL" THEN 2 ELSE 0)
                /\ Len(body) = 2 /\ body[1] * WordBase + body[2] = q.id

\* A packed request has exactly the length it announces, and the broker reads
\* from it what was asked.
PackedIsRead ==
  LET b == asked.result.bytes
  IN asked.result.rv = "OK" =>
       /\ Len(b) = HeaderLen(b) + Announced(b)
       /\ b[1] \div 16 = Code(asked.request.type)
       /\ Reads(asked.request, b[1] % 16, SubSeq(b, HeaderLen(b) + 1, Len(b)))

\* Packing writes nothing behind the room it was given.  MQTT_CLIENT_TRY_PACK
\* leans on this, for it registers as many bytes as were written.
\* It is so only for PublishesMeasured, which all texts of the programs are and those
\* of the runs: of a message of 65536 bytes or more the length is cut (mqtt.c:1266)
\* before the room is checked, and all of it is copied (mqtt.c:1301).
PackedFits == Len(asked.result.bytes) <= asked.room

\* No publish has a topic or a message whose length uint16_t cuts.  The lengths
\* of both are cut before they are added up, and the message is copied whole.
PublishesMeasured ==
  \A q \in Requests : q.type = "PUBLISH" =>
    PackedLen(q.topic) < WordBase * WordBase /\ Len(q.message) < WordBase * WordBase

=============================================================================
