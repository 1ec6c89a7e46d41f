----------------------------- MODULE MqttPacket -----------------------------
(***************************************************************************)
(* Packing requests into bytes and unpacking responses from bytes, as      *)
(* mqtt.c does it.  A text is the sequence of its bytes, without the null; *)
(* an optional one is a sequence of at most one text, <<>> for NULL.       *)
(***************************************************************************)
EXTENDS Integers, SequencesExt

CONSTANTS
  LengthBase,   \* 128 in the code: a byte of the remaining length has one digit
                \* to this base, and a byte from this base on is continued
  WordBase,     \* 256 in the code: a uint16_t has two digits to this base
  MaxTopics     \* MQTT_SUBSCRIBE_REQUEST_MAX_NUM_TOPICS, 8

ASSUME BaseAssumption ==
  /\ LengthBase \in Nat \ {0, 1} /\ WordBase \in Nat \ {0, 1} /\ MaxTopics \in Nat \ {0}

Bytes == Nat
Texts == Seq(Bytes)

\* 256*1024*1024
LengthLimit == LengthBase * LengthBase * LengthBase * LengthBase

ControlTypes == <<"CONNECT", "CONNACK", "PUBLISH", "PUBACK", "PUBREC", "PUBREL", "PUBCOMP",
                  "SUBSCRIBE", "SUBACK", "UNSUBSCRIBE", "UNSUBACK", "PINGREQ", "PINGRESP",
                  "DISCONNECT">>
Code(type) == CHOOSE c \in 1..14 : ControlTypes[c] = type

-----------------------------------------------------------------------------
(* The fixed header.                                                       *)

\* mqtt_fixed_header_rules: the flags each type must have; a PUBLISH has any.
RequiredFlags(type) == IF type \in {"PUBREL", "SUBSCRIBE", "UNSUBSCRIBE"} THEN 2 ELSE 0

RuleViolation(code, flags) ==
  IF code \notin 1..14 THEN "CONTROL_FORBIDDEN_TYPE"
  ELSE IF ControlTypes[code] # "PUBLISH" /\ flags # RequiredFlags(ControlTypes[code])
       THEN "CONTROL_INVALID_FLAGS"
       ELSE "OK"

\* Outcomes of packing: the bytes, or nothing and why ("FULL" is the 0 of the
\* code: the buffer has not room enough).
Packed(bytes) == [rv |-> "OK", bytes |-> bytes]
Refused(rv)   == [rv |-> rv, bytes |-> <<>>]

\* Mutant: the continue bit is forgotten at the first two-byte length.
LengthBytes_OffByOne(n) ==
  LET rest == <<n, n \div LengthBase, (n \div LengthBase) \div LengthBase,
                ((n \div LengthBase) \div LengthBase) \div LengthBase>>
      last == CHOOSE i \in 1..4 : /\ rest[i] <= LengthBase
                                  /\ \A j \in 1..(i - 1) : rest[j] > LengthBase
  IN [i \in 1..last |-> (rest[i] % LengthBase) + (IF i = last THEN 0 ELSE LengthBase)]

\* The loop over the digits of the remaining length: rest[i] is what is left of
\* it in turn i, and the last turn is the first that leaves nothing.
LengthBytes(n) ==
  LET rest == <<n, n \div LengthBase, (n \div LengthBase) \div LengthBase,
                ((n \div LengthBase) \div LengthBase) \div LengthBase>>
      last == CHOOSE i \in 1..4 : /\ rest[i] < LengthBase
                                  /\ \A j \in 1..(i - 1) : rest[j] >= LengthBase
  IN [i \in 1..last |-> (rest[i] % LengthBase) + (IF i = last THEN 0 ELSE LengthBase)]

PackFixedHeader(type, flags, length, room) ==
  LET bytes == <<16 * Code(type) + flags>> \o LengthBytes(length)
      violation == RuleViolation(Code(type), flags)
  IN IF violation # "OK" THEN Refused(violation)
     ELSE IF room = 0 THEN Refused("FULL")
     ELSE IF length >= LengthLimit THEN Refused("INVALID_REMAINING_LENGTH")
     ELSE IF room < Len(bytes) + length THEN Refused("FULL")
     ELSE Packed(bytes)

\* Outcomes of unpacking; "INCOMPLETE" is the 0 of the code.
Stopped(rv) == [rv |-> rv, size |-> 0]

\* Positions at which the length may end: a byte of the first four that is not
\* continued.
LengthEnds(buf) == {i \in 2..5 : i <= Len(buf) /\ buf[i] < LengthBase}

\* The digits up to position e, the least significant first.
LengthOf(buf, e) ==
  LET digit(i) == IF i <= e THEN buf[i] % LengthBase ELSE 0
  IN digit(2) + LengthBase * (digit(3) + LengthBase * (digit(4) + LengthBase * digit(5)))

UnpackFixedHeader(buf) ==
  IF LengthEnds(buf) = {}
  THEN Stopped(IF Len(buf) < 5 THEN "INCOMPLETE" ELSE "INVALID_REMAINING_LENGTH")
  ELSE LET e == CHOOSE i \in LengthEnds(buf) : \A j \in LengthEnds(buf) : i <= j
           violation == RuleViolation(buf[1] \div 16, buf[1] % 16)
       IN IF violation # "OK" THEN Stopped(violation)
          ELSE IF Len(buf) - e < LengthOf(buf, e) THEN Stopped("INCOMPLETE")
          ELSE [rv |-> "OK", size |-> e, code |-> buf[1] \div 16,
                flags |-> buf[1] % 16, length |-> LengthOf(buf, e)]

-----------------------------------------------------------------------------
(* Requests.                                                               *)

\* __mqtt_pack_uint16 in network order, after the conversion to uint16_t.
PackUint16(n) == <<(n \div WordBase) % WordBase, n % WordBase>>
UnpackUint16(buf, i) == buf[i] * WordBase + buf[i + 1]
Truncated(n) == n % (WordBase * WordBase)

PackStr(text) == PackUint16(Len(text)) \o SubSeq(text, 1, Truncated(Len(text)))
PackedLen(text) == 2 + Len(text)

\* The loop that adds up the lengths of several texts.
Total(lens) ==
  LET sum[i \in 0..Len(lens)] == IF i = 0 THEN 0 ELSE sum[i - 1] + lens[i]
  IN sum[Len(lens)]

Bit(b) == IF b THEN 1 ELSE 0

\* The header for a body of the length that the code computed, and the body.
Assemble(type, flags, length, body, room) ==
  LET header == PackFixedHeader(type, flags, length, room)
  IN IF header.rv = "OK" THEN Packed(header.bytes \o body) ELSE header

\* The connect flags after mqtt_pack_connection_request has made them agree with
\* the texts it was given.
ConnectFlags(q) ==
  LET willed == q.will # <<>>
  IN 2 * Bit(q.clean) + 4 * Bit(willed) + (IF willed THEN 8 * q.willQos ELSE 0)
       + 32 * Bit(willed /\ q.willRetain) + 64 * Bit(q.password # <<>>)
       + 128 * Bit(q.user # <<>>)

\* A will is [topic, message] with an optional message.
PackConnect(q, room) ==
  LET names == <<q.client>> \o q.user \o q.password
      message == q.will[1].message[1]
      length == 10 + Total([i \in 1..Len(names) |-> PackedLen(names[i])])
                   + (IF q.will = <<>> THEN 0
                      ELSE PackedLen(q.will[1].topic) + 2 + Len(message))
      will == IF q.will = <<>> THEN <<>>
              ELSE PackStr(q.will[1].topic) \o PackUint16(Len(message)) \o message
      body == <<0, 4, 77, 81, 84, 84, 4, ConnectFlags(q)>> \o PackUint16(q.keepAlive)
                \o PackStr(q.client) \o will
                \o FlattenSeq([i \in 1..Len(q.user \o q.password) |->
                                 PackStr((q.user \o q.password)[i])])
  IN IF q.client = <<>> /\ ~q.clean THEN Refused("CLEAN_SESSION_IS_REQUIRED")
     ELSE IF q.will # <<>> /\ q.will[1].message = <<>> THEN Refused("CONNECT_NULL_WILL_MESSAGE")
     ELSE IF q.will # <<>> /\ q.willQos = 3 THEN Refused("CONNECT_FORBIDDEN_WILL_QOS")
     ELSE Assemble("CONNECT", 0, length, body, room)

\* Of quality 0 no publish is marked a duplicate, and none has an identifier.
PackPublish(q, room) ==
  LET id == IF q.qos = 0 THEN <<>> ELSE PackUint16(q.id)
      length == Truncated(PackedLen(q.topic)) + Len(id) + Truncated(Len(q.message))
      flags == 8 * Bit(q.dup /\ q.qos # 0) + 2 * q.qos + Bit(q.retain)
  IN IF q.qos = 3 THEN Refused("PUBLISH_FORBIDDEN_QOS")
     ELSE Assemble("PUBLISH", flags, length, PackStr(q.topic) \o id \o q.message, room)

\* PUBACK, PUBREC, PUBREL, PUBCOMP.
PackPubxxx(q, room) == Assemble(q.type, RequiredFlags(q.type), 2, PackUint16(q.id), room)

\* Mutant: the byte of the quality is not counted.
PackSubscribe_NoQos(q, room) ==
  LET length == 2 + Total([i \in 1..Len(q.topics) |-> PackedLen(q.topics[i].name)])
      body == PackUint16(q.id)
                \o FlattenSeq([i \in 1..Len(q.topics) |->
                                 Append(PackStr(q.topics[i].name), q.topics[i].qos)])
  IN Assemble("SUBSCRIBE", 2, length, body, room)

PackSubscribe(q, room) ==
  LET length == 2 + Total([i \in 1..Len(q.topics) |-> PackedLen(q.topics[i].name) + 1])
      body == PackUint16(q.id)
                \o FlattenSeq([i \in 1..Len(q.topics) |->
                                 Append(PackStr(q.topics[i].name), q.topics[i].qos)])
  IN IF Len(q.topics) >= MaxTopics THEN Refused("SUBSCRIBE_TOO_MANY_TOPICS")
     ELSE Assemble("SUBSCRIBE", 2, length, body, room)

PackUnsubscribe(q, room) ==
  LET length == 2 + Total([i \in 1..Len(q.topics) |-> PackedLen(q.topics[i])])
      body == PackUint16(q.id)
                \o FlattenSeq([i \in 1..Len(q.topics) |-> PackStr(q.topics[i])])
  IN IF Len(q.topics) >= MaxTopics THEN Refused("UNSUBSCRIBE_TOO_MANY_TOPICS")
     ELSE Assemble("UNSUBSCRIBE", 2, length, body, room)

\* PINGREQ and DISCONNECT.
PackEmpty(q, room) == PackFixedHeader(q.type, 0, 0, room)

Pack(q, room) ==
  CASE q.type = "CONNECT" -> PackConnect(q, room)
    [] q.type = "PUBLISH" -> PackPublish(q, room)
    [] q.type \in {"PUBACK", "PUBREC", "PUBREL", "PUBCOMP"} -> PackPubxxx(q, room)
    [] q.type = "SUBSCRIBE" -> PackSubscribe(q, room)
    [] q.type = "UNSUBSCRIBE" -> PackUnsubscribe(q, room)
    [] q.type \in {"PINGREQ", "DISCONNECT"} -> PackEmpty(q, room)

-----------------------------------------------------------------------------
(* Responses: what is unpacked of the body b behind the fixed header h.    *)

Response(h, packet) == [rv |-> "OK", size |-> h.size + h.length, packet |-> packet]

UnpackConnack(h, b) ==
  IF h.length # 2 THEN Stopped("MALFORMED_RESPONSE")
  ELSE IF b[1] > 1 THEN Stopped("CONNACK_FORBIDDEN_FLAGS")
  ELSE IF b[2] > 5 THEN Stopped("CONNACK_FORBIDDEN_CODE")
  ELSE Response(h, [type |-> "CONNACK", session |-> b[1], code |-> b[2]])

\* Mutant: the identifier counts as the first bytes of the message.
UnpackPublish_IdKept(h, b) ==
  LET qos == (h.flags \div 2) % 4
      after == 2 + UnpackUint16(b, 1)
  IN IF h.length < 4 THEN Stopped("MALFORMED_RESPONSE")
     ELSE Response(h, [type |-> "PUBLISH", dup |-> h.flags >= 8, qos |-> qos,
                       retain |-> h.flags % 2 = 1, topic |-> SubSeq(b, 3, after),
                       id |-> IF qos > 0 THEN UnpackUint16(b, after + 1) ELSE 0,
                       message |-> SubSeq(b, after + 1, h.length)])

\* A body shorter than four bytes is refused, whatever the quality; the
\* identifier of quality 0 is not set.
UnpackPublish(h, b) ==
  LET qos == (h.flags \div 2) % 4
      after == 2 + UnpackUint16(b, 1)
      start == IF qos > 0 THEN after + 2 ELSE after
  IN IF h.length < 4 THEN Stopped("MALFORMED_RESPONSE")
     ELSE Response(h, [type |-> "PUBLISH", dup |-> h.flags >= 8, qos |-> qos,
                       retain |-> h.flags % 2 = 1, topic |-> SubSeq(b, 3, after),
                       id |-> IF qos > 0 THEN UnpackUint16(b, after + 1) ELSE 0,
                       message |-> SubSeq(b, start + 1, h.length)])

\* PUBACK, PUBREC, PUBREL, PUBCOMP and UNSUBACK.
UnpackPubxxx(h, b) ==
  IF h.length # 2 THEN Stopped("MALFORMED_RESPONSE")
  ELSE Response(h, [type |-> ControlTypes[h.code], id |-> UnpackUint16(b, 1)])

UnpackSuback(h, b) ==
  IF h.length < 3 THEN Stopped("MALFORMED_RESPONSE")
  ELSE Response(h, [type |-> "SUBACK", id |-> UnpackUint16(b, 1),
                    codes |-> SubSeq(b, 3, h.length)])

UnpackResponse(buf) ==
  LET h == UnpackFixedHeader(buf)
      b == SubSeq(buf, h.size + 1, h.size + h.length)
      type == ControlTypes[h.code]
  IN IF h.rv # "OK" THEN Stopped(h.rv)
     ELSE CASE type = "CONNACK" -> UnpackConnack(h, b)
            [] type = "PUBLISH" -> UnpackPublish(h, b)
            [] type \in {"PUBACK", "PUBREC", "PUBREL", "PUBCOMP", "UNSUBACK"} ->
                 UnpackPubxxx(h, b)
            [] type = "SUBACK" -> UnpackSuback(h, b)
            \* only the fixed header is taken
            [] type = "PINGRESP" -> [rv |-> "OK", size |-> h.size,
                                     packet |-> [type |-> "PINGRESP"]]
            [] OTHER -> Stopped("RESPONSE_INVALID_CONTROL_TYPE")

=============================================================================
