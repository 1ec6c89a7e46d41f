--------------------------- MODULE MqttStreamProofs ---------------------------
(***************************************************************************)
(* For every size of the receive buffer, all packets and all ways to cut   *)
(* them into parts, the receiving side of the client implements a stream   *)
(* of whole packets; and the requests it packs fit into the room they are  *)
(* given.                                                                  *)
(***************************************************************************)
EXTENDS MqttStream, MqttPacketProofs, MinMaxProofs

-----------------------------------------------------------------------------
(* Sequences.                                                              *)

\* b is s and then t, and the same with u at the end.
Joined(b, s, t) ==
  /\ b \in Seq(Bytes) /\ Len(b) = Len(s) + Len(t)
  /\ \A i \in 1..Len(s) : b[i] = s[i]
  /\ \A i \in 1..Len(t) : b[Len(s) + i] = t[i]
Joined3(b, s, t, u) ==
  /\ b \in Seq(Bytes) /\ Len(b) = Len(s) + Len(t) + Len(u)
  /\ \A i \in 1..Len(s) : b[i] = s[i]
  /\ \A i \in 1..Len(t) : b[Len(s) + i] = t[i]
  /\ \A i \in 1..Len(u) : b[Len(s) + Len(t) + i] = u[i]

LEMMA Concat ==
  ASSUME NEW s \in Seq(Bytes), NEW t \in Seq(Bytes)
  PROVE  Joined(s \o t, s, t)
BY DEF Joined

LEMMA Concat3 ==
  ASSUME NEW s \in Seq(Bytes), NEW t \in Seq(Bytes), NEW u \in Seq(Bytes)
  PROVE  Joined3(s \o t \o u, s, t, u)
<1> DEFINE v == s \o t   b == v \o u
<1>1. Joined(v, s, t)
  BY Concat
<1> HIDE DEF v
<1>2. v \in Seq(Bytes)
  BY <1>1 DEF Joined
<1>3. Joined(b, v, u)
  BY <1>2, Concat
<1> HIDE DEF b
<1>4. Len(s) \in Nat /\ Len(t) \in Nat /\ Len(v) = Len(s) + Len(t)
  BY <1>1 DEF Joined
<1>5. \A i \in 1..Len(s) : b[i] = s[i]
  BY <1>1, <1>3, <1>4 DEF Joined
<1>6. ASSUME NEW i \in 1..Len(t) PROVE b[Len(s) + i] = t[i]
  <2>1. Len(s) + i \in 1..Len(v)
    BY <1>4
  <2> QED BY <1>1, <1>3, <2>1 DEF Joined
<1>7. /\ b \in Seq(Bytes) /\ Len(b) = Len(s) + Len(t) + Len(u)
      /\ \A i \in 1..Len(u) : b[Len(s) + Len(t) + i] = u[i]
  BY <1>3, <1>4 DEF Joined
<1>8. Joined3(b, s, t, u)
  BY <1>5, <1>6, <1>7 DEF Joined3
<1> QED BY <1>8 DEF b, v

LEMMA Pair ==
  ASSUME NEW S, NEW a \in S, NEW b \in S
  PROVE  <<a, b>> \in Seq(S) /\ Len(<<a, b>>) = 2 /\ <<a, b>>[1] = a /\ <<a, b>>[2] = b
OBVIOUS

\* A part of a sequence that is another one, element by element.
LEMMA Part ==
  ASSUME NEW s \in Seq(Bytes), NEW t \in Seq(Bytes), NEW k \in Nat, k + Len(t) <= Len(s),
         \A i \in 1..Len(t) : s[k + i] = t[i]
  PROVE  SubSeq(s, k + 1, k + Len(t)) = t
<1> DEFINE u == SubSeq(s, k + 1, k + Len(t))
<1>1. Len(t) \in Nat /\ Len(s) \in Nat
  OBVIOUS
<1>2. u \in Seq(Bytes) /\ Len(u) = Len(t) /\ \A i \in 1..Len(t) : u[i] = s[k + i]
  BY <1>1
<1> HIDE DEF u
<1>3. u = t
  BY <1>1, <1>2
<1> QED BY <1>3 DEF u

-----------------------------------------------------------------------------
(* Packets as the broker writes them.                                      *)

Connacks == [type : {"CONNACK"}, session : {0, 1}, code : 0..5]
Publishes ==
  [type : {"PUBLISH"}, dup : BOOLEAN, qos : 0..2, retain : BOOLEAN,
   topic : Texts, id : Nat, message : Texts]
AckTypes == {"PUBACK", "PUBREC", "PUBREL", "PUBCOMP", "UNSUBACK"}
Acks     == [type : AckTypes, id : Nat]
Subacks  == [type : {"SUBACK"}, id : Nat, codes : Texts \ {<<>>}]
Pingresps == [type : {"PINGRESP"}]

LEMMA Kinds ==
  ASSUME NEW p \in Incoming
  PROVE  p \in Connacks \/ p \in Publishes \/ p \in Acks \/ p \in Subacks \/ p \in Pingresps
BY IncomingAssumption DEF Connacks, Publishes, AckTypes, Acks, Subacks, Pingresps

LEMMA Codes ==
  /\ Code("CONNACK") = 2 /\ Code("PUBLISH") = 3 /\ Code("PUBACK") = 4 /\ Code("PUBREC") = 5
  /\ Code("PUBREL") = 6 /\ Code("PUBCOMP") = 7 /\ Code("SUBACK") = 9
  /\ Code("UNSUBACK") = 11 /\ Code("PINGRESP") = 13
BY DEF Code, ControlTypes

LEMMA WordRead ==
  ASSUME NEW n \in Nat
  PROVE  /\ Word(n) \in Seq(Bytes) /\ Len(Word(n)) = 2
         /\ Word(n)[1] * WordBase + Word(n)[2] = n
<1>1. WordBase \in Nat \ {0}
  BY BaseAssumption
<1> DEFINE q == n \div WordBase   r == n % WordBase
<1>2. q \in Nat /\ r \in Nat /\ n = WordBase * q + r
  BY <1>1, DivMod
<1>3. Word(n) = <<q, r>>
  BY DEF Word
<1> HIDE DEF q, r
<1>4. q * WordBase + r = n
  BY <1>1, <1>2
<1>5. Word(n) \in Seq(Bytes) /\ Len(Word(n)) = 2 /\ Word(n)[1] = q /\ Word(n)[2] = r
  <2>1. q \in Bytes /\ r \in Bytes
    BY <1>2 DEF Bytes
  <2> QED BY <1>3, <2>1, Pair
<1> QED BY <1>4, <1>5

LEMMA Qos ==
  ASSUME NEW d \in {0, 1}, NEW q \in 0..2, NEW r \in {0, 1}
  PROVE  LET f == 8 * d + 2 * q + r
         IN f \in 0..15 /\ (f >= 8 <=> d = 1) /\ (f \div 2) % 4 = q /\ (f % 2 = 1 <=> r = 1)
OBVIOUS

LEMMA HeaderAllowed ==
  ASSUME NEW p \in Incoming
  PROVE  /\ Code(p.type) \in 1..14 /\ ControlTypes[Code(p.type)] = p.type
         /\ Flags(p) \in 0..15 /\ RuleViolation(Code(p.type), Flags(p)) = "OK"
<1>1. CASE p \in Connacks
  <2>1. p.type = "CONNACK" /\ Code(p.type) = 2 /\ ControlTypes[2] = p.type /\ Flags(p) = 0
    BY <1>1, Codes DEF Connacks, Flags, ControlTypes
  <2> QED BY <2>1 DEF RuleViolation, RequiredFlags, ControlTypes
<1>2. CASE p \in Publishes
  <2>1. p.type = "PUBLISH" /\ Code(p.type) = 3 /\ ControlTypes[3] = p.type
    BY <1>2, Codes DEF Publishes, ControlTypes
  <2>2. Flags(p) \in 0..15
    <3>1. Flags(p) = 8 * Bit(p.dup) + 2 * p.qos + Bit(p.retain)
      BY <2>1 DEF Flags
    <3>2. Bit(p.dup) \in {0, 1} /\ Bit(p.retain) \in {0, 1} /\ p.qos \in 0..2
      BY <1>2 DEF Publishes, Bit
    <3> QED BY <3>1, <3>2, Qos
  <2> QED BY <2>1, <2>2 DEF RuleViolation
<1>3. CASE p \in Acks
  <2>1. p.type \in AckTypes
    BY <1>3 DEF Acks
  <2>2. Flags(p) = IF p.type = "PUBREL" THEN 2 ELSE 0
    BY <2>1 DEF Flags, AckTypes
  <2>3. Code(p.type) \in 1..14 /\ ControlTypes[Code(p.type)] = p.type
    BY <2>1, Codes DEF AckTypes, ControlTypes
  <2> QED BY <2>1, <2>2, <2>3 DEF RuleViolation, RequiredFlags, AckTypes
<1>4. CASE p \in Subacks
  <2>1. p.type = "SUBACK" /\ Code(p.type) = 9 /\ ControlTypes[9] = p.type /\ Flags(p) = 0
    BY <1>4, Codes DEF Subacks, Flags, ControlTypes
  <2> QED BY <2>1 DEF RuleViolation, RequiredFlags, ControlTypes
<1>5. CASE p \in Pingresps
  <2>1. p.type = "PINGRESP" /\ Code(p.type) = 13 /\ ControlTypes[13] = p.type /\ Flags(p) = 0
    BY <1>5, Codes DEF Pingresps, Flags, ControlTypes
  <2> QED BY <2>1 DEF RuleViolation, RequiredFlags, ControlTypes
<1> QED BY <1>1, <1>2, <1>3, <1>4, <1>5, Kinds

LEMMA StringTyped ==
  ASSUME NEW text \in Texts
  PROVE  /\ String(text) \in Seq(Bytes) /\ Len(String(text)) = 2 + Len(text)
         /\ String(text)[1] * WordBase + String(text)[2] = Len(text)
         /\ \A i \in 1..Len(text) : String(text)[i + 2] = text[i]
<1> DEFINE w == Word(Len(text))
<1>1. text \in Seq(Bytes) /\ Len(text) \in Nat
  BY DEF Texts
<1>2. w \in Seq(Bytes) /\ Len(w) = 2 /\ w[1] * WordBase + w[2] = Len(text)
  BY <1>1, WordRead
<1>3. String(text) = w \o text
  BY DEF String
<1> HIDE DEF w
<1>4. /\ String(text) \in Seq(Bytes) /\ Len(String(text)) = 2 + Len(text)
      /\ String(text)[1] = w[1] /\ String(text)[2] = w[2]
      /\ \A i \in 1..Len(text) : String(text)[i + 2] = text[i]
  <2>1. Joined(w \o text, w, text)
    BY <1>1, <1>2, Concat
  <2>2. Joined(String(text), w, text)
    BY <1>3, <2>1
  <2> QED BY <1>1, <1>2, <2>2 DEF Joined
<1> QED BY <1>2, <1>4

\* The identifier of a publish in bytes.
IdBytes(p) == IF p.qos > 0 THEN Word(p.id) ELSE <<>>

LEMMA PublishBody ==
  ASSUME NEW p \in Publishes
  PROVE  /\ Body(p) \in Seq(Bytes)
         /\ Len(Body(p)) = 2 + Len(p.topic) + Len(IdBytes(p)) + Len(p.message)
         /\ Len(IdBytes(p)) = IF p.qos > 0 THEN 2 ELSE 0
         /\ UnpackUint16(Body(p), 1) = Len(p.topic)
         /\ p.qos > 0 => UnpackUint16(Body(p), Len(p.topic) + 3) = p.id
         /\ SubSeq(Body(p), 3, 2 + Len(p.topic)) = p.topic
         /\ SubSeq(Body(p), 3 + Len(p.topic) + Len(IdBytes(p)), Len(Body(p))) = p.message
<1> DEFINE s == String(p.topic)   w == IdBytes(p)   t == p.topic   m == p.message   b == Body(p)
<1>1. t \in Seq(Bytes) /\ m \in Seq(Bytes) /\ p.id \in Nat /\ t \in Texts
  BY DEF Publishes, Texts
<1>2. /\ s \in Seq(Bytes) /\ Len(s) = 2 + Len(t)
      /\ s[1] * WordBase + s[2] = Len(t)
      /\ \A i \in 1..Len(t) : s[i + 2] = t[i]
  BY <1>1, StringTyped
<1>3. /\ w \in Seq(Bytes) /\ Len(w) = (IF p.qos > 0 THEN 2 ELSE 0)
      /\ p.qos > 0 => w[1] * WordBase + w[2] = p.id
  <2>1. CASE p.qos > 0
    <3>1. w = Word(p.id)
      BY <2>1 DEF IdBytes
    <3> HIDE DEF w
    <3>2. w \in Seq(Bytes) /\ Len(w) = 2 /\ w[1] * WordBase + w[2] = p.id
      BY <1>1, <3>1, WordRead
    <3> QED BY <2>1, <3>2
  <2>2. CASE ~(p.qos > 0)
    BY <2>2 DEF IdBytes
  <2> QED BY <2>1, <2>2
<1>4. b = s \o w \o m
  BY DEF Body, IdBytes, Publishes
<1> HIDE DEF s, w, t, m, b
<1>5. /\ b \in Seq(Bytes) /\ Len(b) = Len(s) + Len(w) + Len(m)
      /\ \A i \in 1..Len(s) : b[i] = s[i]
      /\ \A i \in 1..Len(w) : b[Len(s) + i] = w[i]
      /\ \A i \in 1..Len(m) : b[Len(s) + Len(w) + i] = m[i]
  <2>1. Joined3(s \o w \o m, s, w, m)
    BY <1>1, <1>2, <1>3, Concat3
  <2>2. Joined3(b, s, w, m)
    BY <1>4, <2>1
  <2> QED BY <2>2 DEF Joined3
<1>6. Len(t) \in Nat /\ Len(m) \in Nat /\ Len(w) \in Nat /\ Len(s) = 2 + Len(t)
  BY <1>1, <1>2, <1>3
<1>7. UnpackUint16(b, 1) = Len(t)
  <2>1. b[1] = s[1] /\ b[2] = s[2]
    BY <1>5, <1>6
  <2> QED BY <1>2, <2>1 DEF UnpackUint16
<1>8. ASSUME p.qos > 0 PROVE UnpackUint16(b, Len(t) + 3) = p.id
  <2>1. Len(w) = 2 /\ b[Len(s) + 1] = w[1] /\ b[Len(s) + 2] = w[2]
    BY <1>3, <1>5, <1>8
  <2>2. b[Len(t) + 3] = w[1] /\ b[Len(t) + 3 + 1] = w[2]
    BY <1>6, <2>1
  <2> QED BY <1>3, <1>8, <2>2 DEF UnpackUint16
<1>9. SubSeq(b, 3, 2 + Len(t)) = t
  <2>1. \A i \in 1..Len(t) : b[2 + i] = t[i]
    BY <1>2, <1>5, <1>6
  <2>2. 2 + Len(t) <= Len(b)
    BY <1>5, <1>6
  <2> QED BY <1>1, <1>5, <2>1, <2>2, Part
<1>10. SubSeq(b, 3 + Len(t) + Len(w), Len(b)) = m
  <2> DEFINE k == Len(s) + Len(w)
  <2>1. k \in Nat /\ k + Len(m) = Len(b) /\ 3 + Len(t) + Len(w) = k + 1
    BY <1>5, <1>6
  <2>2. \A i \in 1..Len(m) : b[k + i] = m[i]
    BY <1>5
  <2> HIDE DEF k
  <2>3. SubSeq(b, k + 1, k + Len(m)) = m
    BY <1>1, <1>5, <1>6, <2>1, <2>2, Part
  <2> QED BY <2>1, <2>3
<1> QED BY <1>3, <1>5, <1>6, <1>7, <1>8, <1>9, <1>10 DEF t, m, w, b

LEMMA ConnackBody ==
  ASSUME NEW p \in Connacks
  PROVE  /\ Body(p) \in Seq(Bytes) /\ Len(Body(p)) = 2
         /\ Body(p)[1] = p.session /\ Body(p)[2] = p.code
<1>1. p.session \in Bytes /\ p.code \in Bytes /\ Body(p) = <<p.session, p.code>>
  BY DEF Connacks, Bytes, Body
<1> QED BY <1>1, Pair

LEMMA AckBody ==
  ASSUME NEW p \in Acks
  PROVE  Body(p) \in Seq(Bytes) /\ Len(Body(p)) = 2 /\ UnpackUint16(Body(p), 1) = p.id
<1>1. p.id \in Nat /\ Body(p) = Word(p.id)
  BY DEF Acks, AckTypes, Body
<1> QED BY <1>1, WordRead DEF UnpackUint16

LEMMA SubackBody ==
  ASSUME NEW p \in Subacks
  PROVE  /\ Body(p) \in Seq(Bytes) /\ Len(Body(p)) = 2 + Len(p.codes) /\ Len(Body(p)) >= 3
         /\ UnpackUint16(Body(p), 1) = p.id /\ SubSeq(Body(p), 3, Len(Body(p))) = p.codes
<1> DEFINE w == Word(p.id)   c == p.codes   b == Body(p)
<1>1. p.id \in Nat /\ c \in Seq(Bytes) /\ c # <<>> /\ b = w \o c
  BY DEF Subacks, Body, Texts
<1>2. w \in Seq(Bytes) /\ Len(w) = 2 /\ w[1] * WordBase + w[2] = p.id
  BY <1>1, WordRead
<1> HIDE DEF w, c, b
<1>3. Joined(b, w, c)
  BY <1>1, <1>2, Concat
<1>4. Len(c) \in Nat \ {0}
  BY <1>1
<1>5. /\ b \in Seq(Bytes) /\ Len(b) = 2 + Len(c) /\ b[1] = w[1] /\ b[2] = w[2]
      /\ \A i \in 1..Len(c) : b[2 + i] = c[i]
  BY <1>2, <1>3, <1>4 DEF Joined
<1>6. UnpackUint16(b, 1) = p.id
  BY <1>2, <1>5 DEF UnpackUint16
<1>7. SubSeq(b, 3, 2 + Len(c)) = c
  BY <1>1, <1>4, <1>5, Part
<1> QED BY <1>4, <1>5, <1>6, <1>7 DEF c, b

LEMMA BodyTyped ==
  ASSUME NEW p \in Incoming
  PROVE  Body(p) \in Seq(Bytes)
<1>1. CASE p \in Pingresps
  BY <1>1 DEF Pingresps, Body
<1> QED BY <1>1, Kinds, ConnackBody, PublishBody, AckBody, SubackBody

\* The broker's length bytes are a number of at most four digits.
LEMMA DigitsAreLength ==
  ASSUME NEW n \in Nat, n < LengthLimit
  PROVE  \E k \in 1..4 : Digits(n) \in Seq(Bytes) /\ Len(Digits(n)) = k /\ IsLength(Digits(n), k, n)
<1> DEFINE q1 == n \div B   q2 == q1 \div B   q3 == q2 \div B
<1>1. /\ q1 = 0 => IsLength(<<n>>, 1, n)
      /\ q1 # 0 /\ q2 = 0 => IsLength(<<Marked(n), q1>>, 2, n)
      /\ q2 # 0 /\ q3 = 0 => IsLength(<<Marked(n), Marked(q1), q2>>, 3, n)
      /\ q3 # 0 => IsLength(<<Marked(n), Marked(q1), Marked(q2), q3>>, 4, n)
  BY LengthDigits
<1>2. Digits(n) = IF q1 = 0 THEN <<n>>
                  ELSE IF q2 = 0 THEN <<Marked(n), q1>>
                  ELSE IF q3 = 0 THEN <<Marked(n), Marked(q1), q2>>
                  ELSE <<Marked(n), Marked(q1), Marked(q2), q3>>
  BY DEF Digits, Marked, B
<1>3. B \in Nat \ {0}
  BY BaseAssumption DEF B
<1>4. q1 \in Nat
  BY <1>3, DivMod
<1>5. q2 \in Nat /\ (q1 = 0 => q2 = 0)
  BY <1>3, <1>4, DivMod
<1>6. q3 \in Nat /\ (q2 = 0 => q3 = 0)
  BY <1>3, <1>5, DivMod
<1>7. Marked(n) \in Nat /\ Marked(q1) \in Nat /\ Marked(q2) \in Nat
  BY <1>4, <1>5, MarkedDigit
<1> HIDE DEF q1, q2, q3
<1> QED BY <1>1, <1>2, <1>4, <1>5, <1>6, <1>7 DEF Bytes

\* A packet of the broker is a header and its body.
LEMMA Encoded ==
  ASSUME NEW p \in Incoming
  PROVE  \E k \in 1..4, L \in Seq(Bytes) :
           /\ Len(L) = k /\ IsLength(L, k, Len(Body(p)))
           /\ Joined3(Encode(p), <<16 * Code(p.type) + Flags(p)>>, L, Body(p))
<1> DEFINE n == Len(Body(p))   L == Digits(n)   c == Code(p.type)   f == Flags(p)
           first == 16 * c + f
<1>1. n \in Nat /\ n < LengthLimit
  BY BodyTyped, IncomingAssumption
<1>2. PICK k \in 1..4 : L \in Seq(Bytes) /\ Len(L) = k /\ IsLength(L, k, n)
  BY <1>1, DigitsAreLength
<1>3. first \in Nat
  <2>1. c \in 1..14 /\ f \in 0..15
    BY HeaderAllowed
  <2> HIDE DEF c, f
  <2> QED BY <2>1
<1>4. Encode(p) = <<first>> \o L \o Body(p)
  <2>1. p.type # "stray"
    BY Kinds DEF Connacks, Publishes, Acks, AckTypes, Subacks, Pingresps
  <2> QED BY <2>1 DEF Encode
<1> HIDE DEF first, L
<1>5. <<first>> \in Seq(Bytes)
  BY <1>3 DEF Bytes
<1>6. Joined3(Encode(p), <<first>>, L, Body(p))
  BY <1>2, <1>4, <1>5, BodyTyped, Concat3
<1> QED BY <1>2, <1>6 DEF first

-----------------------------------------------------------------------------
(* Packets as the client reads them.                                       *)

\* The buffer holds the first bytes of e, or all of them and more.
Agrees(buf, e) ==
  /\ buf \in Seq(Bytes) /\ buf # <<>>
  /\ \A i \in 1..Len(buf) : i <= Len(e) => buf[i] = e[i]

LEMMA PacketBegins ==
  ASSUME NEW p \in Incoming, NEW buf, Agrees(buf, Encode(p))
  PROVE  /\ Encode(p) \in Seq(Bytes)
         /\ \E k \in 1..4 :
              /\ Len(Encode(p)) = k + 1 + Len(Body(p))
              /\ ReadsHeader(buf, Code(p.type), Flags(p), k, Len(Body(p)))
              /\ Len(buf) >= Len(Encode(p)) => SubSeq(buf, k + 2, k + 1 + Len(Body(p))) = Body(p)
<1> DEFINE n == Len(Body(p))   c == Code(p.type)   f == Flags(p)   e == Encode(p)   d == Body(p)
           first == 16 * c + f
<1>1. PICK k \in 1..4, L \in Seq(Bytes) :
        Len(L) = k /\ IsLength(L, k, n) /\ Joined3(e, <<first>>, L, d)
  BY Encoded
<1>2. c \in 1..14 /\ f \in 0..15 /\ RuleViolation(c, f) = "OK"
  BY HeaderAllowed
<1>3. d \in Seq(Bytes) /\ n \in Nat /\ n = Len(d)
  BY BodyTyped
<1> HIDE DEF first, n, d, e, c, f
<1>4. /\ e \in Seq(Bytes) /\ Len(e) = k + 1 + n /\ e[1] = first
      /\ \A i \in 1..k : e[i + 1] = L[i]
      /\ \A i \in 1..n : e[k + 1 + i] = d[i]
  BY <1>1, <1>3 DEF Joined3
<1>5. Agrees(buf, e)
  BY DEF e
<1>6. Begins(buf, c, f, L, k)
  <2>1. buf[1] = first
    BY <1>3, <1>4, <1>5 DEF Agrees
  <2>2. \A i \in 1..k : i + 1 <= Len(buf) => buf[i + 1] = L[i]
    BY <1>3, <1>4, <1>5 DEF Agrees
  <2> QED BY <1>5, <2>1, <2>2 DEF Begins, Agrees, first
<1>7. ReadsHeader(buf, c, f, k, n)
  BY <1>1, <1>2, <1>3, <1>6, HeaderIsRead
<1>8. ASSUME Len(buf) >= Len(e) PROVE SubSeq(buf, k + 2, k + 1 + n) = d
  <2> DEFINE j == k + 1
  <2>1. j \in Nat /\ buf \in Seq(Bytes) /\ j + Len(d) <= Len(buf) /\ k + 2 = j + 1
    BY <1>3, <1>4, <1>5, <1>8 DEF Agrees
  <2>2. \A i \in 1..Len(d) : buf[j + i] = d[i]
    <3>1. \A i \in 1..n : e[j + i] = d[i]
      BY ONLY <1>4, Zenon
    <3>2. \A i \in 1..n : j + i \in 1..Len(buf) /\ j + i <= Len(e)
      BY ONLY <1>3, <1>4, <1>5, <1>8, k \in 1..4 DEF Agrees
    <3>3. \A i \in 1..Len(buf) : i <= Len(e) => buf[i] = e[i]
      BY <1>5, Zenon DEF Agrees
    <3> QED BY ONLY <1>3, <3>1, <3>2, <3>3, Zenon
  <2> HIDE DEF j
  <2>3. SubSeq(buf, j + 1, j + Len(d)) = d
    BY <1>3, <2>1, <2>2, Part
  <2> QED BY <1>3, <2>1, <2>3 DEF j
<1> QED BY <1>4, <1>7, <1>8 DEF n, d, e, c, f

\* mqtt_unpack_response waits as long as a byte of the packet is missing.
LEMMA PacketAwaited ==
  ASSUME NEW p \in Incoming, NEW buf, Agrees(buf, Encode(p)), Len(buf) < Len(Encode(p))
  PROVE  UnpackResponse(buf) = Awaited
<1>1. UnpackFixedHeader(buf) = Awaited
  BY PacketBegins DEF ReadsHeader
<1> QED BY <1>1 DEF UnpackResponse, Awaited, Stopped

\* A publish whose body has less than four bytes.
Short(p) == p.type = "PUBLISH" /\ Len(Body(p)) < 4

PacketRead(p, buf) ==
  IF Short(p) THEN UnpackResponse(buf) = Stopped("MALFORMED_RESPONSE")
  ELSE UnpackResponse(buf) = [rv |-> "OK", size |-> Len(Encode(p)), packet |-> p]

\* From a whole packet mqtt_unpack_response gets exactly that packet, and takes
\* exactly its bytes, whatever follows it in the buffer.
LEMMA PacketIsRead ==
  ASSUME NEW p \in Incoming, NEW buf, Agrees(buf, Encode(p)), Len(buf) >= Len(Encode(p))
  PROVE  PacketRead(p, buf)
<1> DEFINE n == Len(Body(p))   d == Body(p)
<1>1. PICK k \in 1..4 :
        /\ Len(Encode(p)) = k + 1 + n
        /\ ReadsHeader(buf, Code(p.type), Flags(p), k, n)
        /\ SubSeq(buf, k + 2, k + 1 + n) = d
  BY PacketBegins
<1> DEFINE h == Header(Code(p.type), Flags(p), k, n)
<1>2. UnpackFixedHeader(buf) = h
  BY <1>1 DEF ReadsHeader
<1>3. /\ h.rv = "OK" /\ h.size = k + 1 /\ h.code = Code(p.type) /\ h.flags = Flags(p)
      /\ h.length = n /\ ControlTypes[h.code] = p.type
  BY HeaderAllowed DEF Header
<1>4. n \in Nat /\ d \in Seq(Bytes)
  BY BodyTyped
<1>5. SubSeq(buf, h.size + 1, h.size + h.length) = d
  <2>1. h.size + 1 = k + 2 /\ h.size + h.length = k + 1 + n
    BY <1>3, <1>4
  <2> QED BY <1>1, <2>1
<1>6. h.size + h.length = Len(Encode(p))
  BY <1>1, <1>3, <1>4
<1> HIDE DEF h, n, d
<1>7. UnpackResponse(buf) =
        CASE p.type = "CONNACK" -> UnpackConnack(h, d)
          [] p.type = "PUBLISH" -> UnpackPublish(h, d)
          [] p.type \in {"PUBACK", "PUBREC", "PUBREL", "PUBCOMP", "UNSUBACK"} -> UnpackPubxxx(h, d)
          [] p.type = "SUBACK" -> UnpackSuback(h, d)
          [] p.type = "PINGRESP" -> [rv |-> "OK", size |-> h.size, packet |-> [type |-> "PINGRESP"]]
          [] OTHER -> Stopped("RESPONSE_INVALID_CONTROL_TYPE")
  BY <1>2, <1>3, <1>5 DEF UnpackResponse
<1>8. n = Len(d) /\ (p.type # "PUBLISH" => ~Short(p))
  BY DEF Short, n, d
<1>9. CASE p \in Connacks
  <2>1. p.type = "CONNACK" /\ n = 2 /\ d[1] = p.session /\ d[2] = p.code
    BY <1>9, ConnackBody DEF Connacks, n, d
  <2>2. /\ p = [type |-> "CONNACK", session |-> p.session, code |-> p.code]
        /\ p.session \in {0, 1} /\ p.code \in 0..5
    BY <1>9 DEF Connacks
  <2>3. UnpackResponse(buf) = UnpackConnack(h, d)
    BY <1>7, <2>1
  <2>4. UnpackConnack(h, d) = Response(h, p)
    BY <1>3, <2>1, <2>2 DEF UnpackConnack
  <2> QED BY <1>6, <1>8, <2>1, <2>3, <2>4 DEF PacketRead, Response
<1>10. CASE p \in Publishes
  <2>1. p.type = "PUBLISH"
    BY <1>10 DEF Publishes
  <2>2. UnpackResponse(buf) = UnpackPublish(h, d)
    BY <1>7, <2>1
  <2>3. CASE n < 4
    <3>1. UnpackPublish(h, d) = Stopped("MALFORMED_RESPONSE")
      BY <1>3, <2>3 DEF UnpackPublish
    <3> QED BY <1>8, <2>1, <2>2, <2>3, <3>1 DEF PacketRead, Short, d
  <2>4. CASE ~(n < 4)
    <3> DEFINE f == Flags(p)   t == Len(p.topic)   q == p.qos
    <3>1. f = 8 * Bit(p.dup) + 2 * q + Bit(p.retain)
      BY <2>1 DEF Flags
    <3>2. q \in 0..2 /\ p.dup \in BOOLEAN /\ p.retain \in BOOLEAN /\ t \in Nat
      BY <1>10 DEF Publishes, Texts
    <3>3. (f >= 8) = p.dup /\ (f \div 2) % 4 = q /\ (f % 2 = 1) = p.retain
      <4>1. Bit(p.dup) \in {0, 1} /\ Bit(p.retain) \in {0, 1}
        BY DEF Bit
      <4>2. (f >= 8 <=> Bit(p.dup) = 1) /\ (f \div 2) % 4 = q /\ (f % 2 = 1 <=> Bit(p.retain) = 1)
        BY <3>1, <3>2, <4>1, Qos
      <4>3. (Bit(p.dup) = 1 <=> p.dup) /\ (Bit(p.retain) = 1 <=> p.retain)
        BY DEF Bit
      <4> HIDE DEF f, q
      <4> QED BY <3>2, <4>2, <4>3
    <3>4. /\ UnpackUint16(d, 1) = t
          /\ q > 0 => UnpackUint16(d, t + 3) = p.id
          /\ SubSeq(d, 3, 2 + t) = p.topic
          /\ SubSeq(d, 3 + t + Len(IdBytes(p)), n) = p.message
          /\ Len(IdBytes(p)) = IF q > 0 THEN 2 ELSE 0
      BY <1>10, PublishBody DEF n, d
    <3>5. q > 0 \/ p.id = 0
      BY <2>1, <3>2, IncomingAssumption
    <3> DEFINE after == 2 + UnpackUint16(d, 1)
               start == IF q > 0 THEN after + 2 ELSE after
    <3>6. after = 2 + t /\ after + 1 = t + 3 /\ start + 1 = 3 + t + Len(IdBytes(p))
      <4>1. after = 2 + t
        BY <3>4
      <4>2. Len(IdBytes(p)) = start - after
        <5> HIDE DEF after, t
        <5>1. after \in Nat
          BY <3>2, <4>1
        <5> QED BY <3>2, <3>4, <5>1
      <4> HIDE DEF after, t
      <4>3. start = IF q > 0 THEN after + 2 ELSE after
        OBVIOUS
      <4> HIDE DEF start
      <4> QED BY <3>2, <4>1, <4>2, <4>3
    <3>7. SubSeq(d, 3, after) = p.topic /\ SubSeq(d, start + 1, n) = p.message
      BY <3>4, <3>6
    <3>8. (IF q > 0 THEN UnpackUint16(d, after + 1) ELSE 0) = p.id
      BY <3>4, <3>5, <3>6
    <3>9. p = [type |-> "PUBLISH", dup |-> p.dup, qos |-> q, retain |-> p.retain,
               topic |-> p.topic, id |-> p.id, message |-> p.message]
      BY <1>10 DEF Publishes
    <3>10. UnpackPublish(h, d) =
             Response(h, [type |-> "PUBLISH", dup |-> f >= 8, qos |-> q, retain |-> f % 2 = 1,
                          topic |-> SubSeq(d, 3, after),
                          id |-> IF q > 0 THEN UnpackUint16(d, after + 1) ELSE 0,
                          message |-> SubSeq(d, start + 1, n)])
      <4>1. h.flags = f /\ h.length = n /\ (h.flags \div 2) % 4 = q
        BY <1>3, <3>3
      <4> HIDE DEF q, f
      <4> QED BY <2>4, <4>1 DEF UnpackPublish
    <3> HIDE DEF after, start, f, q
    <3>11. UnpackPublish(h, d) = Response(h, p)
      BY <3>3, <3>7, <3>8, <3>9, <3>10
    <3> QED BY <1>6, <1>8, <2>2, <2>4, <3>11 DEF PacketRead, Response, Short, d
  <2> QED BY <2>3, <2>4
<1>11. CASE p \in Acks
  <2>1. p.type \in AckTypes /\ n = 2 /\ UnpackUint16(d, 1) = p.id
    BY <1>11, AckBody DEF Acks, n, d
  <2>2. p = [type |-> p.type, id |-> p.id]
    BY <1>11 DEF Acks
  <2>3. UnpackResponse(buf) = UnpackPubxxx(h, d)
    BY <1>7, <2>1 DEF AckTypes
  <2>4. UnpackPubxxx(h, d) = Response(h, p)
    BY <1>3, <2>1, <2>2 DEF UnpackPubxxx
  <2> QED BY <1>6, <1>8, <2>1, <2>3, <2>4 DEF PacketRead, Response, AckTypes
<1>12. CASE p \in Subacks
  <2>1. /\ p.type = "SUBACK" /\ n = Len(d) /\ ~(n < 3) /\ UnpackUint16(d, 1) = p.id
        /\ SubSeq(d, 3, n) = p.codes
    BY <1>4, <1>12, SubackBody DEF Subacks, n, d
  <2>2. p = [type |-> "SUBACK", id |-> p.id, codes |-> p.codes]
    BY <1>12 DEF Subacks
  <2>3. UnpackResponse(buf) = UnpackSuback(h, d)
    BY <1>7, <2>1
  <2>4. UnpackSuback(h, d) = Response(h, p)
    BY <1>3, <2>1, <2>2 DEF UnpackSuback
  <2> QED BY <1>6, <1>8, <2>1, <2>3, <2>4 DEF PacketRead, Response
<1>13. CASE p \in Pingresps
  <2>1. p.type = "PINGRESP" /\ n = 0 /\ p = [type |-> "PINGRESP"]
    BY <1>13 DEF Pingresps, n, Body
  <2>2. h.size = Len(Encode(p))
    BY <1>1, <1>3, <2>1
  <2> QED BY <1>7, <1>8, <2>1, <2>2 DEF PacketRead
<1> QED BY <1>9, <1>10, <1>11, <1>12, <1>13, Kinds

-----------------------------------------------------------------------------
(* Any bytes as the client reads them.                                     *)

\* The length of the header in buf has k bytes, and what is unpacked then.
LengthHas(buf, k) == k + 1 \in LengthEnds(buf) /\ \A j \in LengthEnds(buf) : k + 1 <= j

HeaderAt(buf, k) ==
  LET c == buf[1] \div 16   f == buf[1] % 16   n == LengthOf(buf, k + 1)
  IN IF RuleViolation(c, f) # "OK" THEN Stopped(RuleViolation(c, f))
     ELSE IF Len(buf) - (k + 1) < n THEN Awaited ELSE Header(c, f, k, n)

LEMMA EveryHeader ==
  ASSUME NEW buf \in Seq(Bytes)
  PROVE  \/ /\ LengthEnds(buf) = {} /\ Len(buf) < 5
            /\ UnpackFixedHeader(buf) = Awaited
         \/ /\ LengthEnds(buf) = {} /\ Len(buf) >= 5
            /\ UnpackFixedHeader(buf) = Stopped("INVALID_REMAINING_LENGTH")
         \/ \E k \in 1..4 : LengthHas(buf, k) /\ UnpackFixedHeader(buf) = HeaderAt(buf, k)
<1>1. CASE LengthEnds(buf) = {}
  BY <1>1 DEF UnpackFixedHeader, Awaited
<1>2. CASE LengthEnds(buf) # {}
  <2>1. LengthEnds(buf) \subseteq 2..5
    BY DEF LengthEnds
  <2>2. PICK i \in LengthEnds(buf) : \A j \in LengthEnds(buf) : i <= j
    BY <1>2, <2>1
  <2> DEFINE k == i - 1
  <2>3. k \in 1..4 /\ k + 1 = i
    BY <2>1
  <2>4. LengthHas(buf, k)
    BY <2>2, <2>3 DEF LengthHas
  <2>5. (CHOOSE e \in LengthEnds(buf) : \A j \in LengthEnds(buf) : e <= j) = k + 1
    BY <2>1, <2>2, <2>3
  <2>6. UnpackFixedHeader(buf) = HeaderAt(buf, k)
    BY <1>2, <2>5 DEF UnpackFixedHeader, HeaderAt, Header, Awaited
  <2> QED BY <2>3, <2>4, <2>6
<1> QED BY <1>1, <1>2

LEMMA LengthTyped ==
  ASSUME NEW buf \in Seq(Bytes), NEW k \in 1..4, k + 1 <= Len(buf)
  PROVE  LengthOf(buf, k + 1) \in Nat
<1>1. B \in Nat \ {0} /\ B = LengthBase
  BY BaseAssumption DEF B
<1> DEFINE digit(i) == IF i <= k + 1 THEN buf[i] % LengthBase ELSE 0
<1>2. ASSUME NEW i \in 2..5 PROVE digit(i) \in Nat
  <2>1. CASE i <= k + 1
    <3>1. i \in 1..Len(buf)
      BY <2>1
    <3>2. buf[i] \in Nat
      BY <3>1 DEF Bytes
    <3> QED BY <1>1, <2>1, <3>2, DivMod
  <2> QED BY <2>1
<1>3. LengthOf(buf, k + 1) = digit(2) + B * (digit(3) + B * (digit(4) + B * digit(5)))
  BY <1>1 DEF LengthOf
<1>4. digit(2) \in Nat /\ digit(3) \in Nat /\ digit(4) \in Nat /\ digit(5) \in Nat
  BY <1>2
<1> HIDE DEF digit
<1>5. \A x, y \in Nat : x + B * y \in Nat
  BY <1>1
<1> QED BY <1>3, <1>4, <1>5

Outcomes == (Errors \ {"OK", "RECV_BUFFER_TOO_SMALL"}) \cup {"OK", "INCOMPLETE"}

\* mqtt_unpack_response ends in one of these ways, whatever it reads.
LEMMA ResponseTyped ==
  ASSUME NEW buf \in Seq(Bytes)
  PROVE  /\ UnpackResponse(buf).rv \in Outcomes
         /\ UnpackResponse(buf).rv = "OK" => UnpackResponse(buf).size \in Nat
<1>1. ASSUME NEW rv \in Outcomes \ {"OK"}, UnpackFixedHeader(buf) = Stopped(rv)
      PROVE  UnpackResponse(buf).rv = rv
  BY <1>1 DEF UnpackResponse, Stopped
<1>2. CASE LengthEnds(buf) = {}
  <2>1. \/ UnpackFixedHeader(buf) = Stopped("INCOMPLETE")
        \/ UnpackFixedHeader(buf) = Stopped("INVALID_REMAINING_LENGTH")
    BY <1>2, EveryHeader DEF LengthHas, Awaited, Stopped
  <2> QED BY <1>1, <2>1 DEF Outcomes, Errors
<1>3. ASSUME NEW k \in 1..4, LengthHas(buf, k), UnpackFixedHeader(buf) = HeaderAt(buf, k)
      PROVE  /\ UnpackResponse(buf).rv \in Outcomes
             /\ UnpackResponse(buf).rv = "OK" => UnpackResponse(buf).size \in Nat
  <2> DEFINE c == buf[1] \div 16   f == buf[1] % 16   n == LengthOf(buf, k + 1)
             d == SubSeq(buf, k + 2, k + 1 + n)
  <2>1. n \in Nat
    BY <1>3, LengthTyped DEF LengthHas, LengthEnds
  <2>2. CASE RuleViolation(c, f) # "OK"
    <3>1. RuleViolation(c, f) \in Outcomes \ {"OK"}
      BY <2>2 DEF RuleViolation, Outcomes, Errors
    <3> QED BY <1>1, <1>3, <2>2, <3>1 DEF HeaderAt
  <2>3. CASE RuleViolation(c, f) = "OK" /\ Len(buf) - (k + 1) < n
    BY <1>1, <1>3, <2>3 DEF HeaderAt, Awaited, Stopped, Outcomes
  <2>4. CASE RuleViolation(c, f) = "OK" /\ ~(Len(buf) - (k + 1) < n)
    <3> DEFINE h == Header(c, f, k, n)
    <3>1. UnpackFixedHeader(buf) = h
      BY <1>3, <2>4 DEF HeaderAt
    <3>2. h.rv = "OK" /\ h.size \in Nat /\ h.length \in Nat
      BY <2>1 DEF Header
    <3> HIDE DEF h
    <3>3. /\ UnpackResponse(buf).rv \in Outcomes
          /\ UnpackResponse(buf).rv = "OK" =>
               UnpackResponse(buf).size \in {h.size, h.size + h.length}
      BY <3>1, <3>2 DEF UnpackResponse, UnpackConnack, UnpackPublish, UnpackPubxxx, UnpackSuback,
           Response, Stopped, Outcomes, Errors
    <3> QED BY <3>2, <3>3
  <2> QED BY <2>2, <2>3, <2>4
<1> QED BY <1>2, <1>3, EveryHeader

\* The same part of two sequences that begin alike.
LEMMA SamePart ==
  ASSUME NEW s \in Seq(Bytes), NEW t \in Seq(Bytes), Len(t) <= Len(s),
         \A i \in 1..Len(t) : s[i] = t[i],
         NEW a \in Nat, a >= 1, NEW z \in Nat, z <= Len(t)
  PROVE  SubSeq(s, a, z) = SubSeq(t, a, z)
OBVIOUS

\* Of the bytes that were enough to say something, the first say it: what
\* follows them in the buffer changes nothing.
LEMMA FirstBytesDecide ==
  ASSUME NEW s \in Seq(Bytes), NEW buf, Agrees(buf, s), Len(buf) >= Len(s),
         UnpackResponse(s).rv # "INCOMPLETE"
  PROVE  UnpackResponse(buf) = UnpackResponse(s)
<1>1. /\ buf \in Seq(Bytes) /\ Len(buf) \in Nat /\ Len(s) \in Nat /\ Len(s) <= Len(buf)
      /\ \A i \in 1..Len(s) : buf[i] = s[i]
  BY DEF Agrees
<1>2. UnpackFixedHeader(s) # Awaited
  BY DEF UnpackResponse, Awaited, Stopped
<1>3. CASE LengthEnds(s) = {}
  <2>1. Len(s) >= 5 /\ UnpackFixedHeader(s) = Stopped("INVALID_REMAINING_LENGTH")
    BY <1>2, <1>3, EveryHeader DEF LengthHas
  <2>2. LengthEnds(buf) = {}
    BY <1>1, <1>3, <2>1 DEF LengthEnds
  <2>3. UnpackFixedHeader(buf) = UnpackFixedHeader(s)
    BY <1>1, <2>1, <2>2, EveryHeader DEF LengthHas
  <2> QED BY <2>1, <2>3 DEF UnpackResponse, Stopped
<1>4. ASSUME NEW k \in 1..4, LengthHas(s, k), UnpackFixedHeader(s) = HeaderAt(s, k)
      PROVE  UnpackResponse(buf) = UnpackResponse(s)
  <2> DEFINE c == s[1] \div 16   f == s[1] % 16   n == LengthOf(s, k + 1)
  <2>1. k + 1 <= Len(s) /\ n \in Nat
    BY <1>4, LengthTyped DEF LengthHas, LengthEnds
  <2>2. buf[1] = s[1] /\ \A i \in 2..(k + 1) : buf[i] = s[i]
    BY <1>1, <2>1
  <2>3. LengthOf(buf, k + 1) = n
    BY <2>2 DEF LengthOf
  <2>4. LengthHas(buf, k)
    BY <1>1, <1>4, <2>1 DEF LengthHas, LengthEnds
  <2>5. UnpackFixedHeader(buf) = HeaderAt(buf, k)
    <3>1. PICK j \in 1..4 : LengthHas(buf, j) /\ UnpackFixedHeader(buf) = HeaderAt(buf, j)
      BY <1>1, <2>4, EveryHeader DEF LengthHas
    <3>2. j = k
      BY <2>4, <3>1 DEF LengthHas
    <3> QED BY <3>1, <3>2
  <2>6. CASE RuleViolation(c, f) # "OK"
    <3>1. UnpackFixedHeader(buf) = Stopped(RuleViolation(c, f))
      BY <2>2, <2>5, <2>6 DEF HeaderAt
    <3>2. UnpackFixedHeader(s) = Stopped(RuleViolation(c, f))
      BY <1>4, <2>6 DEF HeaderAt
    <3> QED BY <2>6, <3>1, <3>2 DEF UnpackResponse, Stopped
  <2>7. CASE RuleViolation(c, f) = "OK"
    <3> DEFINE h == Header(c, f, k, n)
    <3>1. ~(Len(s) - (k + 1) < n)
      BY <1>2, <1>4, <2>7 DEF HeaderAt
    <3>2. ~(Len(buf) - (k + 1) < n) /\ k + 1 + n <= Len(s)
      BY <1>1, <2>1, <3>1
    <3>3. UnpackFixedHeader(s) = h
      BY <1>4, <2>7, <3>1 DEF HeaderAt
    <3>4. UnpackFixedHeader(buf) = h
      BY <2>2, <2>3, <2>5, <2>7, <3>2 DEF HeaderAt
    <3>5. h.size + 1 \in Nat /\ h.size + 1 >= 1 /\ h.size + h.length \in Nat /\ h.size + h.length <= Len(s)
      BY <2>1, <3>2 DEF Header
    <3> HIDE DEF h
    <3>6. SubSeq(buf, h.size + 1, h.size + h.length) = SubSeq(s, h.size + 1, h.size + h.length)
      <4> DEFINE a == h.size + 1   z == h.size + h.length
      <4>1. a \in Nat /\ a >= 1 /\ z \in Nat /\ z <= Len(s)
        BY <3>5
      <4> HIDE DEF a, z
      <4>2. SubSeq(buf, a, z) = SubSeq(s, a, z)
        BY <1>1, <4>1, SamePart
      <4> QED BY <4>2 DEF a, z
    <3> QED BY <3>3, <3>4, <3>6 DEF UnpackResponse
  <2> QED BY <2>6, <2>7
<1> QED BY <1>3, <1>4, EveryHeader

-----------------------------------------------------------------------------
(* Types.                                                                  *)

LEMMA EncodeTyped ==
  ASSUME NEW p \in Sendable
  PROVE  Encode(p) \in Seq(Bytes)
<1>1. CASE p \in Incoming
  BY <1>1, Encoded DEF Joined3
<1>2. CASE p \in {[type |-> "stray", bytes |-> s] : s \in Strays}
  BY <1>2, StrayAssumption DEF Encode, Texts
<1> QED BY <1>1, <1>2 DEF Sendable

\* The bytes that mqtt_unpack_response is called with after n more are read.
BytesRead(n) == buffer \o SubSeq(net, 1, n)

LEMMA ReadTyped ==
  ASSUME TypeOK, NEW n \in 0..RecvCap, RecvAll(n)
  PROVE  /\ BytesRead(n) \in Seq(Bytes) /\ Len(BytesRead(n)) = Len(buffer) + n
         /\ Len(BytesRead(n)) <= RecvCap
         /\ \A i \in 1..Len(buffer) : BytesRead(n)[i] = buffer[i]
         /\ \A i \in 1..n : BytesRead(n)[Len(buffer) + i] = net[i]
         /\ SubSeq(net, n + 1, Len(net)) \in Seq(Bytes)
         /\ Len(SubSeq(net, n + 1, Len(net))) = Len(net) - n
         /\ \A i \in 1..(Len(net) - n) : SubSeq(net, n + 1, Len(net))[i] = net[n + i]
<1> DEFINE m == SubSeq(net, 1, n)   r == SubSeq(net, n + 1, Len(net))
<1>1. /\ net \in Seq(Bytes) /\ buffer \in Seq(Bytes) /\ Len(buffer) \in Nat /\ Len(net) \in Nat
      /\ RecvCap \in Nat /\ n \in Nat /\ n <= Len(net) /\ n <= RecvCap - Len(buffer)
  BY StreamAssumption DEF TypeOK, RecvAll
<1>2. m \in Seq(Bytes) /\ Len(m) = n /\ \A i \in 1..n : m[i] = net[i]
  BY <1>1
<1>3. /\ r \in Seq(Bytes) /\ Len(r) = Len(net) - n
      /\ \A i \in 1..(Len(net) - n) : r[i] = net[n + i]
  BY <1>1
<1>4. Joined(BytesRead(n), buffer, m)
  <2> HIDE DEF m
  <2>1. Joined(buffer \o m, buffer, m)
    BY <1>1, <1>2, Concat
  <2> QED BY <2>1 DEF BytesRead, m
<1> HIDE DEF m, r
<1>5. /\ BytesRead(n) \in Seq(Bytes) /\ Len(BytesRead(n)) = Len(buffer) + n
      /\ \A i \in 1..Len(buffer) : BytesRead(n)[i] = buffer[i]
      /\ \A i \in 1..n : BytesRead(n)[Len(buffer) + i] = net[i]
  BY <1>2, <1>4 DEF Joined
<1>6. Len(BytesRead(n)) <= RecvCap
  BY <1>1, <1>5
<1> QED BY <1>3, <1>5, <1>6 DEF r

LEMMA TypeStep == TypeOK /\ [Next]_vars => TypeOK'
<1> SUFFICES ASSUME TypeOK, [Next]_vars PROVE TypeOK'
  OBVIOUS
<1>1. ASSUME NEW p \in Sendable, BrokerSends(p) PROVE TypeOK'
  <2>1. net \o Encode(p) \in Seq(Bytes)
    BY EncodeTyped DEF TypeOK
  <2> QED BY <1>1, <2>1 DEF BrokerSends, TypeOK
<1>2. ASSUME NEW n \in 0..RecvCap, Recv(n) PROVE TypeOK'
  <2> DEFINE bytes == BytesRead(n)   response == UnpackResponse(bytes)
  <2>1. /\ bytes \in Seq(Bytes) /\ Len(bytes) <= RecvCap
        /\ net' \in Seq(Bytes)
    BY <1>2, ReadTyped DEF Recv, Remaining
  <2>2. response.rv \in Outcomes /\ (response.rv = "OK" => response.size \in Nat)
    BY <2>1, ResponseTyped
  <2>3. CASE response.rv = "OK"
    <3>1. buffer' = SubSeq(bytes, response.size + 1, Len(bytes)) /\ error' = error
      BY <1>2, <2>3 DEF Recv, Remaining, BytesRead
    <3>2. response.size \in Nat
      BY <2>2, <2>3
    <3> HIDE DEF bytes, response
    <3>3. buffer' \in Seq(Bytes) /\ Len(buffer') <= Len(bytes)
      BY <2>1, <3>1, <3>2
    <3> QED BY <2>1, <3>1, <3>3, StreamAssumption DEF TypeOK
  <2>4. CASE response.rv # "OK"
    <3>1. buffer' = bytes /\ error' \in {error, "RECV_BUFFER_TOO_SMALL", response.rv}
      BY <1>2, <2>4 DEF Recv, Remaining, BytesRead
    <3>2. response.rv # "INCOMPLETE" => response.rv \in Errors
      BY <2>2 DEF Outcomes, Errors
    <3>3. response.rv = "INCOMPLETE" => error' \in {error, "RECV_BUFFER_TOO_SMALL"}
      BY <1>2, <2>4 DEF Recv, Remaining, BytesRead
    <3> HIDE DEF bytes, response
    <3> QED BY <2>1, <3>1, <3>2, <3>3 DEF TypeOK, Errors
  <2> QED BY <2>3, <2>4
<1>3. ASSUME NEW q \in Requests, NEW room \in Rooms, Request(q, room) PROVE TypeOK'
  BY <1>3 DEF Request, TypeOK
<1>4. CASE UNCHANGED vars
  BY <1>4 DEF vars, TypeOK
<1> QED BY <1>1, <1>2, <1>3, <1>4 DEF Next

\* The receive buffer never holds more bytes than it has, and mqtt_sync ends
\* with an error of mqtt.h or goes on.
THEOREM TypeCorrect == Spec => []TypeOK
<1>1. Init => TypeOK
  BY StreamAssumption DEF Init, TypeOK, Errors
<1> QED BY <1>1, TypeStep, PTL DEF Spec

-----------------------------------------------------------------------------
(* The stream of bytes.                                                    *)

\* t stands in s behind position k.
Stands(t, s, k) == k + Len(t) <= Len(s) /\ \A j \in 1..Len(t) : s[k + j] = t[j]

\* All bytes ever sent, cut at the ends of the packets.
Cuts(stream, cut) ==
  /\ stream \in Seq(Bytes) /\ cut \in [Nat -> Nat]
  /\ cut[0] = 0 /\ cut[Len(sent)] = Len(stream)
  /\ \A i \in 1..Len(sent) : /\ Stands(Encode(sent[i]), stream, cut[i - 1])
                             /\ cut[i] = cut[i - 1] + Len(Encode(sent[i]))

\* b and then r are all that follows position k: the buffer and the network.
Follow(b, r, stream, k) ==
  /\ Len(stream) = k + Len(b) + Len(r)
  /\ Stands(b, stream, k) /\ Stands(r, stream, k + Len(b))
Rest(stream, k) == Follow(buffer, net, stream, k)

\* What was received is what was sent first, and the rest of the stream begins
\* where the first packet begins that was not received.
StreamInv ==
  /\ sent \in Seq(Sendable) /\ got \in Seq(Sendable) /\ Len(got) <= Len(sent)
  /\ \E stream, cut : Cuts(stream, cut) /\ Rest(stream, cut[Len(got)])

Coming == sent[Len(got) + 1]

\* The next packet, if there is one, begins where the rest of the stream does.
ComesAt(stream, k) ==
  /\ stream \in Seq(Bytes) /\ k \in Nat /\ Rest(stream, k)
  /\ \/ Len(got) = Len(sent) /\ k = Len(stream)
     \/ /\ Len(got) < Len(sent) /\ Coming \in Sendable
        /\ Stands(Encode(Coming), stream, k)

LEMMA ComingStands ==
  ASSUME NEW stream, NEW cut, StreamInv, Cuts(stream, cut), Rest(stream, cut[Len(got)])
  PROVE  ComesAt(stream, cut[Len(got)])
<1> DEFINE g == Len(got)   m == Len(sent)   k == cut[g]
<1>1. g \in Nat /\ m \in Nat /\ g <= m /\ sent \in Seq(Sendable)
  BY DEF StreamInv
<1>2. k \in Nat /\ stream \in Seq(Bytes)
  <2> HIDE DEF g
  <2> QED BY <1>1 DEF Cuts
<1>3. CASE g = m
  <2>1. cut[m] = Len(stream)
    BY DEF Cuts
  <2>2. k = Len(stream)
    BY <1>3, <2>1
  <2> QED BY <1>2, <1>3, <2>2 DEF ComesAt
<1>4. CASE g < m
  <2> DEFINE i == g + 1
  <2>1. i \in 1..m /\ i - 1 = g
    <3> HIDE DEF g, m
    <3> QED BY <1>1, <1>4
  <2>2. Coming = sent[i]
    BY DEF Coming
  <2>3. Coming \in Sendable
    <3> HIDE DEF g, i
    <3> QED BY <1>1, <2>1, <2>2
  <2>4. Stands(Encode(sent[i]), stream, cut[i - 1])
    <3> HIDE DEF g, i
    <3> QED BY <2>1 DEF Cuts
  <2>5. Stands(Encode(Coming), stream, k)
    BY <2>1, <2>2, <2>4
  <2> HIDE DEF k, i
  <2> QED BY <1>2, <1>4, <2>3, <2>5 DEF ComesAt, k
<1> HIDE DEF g, m
<1> QED BY <1>1, <1>3, <1>4

\* The bytes read begin with the packet that comes next.
LEMMA ComingIsRead ==
  ASSUME TypeOK, NEW n \in 0..RecvCap, RecvAll(n), BytesRead(n) # <<>>,
         NEW stream, NEW k, ComesAt(stream, k)
  PROVE  /\ Len(got) < Len(sent) /\ Coming \in Sendable
         /\ Agrees(BytesRead(n), Encode(Coming))
<1> DEFINE bytes == BytesRead(n)
<1>1. /\ bytes \in Seq(Bytes) /\ Len(bytes) = Len(buffer) + n
      /\ \A i \in 1..Len(buffer) : bytes[i] = buffer[i]
      /\ \A i \in 1..n : bytes[Len(buffer) + i] = net[i]
  BY ReadTyped
<1>2. Len(buffer) \in Nat /\ Len(net) \in Nat /\ n \in Nat /\ n <= Len(net)
  BY StreamAssumption DEF RecvAll, TypeOK
<1>3. Len(bytes) > 0 /\ bytes # <<>>
  BY <1>1
<1> HIDE DEF bytes
<1>4. /\ Len(stream) = k + Len(buffer) + Len(net) /\ k \in Nat
      /\ \A i \in 1..Len(buffer) : stream[k + i] = buffer[i]
      /\ \A i \in 1..Len(net) : stream[k + Len(buffer) + i] = net[i]
  BY DEF ComesAt, Rest, Follow, Stands
<1>5. k # Len(stream)
  BY <1>1, <1>2, <1>3, <1>4
<1>6. Len(got) < Len(sent) /\ Coming \in Sendable /\ Stands(Encode(Coming), stream, k)
  BY <1>5 DEF ComesAt
<1>7. ASSUME NEW i \in 1..Len(bytes) PROVE bytes[i] = stream[k + i]
  <2>1. CASE i <= Len(buffer)
    BY <1>1, <1>2, <1>4, <2>1
  <2>2. CASE i > Len(buffer)
    <3> DEFINE j == i - Len(buffer)
    <3>1. j \in 1..n /\ j \in 1..Len(net) /\ Len(buffer) + j = i /\ k + Len(buffer) + j = k + i
      BY <1>1, <1>2, <1>4, <2>2
    <3> HIDE DEF j
    <3>2. stream[k + Len(buffer) + j] = net[j] /\ bytes[Len(buffer) + j] = net[j]
      BY <1>1, <1>4, <3>1
    <3> QED BY <3>1, <3>2
  <2> QED BY <1>1, <1>2, <2>1, <2>2
<1>8. Len(Encode(Coming)) \in Nat
  BY <1>6, EncodeTyped
<1>9. ASSUME NEW i \in 1..Len(bytes), i <= Len(Encode(Coming))
      PROVE  bytes[i] = Encode(Coming)[i]
  <2>1. i \in 1..Len(Encode(Coming))
    BY <1>1, <1>8, <1>9
  <2> QED BY <1>6, <1>7, <2>1 DEF Stands
<1>10. Agrees(bytes, Encode(Coming))
  BY <1>1, <1>3, <1>9 DEF Agrees
<1> QED BY <1>6, <1>10 DEF bytes

\* Of a stray nothing is ever received.
LEMMA StrayIsNotRead ==
  ASSUME NEW s \in Strays, NEW buf, Agrees(buf, s)
  PROVE  UnpackResponse(buf).rv # "OK"
<1>1. s \in Seq(Bytes) /\ buf \in Seq(Bytes) /\ Len(buf) > 0 /\ Len(buf) \in Nat /\ Len(s) \in Nat
  BY StrayAssumption DEF Texts, Agrees
<1>2. CASE Len(buf) >= Len(s)
  <2>1. UnpackResponse(s).rv \notin {"OK", "INCOMPLETE"}
    BY StrayAssumption
  <2>2. UnpackResponse(buf) = UnpackResponse(s)
    BY <1>1, <1>2, <2>1, FirstBytesDecide
  <2> QED BY <2>1, <2>2
<1>3. CASE Len(buf) < Len(s)
  <2> DEFINE t == SubSeq(s, 1, Len(buf))
  <2>1. Len(buf) \in 1..(Len(s) - 1)
    BY <1>1, <1>3
  <2>2. UnpackResponse(t).rv # "OK"
    BY <2>1, StrayAssumption
  <2>3. \A i \in 1..Len(buf) : s[0 + i] = buf[i]
    BY <1>1, <2>1 DEF Agrees
  <2>4. t = buf
    <3>1. SubSeq(s, 0 + 1, 0 + Len(buf)) = buf
      BY <1>1, <1>3, <2>3, Part
    <3> QED BY <1>1, <3>1
  <2> QED BY <2>2, <2>4
<1> QED BY <1>1, <1>2, <1>3

-----------------------------------------------------------------------------
(* One turn of __mqtt_recv.                                                *)

\* It passes a whole packet on, waits, or stops at a packet it cannot read.
PassesOn(n) ==
  /\ Len(got) < Len(sent) /\ Coming \in Sendable \ Unreadable /\ got' = Append(got, Coming)
  /\ Len(Encode(Coming)) <= Len(BytesRead(n))
  /\ buffer' = SubSeq(BytesRead(n), Len(Encode(Coming)) + 1, Len(BytesRead(n)))
  /\ error' = error
Waits(n) == got' = got /\ buffer' = BytesRead(n) /\ error' = error
Stops(n) ==
  /\ Len(got) < Len(sent) /\ Coming \in Unreadable
  /\ got' = got /\ buffer' = BytesRead(n) /\ error' # "OK"

LEMMA NothingIsAwaited == UnpackResponse(<<>>) = Awaited
<1>1. LengthEnds(<<>>) = {} /\ Len(<<>>) < 5
  BY DEF LengthEnds
<1>2. UnpackFixedHeader(<<>>) = Awaited
  BY <1>1 DEF UnpackFixedHeader, Awaited
<1> QED BY <1>2 DEF UnpackResponse, Awaited, Stopped

LEMMA NotStray == ASSUME NEW p \in Incoming PROVE p.type # "stray"
BY Kinds DEF Connacks, Publishes, Acks, AckTypes, Subacks, Pingresps

LEMMA Turn ==
  ASSUME TypeOK, NEW n \in 0..RecvCap, Recv(n), NEW stream, NEW k, ComesAt(stream, k)
  PROVE  PassesOn(n) \/ Waits(n) \/ Stops(n)
<1> DEFINE bytes == BytesRead(n)   response == UnpackResponse(bytes)   e == Encode(Coming)
<1>1. RecvAll(n) /\ error = "OK"
  BY DEF Recv, Remaining
<1>2. bytes \in Seq(Bytes) /\ Len(bytes) \in Nat /\ Len(bytes) <= RecvCap
  BY <1>1, ReadTyped
<1>3. \/ /\ response.rv = "OK" /\ got' = Append(got, response.packet) /\ error' = error
         /\ buffer' = SubSeq(bytes, response.size + 1, Len(bytes))
      \/ /\ response.rv = "INCOMPLETE" /\ got' = got /\ buffer' = bytes
         /\ error' = IF Len(bytes) = RecvCap THEN "RECV_BUFFER_TOO_SMALL" ELSE error
      \/ /\ response.rv \notin {"OK", "INCOMPLETE"} /\ got' = got /\ buffer' = bytes
         /\ error' = response.rv
  BY DEF Recv, Remaining, BytesRead
<1>4. ASSUME got' = got, buffer' = bytes, error' # "OK",
             Len(got) < Len(sent), Coming \in Unreadable
      PROVE  Stops(n)
  BY <1>4 DEF Stops
<1>5. CASE bytes = <<>>
  <2>1. response.rv = "INCOMPLETE" /\ Len(bytes) # RecvCap
    BY <1>5, NothingIsAwaited, StreamAssumption DEF Awaited, Stopped
  <2> HIDE DEF response, bytes
  <2> QED BY <1>3, <2>1 DEF Waits, bytes
<1>6. CASE bytes # <<>>
  <2>1. Len(got) < Len(sent) /\ Coming \in Sendable /\ Agrees(bytes, e)
    BY <1>1, <1>6, ComingIsRead
  <2>2. e \in Seq(Bytes) /\ Len(e) \in Nat
    BY <2>1, EncodeTyped
  <2>3. CASE Coming \notin Incoming
    <3>1. PICK s \in Strays : Coming = [type |-> "stray", bytes |-> s]
      BY <2>1, <2>3 DEF Sendable
    <3>2. e = s /\ Coming \in Unreadable
      BY <2>1, <3>1 DEF Encode, Unreadable
    <3>3. response.rv # "OK"
      BY <2>1, <3>2, StrayIsNotRead
    <3> HIDE DEF response, bytes
    <3>4. CASE Waits(n)
      BY <3>4
    <3>5. CASE error' # "OK"
      BY <1>3, <1>4, <2>1, <3>2, <3>3, <3>5
    <3> QED BY <1>1, <1>3, <3>3, <3>4, <3>5 DEF Waits, bytes
  <2>4. CASE Coming \in Incoming /\ Len(bytes) < Len(e)
    <3>1. response.rv = "INCOMPLETE"
      BY <2>1, <2>4, PacketAwaited DEF Awaited, Stopped
    <3>2. CASE Len(bytes) = RecvCap
      <4>1. Len(e) > RecvCap
        BY <2>4, <3>2, <2>2, <1>2
      <4>2. Coming \in Unreadable
        BY <2>1, <4>1 DEF Unreadable
      <4> HIDE DEF response, bytes
      <4> QED BY <1>3, <1>4, <2>1, <3>1, <3>2, <4>2
    <3>3. CASE Len(bytes) # RecvCap
      <4> HIDE DEF response, bytes
      <4> QED BY <1>3, <3>1, <3>3 DEF Waits, bytes
    <3> QED BY <3>2, <3>3
  <2>5. CASE Coming \in Incoming /\ Len(bytes) >= Len(e)
    <3>1. PacketRead(Coming, bytes)
      BY <2>1, <2>5, PacketIsRead
    <3>2. CASE Short(Coming)
      <4>1. response = Stopped("MALFORMED_RESPONSE")
        BY <3>1, <3>2 DEF PacketRead
      <4>2. Coming \in Unreadable
        BY <2>1, <3>2 DEF Unreadable, Short
      <4>3. response.rv = "MALFORMED_RESPONSE"
        BY <4>1 DEF Stopped
      <4> HIDE DEF response, bytes
      <4> QED BY <1>3, <1>4, <2>1, <4>2, <4>3
    <3>3. CASE ~Short(Coming)
      <4>1. response = [rv |-> "OK", size |-> Len(e), packet |-> Coming]
        BY <3>1, <3>3 DEF PacketRead
      <4>2. Coming \notin Unreadable
        <5>1. Coming.type # "stray" /\ ~(Len(e) > RecvCap)
          BY <1>2, <2>2, <2>5, NotStray, StreamAssumption
        <5> QED BY <3>3, <5>1 DEF Unreadable, Short
      <4>3. response.rv = "OK" /\ response.size = Len(e) /\ response.packet = Coming
        BY <4>1
      <4> HIDE DEF response
      <4>4. /\ got' = Append(got, Coming) /\ error' = error
            /\ buffer' = SubSeq(bytes, Len(e) + 1, Len(bytes))
        BY <1>3, <4>3
      <4> QED BY <2>1, <2>5, <4>2, <4>4 DEF PassesOn
    <3> QED BY <3>2, <3>3
  <2> QED BY <1>2, <2>2, <2>3, <2>4, <2>5
<1> QED BY <1>5, <1>6

\* t is what is behind the first d elements of s.
IsBehind(t, s, d) ==
  Len(t) = Len(s) - d /\ \A i \in 1..(Len(s) - d) : t[i] = s[d + i]

LEMMA Behind ==
  ASSUME NEW s \in Seq(Bytes), NEW d \in Nat, d <= Len(s)
  PROVE  IsBehind(SubSeq(s, d + 1, Len(s)), s, d)
BY DEF IsBehind

\* After d of the bytes read are taken, the rest of the stream begins d later.
LEMMA RestMoves ==
  ASSUME TypeOK, NEW n \in 0..RecvCap, RecvAll(n),
         NEW stream \in Seq(Bytes), NEW k \in Nat, Rest(stream, k),
         NEW d \in Nat, d <= Len(BytesRead(n))
  PROVE  Follow(SubSeq(BytesRead(n), d + 1, Len(BytesRead(n))),
                SubSeq(net, n + 1, Len(net)), stream, k + d)
<1>b. PICK b : b = SubSeq(BytesRead(n), d + 1, Len(BytesRead(n)))
  OBVIOUS
<1>r. PICK r : r = SubSeq(net, n + 1, Len(net))
  OBVIOUS
<1> DEFINE bytes == BytesRead(n)   inBuffer == Len(buffer)   inNet == Len(net)
           lb == Len(b)   lr == Len(r)   ls == Len(stream)
<1>1. /\ bytes \in Seq(Bytes) /\ Len(bytes) = inBuffer + n
      /\ \A i \in 1..inBuffer : bytes[i] = buffer[i]
      /\ \A i \in 1..n : bytes[inBuffer + i] = net[i]
      /\ lr = inNet - n
      /\ \A i \in 1..(inNet - n) : r[i] = net[n + i]
  BY <1>r, ReadTyped
<1>2. inBuffer \in Nat /\ inNet \in Nat /\ n \in Nat /\ n <= inNet
  BY StreamAssumption DEF RecvAll, TypeOK
<1>3. d <= Len(bytes) /\ b = SubSeq(bytes, d + 1, Len(bytes))
  BY <1>b
<1>4. /\ ls = k + inBuffer + inNet
      /\ \A i \in 1..inBuffer : stream[k + i] = buffer[i]
      /\ \A i \in 1..inNet : stream[k + inBuffer + i] = net[i]
  BY DEF Rest, Follow, Stands
<1> HIDE DEF bytes
<1>5. lb = inBuffer + n - d /\ d <= inBuffer + n /\ \A i \in 1..lb : b[i] = bytes[d + i]
  <2>1. IsBehind(SubSeq(bytes, d + 1, Len(bytes)), bytes, d)
    BY <1>1, <1>3, Behind
  <2>2. IsBehind(b, bytes, d)
    BY <1>3, <2>1
  <2>3. lb = Len(bytes) - d /\ \A i \in 1..(Len(bytes) - d) : b[i] = bytes[d + i]
    BY <2>2 DEF IsBehind
  <2> HIDE DEF lb, inBuffer, inNet
  <2>4. \A i \in 1..lb : b[i] = bytes[d + i]
    BY <2>3, Zenon
  <2>5. Len(bytes) = inBuffer + n /\ lb = Len(bytes) - d /\ d <= Len(bytes)
    BY <1>1, <1>3, <2>3
  <2>6. lb = inBuffer + n - d /\ d <= inBuffer + n
    BY <1>2, <2>5
  <2> QED BY <2>4, <2>6
<1> HIDE DEF inBuffer, inNet, lb, lr, ls
<1>6. ls = k + d + lb + lr /\ lb \in Nat /\ lr \in Nat
  BY <1>1, <1>2, <1>5, <1>4
<1>7. ASSUME NEW i \in 1..(inBuffer + n) PROVE bytes[i] = stream[k + i]
  <2>1. CASE i <= inBuffer
    <3>1. i \in 1..inBuffer
      BY <1>2, <2>1
    <3> QED BY <1>1, <1>4, <3>1
  <2>2. CASE i > inBuffer
    <3> DEFINE j == i - inBuffer
    <3>1. j \in 1..n /\ j \in 1..inNet /\ inBuffer + j = i /\ k + inBuffer + j = k + i
      BY <1>2, <2>2
    <3> HIDE DEF j
    <3>2. stream[k + inBuffer + j] = net[j] /\ bytes[inBuffer + j] = net[j]
      BY <1>1, <1>4, <3>1
    <3> QED BY <3>1, <3>2
  <2> QED BY <1>2, <2>1, <2>2
<1>8. ASSUME NEW j \in 1..lb PROVE stream[k + d + j] = b[j]
  <2>1. d + j \in 1..(inBuffer + n) /\ k + (d + j) = k + d + j
    BY <1>2, <1>5
  <2>2. b[j] = bytes[d + j]
    BY <1>5
  <2>3. bytes[d + j] = stream[k + (d + j)]
    BY <1>7, <2>1
  <2> QED BY <2>1, <2>2, <2>3
<1>9. ASSUME NEW j \in 1..lr PROVE stream[k + d + lb + j] = r[j]
  <2>1. /\ j \in 1..(inNet - n) /\ n + j \in 1..inNet
        /\ k + inBuffer + (n + j) = k + d + lb + j
    BY <1>1, <1>2, <1>5
  <2>2. r[j] = net[n + j] /\ stream[k + inBuffer + (n + j)] = net[n + j]
    BY <1>1, <1>4, <2>1
  <2> QED BY <2>1, <2>2
<1>10. k + d + lb <= ls /\ k + d + lb + lr <= ls
  BY <1>6
<1>11. Follow(b, r, stream, k + d)
  BY <1>6, <1>8, <1>9, <1>10 DEF Follow, Stands, lb, lr, ls
<1> QED BY <1>b, <1>r, <1>11

-----------------------------------------------------------------------------
(* The refinement.                                                         *)

LEMMA SentGrows ==
  ASSUME NEW s, s \in Seq(Sendable), NEW p \in Sendable
  PROVE  LET t == Append(s, p)
         IN /\ t \in Seq(Sendable) /\ Len(t) = Len(s) + 1 /\ t[Len(s) + 1] = p
            /\ \A i \in 1..Len(s) : t[i] = s[i]
OBVIOUS

LEMMA StreamInit == Init => StreamInv
<1> SUFFICES ASSUME Init PROVE StreamInv
  OBVIOUS
<1> DEFINE cut == [i \in Nat |-> 0]
<1>1. sent = <<>> /\ got = <<>> /\ net = <<>> /\ buffer = <<>>
  BY DEF Init
<1>2. sent \in Seq(Sendable) /\ got \in Seq(Sendable) /\ Len(sent) = 0 /\ Len(got) = 0
  BY <1>1
<1>3. <<>> \in Seq(Bytes) /\ cut \in [Nat -> Nat] /\ cut[0] = 0
  OBVIOUS
<1> HIDE DEF cut
<1>4. Cuts(<<>>, cut)
  BY <1>2, <1>3 DEF Cuts
<1>5. Rest(<<>>, 0)
  BY <1>1 DEF Rest, Follow, Stands
<1>6. Rest(<<>>, cut[Len(got)])
  BY <1>2, <1>3, <1>5
<1> QED BY <1>2, <1>4, <1>6 DEF StreamInv

\* Bytes at the end of the stream change nothing in front of them.
LEMMA StandsStill ==
  ASSUME NEW s \in Seq(Bytes), NEW e \in Seq(Bytes), NEW t \in Seq(Bytes), NEW k \in Nat, Stands(t, s, k)
  PROVE  Stands(t, s \o e, k)
<1>1. Joined(s \o e, s, e)
  BY Concat
<1>2. Len(t) \in Nat /\ Len(s) \in Nat /\ Len(e) \in Nat
  OBVIOUS
<1> DEFINE u == s \o e
<1>3. Len(u) = Len(s) + Len(e) /\ \A i \in 1..Len(s) : u[i] = s[i]
  BY <1>1 DEF Joined
<1> HIDE DEF u
<1>4. k + Len(t) <= Len(u)
  BY <1>2, <1>3 DEF Stands
<1>5. ASSUME NEW j \in 1..Len(t) PROVE u[k + j] = t[j]
  <2>1. k + j \in 1..Len(s)
    BY <1>2 DEF Stands
  <2> QED BY <1>3, <2>1 DEF Stands
<1> QED BY <1>4, <1>5 DEF Stands, u

\* A packet more at the end of the stream.
LEMMA StreamGrows ==
  ASSUME TypeOK, StreamInv, NEW p \in Sendable, BrokerSends(p)
  PROVE  StreamInv'
<1> DEFINE e == Encode(p)
<1>m. PICK m : m = Len(sent)
  OBVIOUS
<1>1. PICK stream, cut : Cuts(stream, cut) /\ Rest(stream, cut[Len(got)])
  BY DEF StreamInv
<1>k. PICK k : k = cut[Len(got)]
  OBVIOUS
<1>s. PICK stream2 : stream2 = stream \o e
  OBVIOUS
<1>c. PICK cut2 : cut2 = [i \in Nat |-> IF i = m + 1 THEN cut[m] + Len(e) ELSE cut[i]]
  OBVIOUS
<1>2. /\ sent \in Seq(Sendable) /\ m \in Nat /\ Len(got) \in Nat /\ Len(got) <= m
      /\ got' = got /\ buffer' = buffer /\ net' = net \o e /\ sent' = Append(sent, p)
      /\ got \in Seq(Sendable)
  BY <1>m DEF StreamInv, BrokerSends
<1>3. /\ sent' \in Seq(Sendable) /\ Len(sent') = m + 1 /\ sent'[m + 1] = p
      /\ \A i \in 1..m : sent'[i] = sent[i]
  BY <1>m, <1>2, SentGrows
<1>4. e \in Seq(Bytes) /\ Len(e) \in Nat
  BY EncodeTyped
<1>5. stream \in Seq(Bytes) /\ cut \in [Nat -> Nat] /\ cut[m] = Len(stream) /\ cut[0] = 0
  BY <1>1, <1>m DEF Cuts
<1>6. Joined(stream2, stream, e)
  BY <1>4, <1>5, <1>s, Concat
<1>7. \A i \in Nat : cut[i] \in Nat
  BY <1>5
<1>8. /\ cut2 \in [Nat -> Nat] /\ cut2[m + 1] = cut[m] + Len(e)
      /\ \A i \in Nat : i # m + 1 => cut2[i] = cut[i]
  <2>1. cut[m] + Len(e) \in Nat
    <3> HIDE DEF e
    <3> QED BY <1>2, <1>4, <1>7
  <2>2. m + 1 \in Nat
    BY <1>2
  <2> HIDE DEF e
  <2> QED BY <1>7, <1>c, <2>1, <2>2
<1> HIDE DEF e
<1>9. stream2 \in Seq(Bytes) /\ Len(stream2) = Len(stream) + Len(e)
  BY <1>6 DEF Joined
<1>10. ASSUME NEW i \in 1..(m + 1)
       PROVE  /\ Stands(Encode(sent'[i]), stream2, cut2[i - 1])
              /\ cut2[i] = cut2[i - 1] + Len(Encode(sent'[i]))
  <2>1. i - 1 \in Nat /\ i - 1 # m + 1 /\ cut2[i - 1] = cut[i - 1] /\ cut[i - 1] \in Nat
    <3>1. i - 1 \in Nat /\ i - 1 # m + 1
      BY <1>2
    <3> QED BY <1>7, <1>8, <3>1
  <2>2. CASE i \in 1..m
    <3>1. sent'[i] = sent[i] /\ sent[i] \in Sendable /\ i \in Nat /\ i # m + 1
      BY <1>m, <1>2, <1>3, <2>2
    <3>2. /\ Stands(Encode(sent[i]), stream, cut[i - 1])
          /\ cut[i] = cut[i - 1] + Len(Encode(sent[i]))
      BY <1>m, <1>1, <2>2 DEF Cuts
    <3>3. Stands(Encode(sent[i]), stream2, cut[i - 1])
      BY <1>4, <1>5, <2>1, <3>1, <3>2, <1>s, EncodeTyped, StandsStill
    <3>4. cut2[i] = cut[i]
      BY <1>8, <3>1
    <3> QED BY <2>1, <3>1, <3>2, <3>3, <3>4
  <2>3. CASE i = m + 1
    <3>1. i - 1 = m /\ sent'[i] = p
      BY <1>2, <1>3, <2>3
    <3>2. cut[m] = Len(stream) /\ cut2[i] = cut[m] + Len(e) /\ cut2[i - 1] = cut[m]
      BY <1>5, <1>8, <2>1, <2>3, <3>1
    <3>3. Stands(e, stream2, Len(stream))
      BY <1>6, <1>9 DEF Joined, Stands
    <3> QED BY <3>1, <3>2, <3>3 DEF e
  <2>4. i \in 1..m \/ i = m + 1
    <3>1. m \in Nat
      BY <1>2
    <3> QED BY <3>1
  <2> QED BY <2>2, <2>3, <2>4
<1>11. Cuts(stream2, cut2)'
  <2>1. cut2[0] = 0
    <3>1. 0 # m + 1
      BY <1>2
    <3> QED BY <1>5, <1>8, <3>1
  <2>2. cut2[m + 1] = Len(stream2)
    BY <1>5, <1>8, <1>9
  <2>3. Len(sent') = m + 1 /\ cut2 \in [Nat -> Nat] /\ stream2 \in Seq(Bytes)
    BY <1>3, <1>8, <1>9
  <2>4. cut2[Len(sent')] = Len(stream2)
    BY <2>2, <2>3, Zenon
  <2>5. \A i \in 1..Len(sent') : /\ Stands(Encode(sent'[i]), stream2, cut2[i - 1])
                                 /\ cut2[i] = cut2[i - 1] + Len(Encode(sent'[i]))
    BY <1>10, <2>3, Zenon
  <2> QED BY <2>1, <2>3, <2>4, <2>5, Zenon DEF Cuts
<1>12. k \in Nat /\ cut2[Len(got')] = k
  <2>1. Len(got) # m + 1
    BY <1>2
  <2> QED BY <1>k, <1>2, <1>7, <1>8, <2>1
<1>13. Rest(stream2, k)'
  <2>1. /\ Len(stream) = k + Len(buffer) + Len(net)
        /\ Stands(buffer, stream, k) /\ Stands(net, stream, k + Len(buffer))
    BY <1>1, <1>k DEF Rest, Follow
  <2>2. net \in Seq(Bytes) /\ buffer \in Seq(Bytes)
    BY DEF TypeOK
  <2>3. Joined(net \o e, net, e)
    BY <1>4, <2>2, Concat
  <2> DEFINE net2 == net \o e   lb == Len(buffer)   ln == Len(net)   le == Len(e)   ls == Len(stream)
  <2>4. /\ Len(net2) = ln + le /\ \A i \in 1..ln : net2[i] = net[i]
        /\ \A i \in 1..le : net2[ln + i] = e[i]
    BY <2>3 DEF Joined
  <2>5. lb \in Nat /\ ln \in Nat /\ le \in Nat /\ ls = k + lb + ln
    BY <1>4, <2>1, <2>2
  <2>6. \A i \in 1..ls : stream2[i] = stream[i]
    BY <1>6 DEF Joined
  <2>7. \A i \in 1..le : stream2[ls + i] = e[i]
    BY <1>6 DEF Joined
  <2>8. Stands(buffer, stream2, k)
    BY <1>4, <1>5, <1>12, <2>1, <2>2, <1>s, StandsStill
  <2>9. \A i \in 1..ln : stream[k + lb + i] = net[i]
    BY <2>1 DEF Stands
  <2>10. Len(stream2) = ls + le
    BY <1>9
  <2> HIDE DEF net2, lb, ln, le, ls
  <2>11. ASSUME NEW i \in 1..Len(net2) PROVE stream2[k + lb + i] = net2[i]
    <3>1. CASE i <= ln
      <4>1. i \in 1..ln /\ k + lb + i \in 1..ls
        BY <1>12, <2>5, <3>1
      <4> QED BY <2>4, <2>6, <2>9, <4>1
    <3>2. CASE i > ln
      <4> DEFINE j == i - ln
      <4>1. j \in 1..le /\ ln + j = i /\ ls + j = k + lb + i
        BY <1>12, <2>4, <2>5, <3>2
      <4> HIDE DEF j
      <4>2. stream2[ls + j] = e[j] /\ net2[ln + j] = e[j]
        BY <2>4, <2>7, <4>1
      <4> QED BY <4>1, <4>2
    <3> QED BY <2>5, <3>1, <3>2
  <2>12. Len(stream2) = k + lb + Len(net2) /\ k + lb + Len(net2) <= Len(stream2)
    BY <1>12, <2>4, <2>5, <2>10
  <2>13. Stands(net2, stream2, k + lb)
    BY <2>11, <2>12 DEF Stands
  <2>14. net' = net2 /\ buffer' = buffer
    BY <1>2 DEF net2
  <2>15. Len(buffer') = lb /\ Len(net') = Len(net2)
    BY <2>14 DEF lb
  <2>16. Stands(buffer', stream2, k) /\ Stands(net', stream2, k + Len(buffer'))
    BY <2>8, <2>13, <2>14, <2>15, Zenon
  <2>17. Len(stream2) = k + Len(buffer') + Len(net')
    BY <2>12, <2>15, Zenon
  <2> QED BY <2>16, <2>17, Zenon DEF Rest, Follow
<1>14. Len(got') <= Len(sent')
  <2>1. Len(got') = Len(got) /\ Len(got) \in Nat /\ m \in Nat /\ Len(got) <= m
    BY <1>2
  <2>2. Len(sent') = m + 1
    BY <1>3
  <2> QED BY <2>1, <2>2
<1> QED BY <1>2, <1>3, <1>11, <1>12, <1>13, <1>14 DEF StreamInv

\* The same packets and their ends, when a step moves neither.
LEMMA CutsKept ==
  ASSUME NEW stream, NEW cut, Cuts(stream, cut), UNCHANGED sent
  PROVE  Cuts(stream, cut)'
BY DEF Cuts

LEMMA StreamRead ==
  ASSUME TypeOK, StreamInv, NEW n \in 0..RecvCap, Recv(n)
  PROVE  StreamInv'
<1>1. PICK stream, cut : Cuts(stream, cut) /\ Rest(stream, cut[Len(got)])
  BY DEF StreamInv
<1>k. PICK k : k = cut[Len(got)]
  OBVIOUS
<1>2. ComesAt(stream, k)
  BY <1>1, <1>k, ComingStands
<1>3. stream \in Seq(Bytes) /\ k \in Nat /\ Rest(stream, k)
  BY <1>2 DEF ComesAt
<1>4. RecvAll(n) /\ net' = SubSeq(net, n + 1, Len(net)) /\ sent' = sent
  BY DEF Recv, Remaining
<1>5. sent \in Seq(Sendable) /\ got \in Seq(Sendable) /\ Len(got) <= Len(sent)
  BY DEF StreamInv
<1>6. Cuts(stream, cut)'
  BY <1>1, <1>4, CutsKept
<1>7. BytesRead(n) \in Seq(Bytes)
  BY <1>4, ReadTyped
<1>8. ASSUME NEW d \in Nat, d <= Len(BytesRead(n)),
             buffer' = SubSeq(BytesRead(n), d + 1, Len(BytesRead(n))), cut[Len(got')] = k + d
      PROVE  Rest(stream, cut[Len(got)])'
  <2>1. Follow(SubSeq(BytesRead(n), d + 1, Len(BytesRead(n))),
               SubSeq(net, n + 1, Len(net)), stream, k + d)
    BY <1>3, <1>4, <1>8, RestMoves
  <2>2. Follow(buffer', net', stream, cut[Len(got')])
    BY <1>4, <1>8, <2>1
  <2> QED BY <2>2 DEF Rest
<1>9. CASE PassesOn(n)
  <2>1. PICK d : d = Len(Encode(Coming))
    OBVIOUS
  <2>2. Coming \in Sendable /\ got' = Append(got, Coming) /\ Len(got) < Len(sent)
    BY <1>9 DEF PassesOn
  <2>3. d \in Nat /\ d <= Len(BytesRead(n))
    BY <1>9, <2>1, <2>2, EncodeTyped DEF PassesOn
  <2>4. got' \in Seq(Sendable) /\ Len(got') = Len(got) + 1
    BY <1>5, <2>2, SentGrows
  <2>5. Len(got') \in 1..Len(sent) /\ Len(got') - 1 = Len(got) /\ Coming = sent[Len(got')]
    <3>1. Len(got) \in Nat /\ Len(sent) \in Nat
      BY <1>5
    <3> QED BY <2>2, <2>4, <3>1 DEF Coming
  <2>6. cut[Len(got')] = k + d
    BY <1>1, <1>k, <2>1, <2>5 DEF Cuts
  <2>7. Rest(stream, cut[Len(got)])'
    BY <1>8, <1>9, <2>1, <2>3, <2>6 DEF PassesOn
  <2>8. Len(got') <= Len(sent')
    BY <1>4, <1>5, <2>5
  <2> QED BY <1>4, <1>5, <1>6, <2>4, <2>7, <2>8 DEF StreamInv
<1>10. CASE Waits(n) \/ Stops(n)
  <2>1. got' = got /\ buffer' = BytesRead(n)
    BY <1>10 DEF Waits, Stops
  <2>2. buffer' = SubSeq(BytesRead(n), 0 + 1, Len(BytesRead(n)))
    BY <1>7, <2>1
  <2>3. 0 <= Len(BytesRead(n))
    BY <1>7
  <2>4. cut[Len(got')] = k + 0
    BY <1>3, <1>k, <2>1
  <2>5. Rest(stream, cut[Len(got)])'
    BY <1>8, <2>2, <2>3, <2>4
  <2> QED BY <1>4, <1>5, <1>6, <2>1, <2>5 DEF StreamInv
<1> QED BY <1>2, <1>9, <1>10, Turn

LEMMA StreamStep == TypeOK /\ StreamInv /\ [Next]_vars => StreamInv'
<1> SUFFICES ASSUME TypeOK, StreamInv, [Next]_vars PROVE StreamInv'
  OBVIOUS
<1>1. ASSUME UNCHANGED <<net, buffer, sent, got>> PROVE StreamInv'
  BY <1>1 DEF StreamInv, Cuts, Rest
<1>2. ASSUME NEW q \in Requests, NEW room \in Rooms, Request(q, room) PROVE StreamInv'
  BY <1>1, <1>2 DEF Request
<1>3. CASE UNCHANGED vars
  BY <1>1, <1>3 DEF vars
<1> QED BY <1>2, <1>3, StreamGrows, StreamRead DEF Next

LEMMA StepRefines ==
  ASSUME TypeOK, StreamInv, [Next]_vars
  PROVE  [Promised!Next]_Promised!vars
<1>1. ASSUME NEW p \in Sendable, BrokerSends(p) PROVE Promised!Send(p)
  BY <1>1 DEF BrokerSends, Promised!Send
<1>2. ASSUME NEW n \in 0..RecvCap, Recv(n) PROVE [Promised!Next]_Promised!vars
  <2>1. PICK stream, cut : Cuts(stream, cut) /\ Rest(stream, cut[Len(got)])
    BY DEF StreamInv
  <2>2. ComesAt(stream, cut[Len(got)])
    BY <2>1, ComingStands
  <2>3. PassesOn(n) \/ Waits(n) \/ Stops(n)
    BY <1>2, <2>2, Turn
  <2>4. error = "OK" /\ sent' = sent
    BY <1>2 DEF Recv, Remaining
  <2>5. CASE PassesOn(n)
    <3>1. Promised!Pass
      BY <2>4, <2>5 DEF PassesOn, Promised!Pass, Promised!Coming, Coming
    <3> QED BY <3>1 DEF Promised!Next
  <2>6. CASE Waits(n)
    BY <2>4, <2>6 DEF Waits, Promised!vars
  <2>7. CASE Stops(n)
    <3>1. Promised!Refuse
      BY <2>4, <2>7 DEF Stops, Promised!Refuse, Promised!Coming, Coming
    <3> QED BY <3>1 DEF Promised!Next
  <2> QED BY <2>3, <2>5, <2>6, <2>7
<1>3. ASSUME NEW q \in Requests, NEW room \in Rooms, Request(q, room) PROVE UNCHANGED Promised!vars
  BY <1>3 DEF Request, Promised!vars
<1>4. CASE UNCHANGED vars
  BY <1>4 DEF vars, Promised!vars
<1> QED BY <1>1, <1>2, <1>3, <1>4 DEF Next, Promised!Next

\* Whatever parts the bytes come in, __mqtt_recv takes from them the packets
\* that the broker sent, whole, once and in order, and stops for good at the
\* first one it cannot read and at no other.
THEOREM PacketsAreWhole == Spec => ImplementsPacketStream
<1>1. Init => Promised!Init
  BY DEF Init, Promised!Init
<1>2. Init => TypeOK /\ StreamInv
  BY StreamInit, StreamAssumption DEF Init, TypeOK, Errors
<1>3. TypeOK /\ StreamInv /\ [Next]_vars => (TypeOK /\ StreamInv)'
  BY TypeStep, StreamStep
<1>4. TypeOK /\ StreamInv /\ [Next]_vars => [Promised!Next]_Promised!vars
  BY StepRefines
<1> QED BY <1>1, <1>2, <1>3, <1>4, PTL DEF Spec, ImplementsPacketStream, Promised!Spec

-----------------------------------------------------------------------------
(* Packing.                                                                *)

\* g goes from start to what f makes of it, and of that, up to n.
Follows(g, n, start, f) == g[0] = start /\ \A i \in 1..n : g[i] = f[i][g[i - 1]]

\* A recursive function over 0..n exists.
LEMMA Recursion ==
  ASSUME NEW n \in Nat, NEW S, NEW start \in S, NEW f \in [1..n -> [S -> S]]
  PROVE  \E g \in [0..n -> S] : Follows(g, n, start, f)
<1>1. PICK T : T = {k \in 0..n : \E g \in [0..k -> S] : Follows(g, k, start, f)}
  OBVIOUS
<1>2. 0 \in T
  <2>1. PICK g : g = [i \in 0..0 |-> start]
    OBVIOUS
  <2>2. g \in [0..0 -> S] /\ Follows(g, 0, start, f)
    BY <2>1 DEF Follows
  <2> QED BY <1>1, <2>2
<1>3. ASSUME NEW k \in 0..(n - 1), k \in T PROVE k + 1 \in T
  <2>1. PICK g \in [0..k -> S] : Follows(g, k, start, f)
    BY <1>1, <1>3
  <2>2. k + 1 \in 1..n /\ g[k] \in S /\ f[k + 1][g[k]] \in S
    OBVIOUS
  <2>3. PICK h : h = [i \in 0..(k + 1) |-> IF i = k + 1 THEN f[k + 1][g[k]] ELSE g[i]]
    OBVIOUS
  <2>4. h \in [0..(k + 1) -> S]
    BY <2>2, <2>3
  <2>5. h[0] = start
    BY <2>1, <2>3 DEF Follows
  <2>6. ASSUME NEW i \in 1..(k + 1) PROVE h[i] = f[i][h[i - 1]]
    <3>1. h[i - 1] = g[i - 1]
      BY <2>3
    <3>2. CASE i = k + 1
      BY <2>3, <3>1, <3>2
    <3>3. CASE i # k + 1
      <4>1. i \in 1..k
        BY <3>3
      <4>2. h[i] = g[i]
        BY <2>3, <3>3
      <4> QED BY <2>1, <3>1, <4>1, <4>2 DEF Follows
    <3> QED BY <3>2, <3>3
  <2>7. Follows(h, k + 1, start, f)
    BY <2>5, <2>6 DEF Follows
  <2> QED BY <1>1, <2>2, <2>4, <2>7
<1>4. n \in T
  <2>1. \A k \in 0..(n - 1) : k \in T => k + 1 \in T
    BY <1>3
  <2>2. 0..n \subseteq T
    BY <1>2, <2>1, InductionUpTo
  <2> QED BY <2>2
<1> QED BY <1>1, <1>4

\* The partial sums of lens.
Sums(sum, lens, n) ==
  sum[0] = 0 /\ \A i \in 1..n : sum[i] = sum[i - 1] + lens[i]

LEMMA TotalSums ==
  ASSUME NEW n \in Nat, NEW lens \in [1..n -> Nat]
  PROVE  \E sum \in [0..n -> Nat] : Sums(sum, lens, n) /\ Total(lens) = sum[n]
<1> DEFINE Adds(g) == g = [i \in 0..n |-> IF i = 0 THEN 0 ELSE g[i - 1] + lens[i]]
           sum == CHOOSE g : Adds(g)
<1>1. Len(lens) = n
  OBVIOUS
<1>2. Total(lens) = sum[n]
  BY <1>1 DEF Total
<1>3. \E g : Adds(g)
  <2>1. PICK f : f = [i \in 1..n |-> [x \in Nat |-> x + lens[i]]]
    OBVIOUS
  <2>2. f \in [1..n -> [Nat -> Nat]]
    BY <2>1
  <2>3. PICK g \in [0..n -> Nat] : Follows(g, n, 0, f)
    <3>1. 0 \in Nat
      OBVIOUS
    <3> QED BY <2>2, <3>1, Recursion, Zenon
  <2>4. \A i \in 1..n : g[i] = g[i - 1] + lens[i]
    <3>1. \A i \in 1..n : g[i - 1] \in Nat
      OBVIOUS
    <3>2. \A i \in 1..n, x \in Nat : f[i][x] = x + lens[i]
      BY <2>1, Zenon
    <3> QED BY <2>3, <3>1, <3>2, Zenon DEF Follows
  <2>5. \A i \in 0..n : g[i] = IF i = 0 THEN 0 ELSE g[i - 1] + lens[i]
    BY <2>3, <2>4 DEF Follows
  <2>6. g = [i \in 0..n |-> g[i]]
    OBVIOUS
  <2>7. [i \in 0..n |-> g[i]] = [i \in 0..n |-> IF i = 0 THEN 0 ELSE g[i - 1] + lens[i]]
    BY ONLY <2>5, Zenon
  <2>8. Adds(g)
    BY ONLY <2>6, <2>7, Zenon
  <2> HIDE DEF Adds
  <2> QED BY <2>8
<1>4. Adds(sum)
  <2> HIDE DEF Adds
  <2> QED BY <1>3
<1>5. PICK g : g = sum
  OBVIOUS
<1>6. g = [i \in 0..n |-> IF i = 0 THEN 0 ELSE g[i - 1] + lens[i]]
  BY <1>4, <1>5
<1> HIDE DEF sum, Adds
<1>7. g[0] = 0 /\ \A i \in 1..n : g[i] = g[i - 1] + lens[i]
  BY <1>6
<1>8. PICK T : T = {k \in 0..n : g[k] \in Nat}
  OBVIOUS
<1>9. 0..n \subseteq T
  <2>1. \A k \in 0..(n - 1) : k \in T => k + 1 \in T
    BY <1>7, <1>8
  <2>2. 0 \in T
    BY <1>7, <1>8
  <2> QED BY <2>1, <2>2, InductionUpTo
<1>10. g \in [0..n -> Nat]
  BY <1>6, <1>8, <1>9
<1> QED BY <1>2, <1>5, <1>7, <1>10 DEF Sums

\* Texts in a row are no longer than the total of what was counted for each.
LEMMA FlatFits ==
  ASSUME NEW n \in Nat, NEW ss \in [1..n -> Seq(Bytes)], NEW lens \in [1..n -> Nat],
         \A i \in 1..n : Len(ss[i]) <= lens[i]
  PROVE  /\ Total(lens) \in Nat
         /\ FlattenSeq(ss) \in Seq(Bytes) /\ Len(FlattenSeq(ss)) <= Total(lens)
<1>1. PICK sum \in [0..n -> Nat] : Sums(sum, lens, n) /\ Total(lens) = sum[n]
  BY TotalSums
<1>2. CASE n = 0
  <2>1. ss \in Seq(Bytes) /\ Len(ss) = 0
    BY <1>2
  <2> QED BY <1>1, <1>2, <2>1 DEF FlattenSeq
<1>3. CASE n # 0
  <2> DEFINE Joins(g) == g = [i \in 1..n |-> IF i = 1 THEN ss[i] ELSE g[i - 1] \o ss[i]]
             flat == CHOOSE g : Joins(g)
  <2>1. Len(ss) = n
    OBVIOUS
  <2>2. FlattenSeq(ss) = flat[n]
    BY <1>3, <2>1 DEF FlattenSeq
  <2>3. \E g : Joins(g)
    <3>1. PICK f : f = [i \in 1..n |-> [x \in Seq(Bytes) |-> IF i = 1 THEN ss[i] ELSE x \o ss[i]]]
      OBVIOUS
    <3>2. f \in [1..n -> [Seq(Bytes) -> Seq(Bytes)]]
      BY <3>1, Concat DEF Joined
    <3>3. <<>> \in Seq(Bytes)
      OBVIOUS
    <3>4. PICK h \in [0..n -> Seq(Bytes)] : Follows(h, n, <<>>, f)
      BY <3>2, <3>3, Recursion, Zenon
    <3>5. PICK g : g = [i \in 1..n |-> h[i]]
      OBVIOUS
    <3>6. \A i \in 1..n : h[i] = IF i = 1 THEN ss[i] ELSE h[i - 1] \o ss[i]
      <4>1. \A i \in 1..n : h[i - 1] \in Seq(Bytes)
        BY <3>4
      <4>2. \A i \in 1..n, x \in Seq(Bytes) : f[i][x] = IF i = 1 THEN ss[i] ELSE x \o ss[i]
        BY <3>1, Zenon
      <4> QED BY <3>4, <4>1, <4>2, Zenon DEF Follows
    <3>7. \A i \in 1..n : g[i] = IF i = 1 THEN ss[i] ELSE g[i - 1] \o ss[i]
      BY <3>5, <3>6
    <3>8. Joins(g)
      BY <3>5, <3>7
    <3> HIDE DEF Joins
    <3> QED BY <3>8
  <2>4. Joins(flat)
    <3> HIDE DEF Joins
    <3> QED BY <2>3
  <2>5. PICK g : g = flat
    OBVIOUS
  <2>6. g = [i \in 1..n |-> IF i = 1 THEN ss[i] ELSE g[i - 1] \o ss[i]]
    <3> HIDE DEF flat
    <3> QED BY ONLY <2>4, <2>5, Zenon DEF Joins
  <2> HIDE DEF flat, Joins
  <2>7. \A i \in 1..n : g[i] = IF i = 1 THEN ss[i] ELSE g[i - 1] \o ss[i]
    BY <2>6
  <2>8. PICK T : T = {k \in 0..n : k = 0 \/ (g[k] \in Seq(Bytes) /\ Len(g[k]) <= sum[k])}
    OBVIOUS
  <2>9. ASSUME NEW k \in 0..(n - 1), k \in T PROVE k + 1 \in T
    <3>1. k + 1 \in 1..n /\ ss[k + 1] \in Seq(Bytes) /\ Len(ss[k + 1]) <= lens[k + 1]
      OBVIOUS
    <3>2. sum[k + 1] = sum[k] + lens[k + 1]
      BY <1>1, <3>1 DEF Sums
    <3>3. sum[k] \in Nat /\ lens[k + 1] \in Nat /\ Len(ss[k + 1]) \in Nat
      BY <3>1
    <3>4. CASE k = 0
      <4>1. g[k + 1] = ss[k + 1]
        BY <2>7, <3>1, <3>4
      <4>2. sum[k + 1] = lens[k + 1]
        <5>1. sum[k] = 0
          BY <1>1, <3>4 DEF Sums
        <5> QED BY ONLY <3>2, <3>3, <5>1
      <4>3. g[k + 1] \in Seq(Bytes) /\ Len(g[k + 1]) <= sum[k + 1]
        BY ONLY <3>1, <4>1, <4>2, Zenon
      <4>4. k + 1 \in 0..n
        OBVIOUS
      <4> QED BY <2>8, <4>3, <4>4, Zenon
    <3>5. CASE k # 0
      <4>1. g[k] \in Seq(Bytes) /\ Len(g[k]) <= sum[k]
        BY <2>8, <2>9, <3>5
      <4>2. g[k + 1] = g[k] \o ss[k + 1]
        <5>1. (k + 1) - 1 = k /\ k + 1 # 1
          BY <3>5
        <5> QED BY <2>7, <3>1, <5>1, Zenon
      <4>3. g[k + 1] \in Seq(Bytes) /\ Len(g[k + 1]) = Len(g[k]) + Len(ss[k + 1])
        BY <3>1, <4>1, <4>2, Concat DEF Joined
      <4>4. Len(g[k]) \in Nat
        BY <4>1
      <4>5. Len(g[k + 1]) <= sum[k + 1]
        <5>1. ASSUME NEW a \in Nat, NEW b \in Nat, NEW c \in Nat, NEW d \in Nat, a <= c, b <= d
              PROVE  a + b <= c + d
          BY <5>1
        <5>2. Len(g[k]) + Len(ss[k + 1]) <= sum[k] + lens[k + 1]
          BY ONLY <3>1, <3>3, <4>1, <4>4, <5>1, Zenon
        <5> QED BY ONLY <3>2, <4>3, <5>2, Zenon
      <4>6. k + 1 \in 0..n
        OBVIOUS
      <4> QED BY <2>8, <4>3, <4>5, <4>6, Zenon
    <3> QED BY <3>4, <3>5
  <2>10. n \in T
    <3>1. \A k \in 0..(n - 1) : k \in T => k + 1 \in T
      BY <2>9
    <3>2. 0 \in T
      BY <2>8
    <3>3. 0..n \subseteq T
      BY <3>1, <3>2, InductionUpTo
    <3> QED BY <3>3
  <2> QED BY <1>1, <1>3, <2>2, <2>5, <2>8, <2>10
<1> QED BY <1>2, <1>3

LEMMA WordPacked ==
  ASSUME NEW n \in Nat
  PROVE  PackUint16(n) \in Seq(Bytes) /\ Len(PackUint16(n)) = 2
<1>1. (n \div WordBase) % WordBase \in Nat /\ n % WordBase \in Nat
  BY BaseAssumption
<1> QED BY <1>1 DEF PackUint16, Bytes

\* A packed text is no longer than __mqtt_packed_cstrlen says.
LEMMA StrPacked ==
  ASSUME NEW text \in Texts
  PROVE  /\ PackStr(text) \in Seq(Bytes) /\ Len(PackStr(text)) = 2 + Truncated(Len(text))
         /\ PackedLen(text) \in Nat /\ Len(PackStr(text)) <= PackedLen(text)
<1>1. text \in Seq(Bytes) /\ Len(text) \in Nat
  BY DEF Texts
<1>2. WordBase * WordBase \in Nat \ {0}
  BY BaseAssumption
<1>3. PICK m : m = Truncated(Len(text))
  OBVIOUS
<1>4. m \in Nat /\ m <= Len(text)
  BY <1>1, <1>2, <1>3 DEF Truncated
<1>5. SubSeq(text, 1, m) \in Seq(Bytes) /\ Len(SubSeq(text, 1, m)) = m
  BY <1>1, <1>4
<1>6. Joined(PackStr(text), PackUint16(Len(text)), SubSeq(text, 1, m))
  BY <1>1, <1>3, <1>5, WordPacked, Concat DEF PackStr
<1>7. PackStr(text) \in Seq(Bytes) /\ Len(PackStr(text)) = 2 + m
  BY <1>1, <1>5, <1>6, WordPacked DEF Joined
<1> QED BY <1>1, <1>3, <1>4, <1>7 DEF PackedLen

LEMMA ConcatLen ==
  ASSUME NEW S, NEW s \in Seq(S), NEW t \in Seq(S)
  PROVE  s \o t \in Seq(S) /\ Len(s \o t) = Len(s) + Len(t)
OBVIOUS

\* The same of texts as Joined says of bytes.
TextsJoined(r, s, t) ==
  /\ r \in Seq(Texts) /\ Len(r) = Len(s) + Len(t)
  /\ \A i \in 1..Len(s) : r[i] = s[i]
  /\ \A i \in 1..Len(t) : r[Len(s) + i] = t[i]

LEMMA TextsConcat ==
  ASSUME NEW s \in Seq(Texts), NEW t \in Seq(Texts)
  PROVE  TextsJoined(s \o t, s, t)
<1> HIDE DEF Texts
<1> QED BY DEF TextsJoined

LEMMA FirstOf ==
  ASSUME NEW S, NEW s \in Seq(S), s # <<>>
  PROVE  s[1] \in S
OBVIOUS

LEMMA SeqIs ==
  ASSUME NEW S, NEW s \in Seq(S)
  PROVE  Len(s) \in Nat /\ \A i \in 1..Len(s) : s[i] \in S
OBVIOUS

\* A packet is written only where there is room for its header and for all that
\* its header announces.
LEMMA AssembledFits ==
  ASSUME NEW type, NEW flags \in Nat, NEW length \in Nat, NEW room \in Nat,
         NEW body \in Seq(Bytes), Len(body) <= length,
         NEW result, result = Assemble(type, flags, length, body, room)
                     \/ (body = <<>> /\ result = PackFixedHeader(type, flags, length, room))
  PROVE  Len(result.bytes) <= room
<1>1. PICK header : header = PackFixedHeader(type, flags, length, room)
  OBVIOUS
<1>2. \/ header.bytes = <<>> /\ header.rv # "OK"
      \/ /\ header.rv = "OK" /\ length < LengthLimit
         /\ header.bytes = <<16 * Code(type) + flags>> \o LengthBytes(length)
         /\ room >= Len(header.bytes) + length
  <2>1. RuleViolation(Code(type), flags) # "OK" => header.rv # "OK" /\ header.bytes = <<>>
    BY <1>1 DEF PackFixedHeader, Refused
  <2>2. LengthLimit \in Nat
    BY BaseAssumption DEF LengthLimit
  <2>3. PICK h : h = <<16 * Code(type) + flags>> \o LengthBytes(length)
    OBVIOUS
  <2>4. header = IF RuleViolation(Code(type), flags) # "OK"
                 THEN Refused(RuleViolation(Code(type), flags))
                 ELSE IF room = 0 THEN Refused("FULL")
                 ELSE IF length >= LengthLimit THEN Refused("INVALID_REMAINING_LENGTH")
                 ELSE IF room < Len(h) + length THEN Refused("FULL")
                 ELSE Packed(h)
    BY <1>1, <2>3 DEF PackFixedHeader
  <2> QED BY <2>1, <2>2, <2>3, <2>4 DEF Refused, Packed
<1>3. CASE header.rv # "OK"
  <2>1. result.bytes = <<>>
    BY <1>1, <1>2, <1>3 DEF Assemble
  <2> QED BY <2>1
<1>4. CASE header.rv = "OK"
  <2>1. LengthBytes(length) \in Seq(Bytes)
    BY <1>2, <1>4, LengthIsPacked
  <2> DEFINE S == Bytes \cup {16 * Code(type) + flags}
  <2>2. header.bytes \in Seq(S)
    <3>1. <<16 * Code(type) + flags>> \in Seq(S) /\ LengthBytes(length) \in Seq(S)
      BY <2>1
    <3> HIDE DEF S
    <3> QED BY <3>1, <1>2, <1>4, ConcatLen
  <2>3. Len(header.bytes \o body) = Len(header.bytes) + Len(body)
    <3>1. body \in Seq(S)
      OBVIOUS
    <3> HIDE DEF S
    <3> QED BY <3>1, <2>2, ConcatLen
  <2>4. result.bytes = header.bytes \o body \/ (body = <<>> /\ result.bytes = header.bytes)
    BY <1>1, <1>4 DEF Assemble, Packed
  <2>5. Len(header.bytes) \in Nat /\ Len(body) \in Nat
    BY <2>2
  <2>6. Len(result.bytes) <= Len(header.bytes) + length
    BY <2>3, <2>4, <2>5
  <2> QED BY <1>2, <1>4, <2>5, <2>6
<1> QED BY <1>3, <1>4

\* Each request on its own: what it writes fits into the room it was given.
LEMMA PublishFits ==
  ASSUME NEW q, q.topic \in Texts, q.message \in Texts, q.id \in Nat, q.qos \in 0..3,
         PackedLen(q.topic) < WordBase * WordBase, Len(q.message) < WordBase * WordBase,
         NEW room \in Nat
  PROVE  Len(PackPublish(q, room).bytes) <= room
<1>1. CASE q.qos = 3
  BY <1>1 DEF PackPublish, Refused
<1>2. CASE q.qos # 3
  <2>1. PICK id : id = IF q.qos = 0 THEN <<>> ELSE PackUint16(q.id)
    OBVIOUS
  <2>2. id \in Seq(Bytes)
    BY <2>1, WordPacked
  <2>3. PICK flags : flags = 8 * Bit(q.dup /\ q.qos # 0) + 2 * q.qos + Bit(q.retain)
    OBVIOUS
  <2>4. flags \in Nat
    <3>1. Bit(q.dup /\ q.qos # 0) \in Nat /\ Bit(q.retain) \in Nat
      BY DEF Bit
    <3> QED BY <2>3, <3>1
  <2>5. WordBase * WordBase \in Nat \ {0}
    BY BaseAssumption
  <2>6. PICK topic : topic = PackStr(q.topic)
    OBVIOUS
  <2>7. /\ topic \in Seq(Bytes) /\ Len(topic) <= PackedLen(q.topic) /\ PackedLen(q.topic) \in Nat
        /\ q.message \in Seq(Bytes) /\ Len(q.message) \in Nat /\ Len(topic) \in Nat
        /\ Len(id) \in Nat
    <3>1. /\ topic \in Seq(Bytes) /\ Len(topic) <= PackedLen(q.topic)
          /\ PackedLen(q.topic) \in Nat
      BY <2>6, StrPacked, Zenon
    <3>2. q.message \in Seq(Bytes)
      BY DEF Texts
    <3>3. ASSUME NEW s \in Seq(Bytes) PROVE Len(s) \in Nat
      OBVIOUS
    <3> QED BY <2>2, <3>1, <3>2, <3>3, Zenon
  <2>8. Truncated(PackedLen(q.topic)) = PackedLen(q.topic) /\ Truncated(Len(q.message)) = Len(q.message)
    <3>1. ASSUME NEW m \in Nat, NEW w \in Nat \ {0}, m < w PROVE m % w = m
      BY <3>1
    <3> QED BY <2>5, <2>7, <3>1, Zenon DEF Truncated
  <2>9. PICK length : length = PackedLen(q.topic) + Len(id) + Len(q.message)
    OBVIOUS
  <2>10. PICK body : body = topic \o id \o q.message
    OBVIOUS
  <2>11. Joined3(body, topic, id, q.message)
    BY <2>2, <2>7, <2>10, Concat3
  <2>12. length \in Nat /\ body \in Seq(Bytes) /\ Len(body) <= length
    <3>1. ASSUME NEW a \in Nat, NEW b \in Nat, NEW c \in Nat, NEW d \in Nat, a <= d
          PROVE  a + b + c <= d + b + c /\ d + b + c \in Nat
      BY <3>1
    <3>2. /\ Len(topic) + Len(id) + Len(q.message) <= PackedLen(q.topic) + Len(id) + Len(q.message)
          /\ PackedLen(q.topic) + Len(id) + Len(q.message) \in Nat
      BY ONLY <2>7, <3>1, Zenon
    <3>3. body \in Seq(Bytes) /\ Len(body) = Len(topic) + Len(id) + Len(q.message)
      BY <2>11, Zenon DEF Joined3
    <3> QED BY ONLY <2>9, <3>2, <3>3, Zenon
  <2>13. PackPublish(q, room) = Assemble("PUBLISH", flags, length, body, room)
    BY <1>2, <2>1, <2>3, <2>6, <2>8, <2>9, <2>10, Zenon DEF PackPublish
  <2> QED BY <2>4, <2>12, <2>13, AssembledFits
<1> QED BY <1>1, <1>2

LEMMA PubxxxFits ==
  ASSUME NEW q, q.id \in Nat, NEW room \in Nat
  PROVE  Len(PackPubxxx(q, room).bytes) <= room
<1>1. RequiredFlags(q.type) \in Nat
  BY DEF RequiredFlags
<1>2. PICK body : body = PackUint16(q.id)
  OBVIOUS
<1>3. body \in Seq(Bytes) /\ Len(body) <= 2 /\ 2 \in Nat
  <2>1. body \in Seq(Bytes) /\ Len(body) = 2
    BY <1>2, WordPacked, Zenon
  <2> QED BY <2>1
<1>4. PackPubxxx(q, room) = Assemble(q.type, RequiredFlags(q.type), 2, body, room)
  BY <1>2 DEF PackPubxxx
<1> QED BY <1>1, <1>3, <1>4, AssembledFits

LEMMA EmptyFits ==
  ASSUME NEW q, NEW room \in Nat
  PROVE  Len(PackEmpty(q, room).bytes) <= room
<1>1. <<>> \in Seq(Bytes) /\ Len(<<>>) <= 0 /\ 0 \in Nat
  OBVIOUS
<1> QED BY <1>1, AssembledFits DEF PackEmpty

\* An identifier and what follows it for each topic.
LEMMA ListFits ==
  ASSUME NEW n \in Nat, NEW ss \in [1..n -> Seq(Bytes)], NEW lens \in [1..n -> Nat],
         \A i \in 1..n : Len(ss[i]) <= lens[i],
         NEW id \in Nat, NEW type, NEW room \in Nat
  PROVE  Len(Assemble(type, 2, 2 + Total(lens), PackUint16(id) \o FlattenSeq(ss), room).bytes) <= room
<1>1. PICK flat : flat = FlattenSeq(ss)
  OBVIOUS
<1>2. PICK total : total = Total(lens)
  OBVIOUS
<1>3. total \in Nat /\ flat \in Seq(Bytes) /\ Len(flat) <= total
  BY <1>1, <1>2, FlatFits
<1>4. PICK body : body = PackUint16(id) \o flat
  OBVIOUS
<1>5. Joined(body, PackUint16(id), flat)
  BY <1>3, <1>4, WordPacked, Concat
<1>6. body \in Seq(Bytes) /\ Len(body) <= 2 + total /\ 2 + total \in Nat /\ 2 \in Nat
  <2>1. body \in Seq(Bytes) /\ Len(body) = 2 + Len(flat)
    <3>1. Len(PackUint16(id)) = 2
      BY WordPacked, Zenon
    <3> QED BY ONLY <1>5, <3>1 DEF Joined
  <2>2. Len(flat) \in Nat
    BY <1>3
  <2> QED BY ONLY <1>3, <2>1, <2>2
<1>7. PICK result : result = Assemble(type, 2, 2 + total, body, room)
  OBVIOUS
<1>8. Len(result.bytes) <= room
  BY <1>6, <1>7, AssembledFits
<1> QED BY <1>1, <1>2, <1>4, <1>7, <1>8

LEMMA SubscribeFits ==
  ASSUME NEW q, q.id \in Nat, q.topics \in Seq([name : Texts, qos : Bytes]), NEW room \in Nat
  PROVE  Len(PackSubscribe(q, room).bytes) <= room
<1>1. PICK n : n = Len(q.topics)
  OBVIOUS
<1>2. n \in Nat /\ \A i \in 1..n : q.topics[i].name \in Texts /\ q.topics[i].qos \in Bytes
  <2>1. n \in Nat /\ \A i \in 1..n : q.topics[i] \in [name : Texts, qos : Bytes]
    <3>1. ASSUME NEW S, NEW s \in Seq(S) PROVE Len(s) \in Nat /\ \A i \in 1..Len(s) : s[i] \in S
      OBVIOUS
    <3> QED BY <1>1, <3>1, Zenon
  <2>2. ASSUME NEW t \in [name : Texts, qos : Bytes] PROVE t.name \in Texts /\ t.qos \in Bytes
    OBVIOUS
  <2> QED BY <2>1, <2>2, Zenon
<1>3. PICK ss : ss = [i \in 1..n |-> Append(PackStr(q.topics[i].name), q.topics[i].qos)]
  OBVIOUS
<1>4. PICK lens : lens = [i \in 1..n |-> PackedLen(q.topics[i].name) + 1]
  OBVIOUS
<1>5. ASSUME NEW i \in 1..n
      PROVE  /\ ss[i] \in Seq(Bytes) /\ lens[i] \in Nat /\ Len(ss[i]) <= lens[i]
  <2>1. PICK str : str = PackStr(q.topics[i].name)
    OBVIOUS
  <2>2. str \in Seq(Bytes) /\ PackedLen(q.topics[i].name) \in Nat /\ Len(str) <= PackedLen(q.topics[i].name)
    BY <1>2, <2>1, StrPacked
  <2>3. ss[i] = Append(str, q.topics[i].qos) /\ lens[i] = PackedLen(q.topics[i].name) + 1
    BY <1>3, <1>4, <2>1
  <2>4. ss[i] \in Seq(Bytes) /\ Len(ss[i]) = Len(str) + 1 /\ Len(str) \in Nat
    BY <1>2, <2>2, <2>3
  <2> QED BY <2>2, <2>3, <2>4
<1>6. ss \in [1..n -> Seq(Bytes)] /\ lens \in [1..n -> Nat]
  BY <1>3, <1>4, <1>5
<1>7. CASE n >= MaxTopics
  BY <1>1, <1>7 DEF PackSubscribe, Refused
<1>8. CASE ~(n >= MaxTopics)
  <2>1. PackSubscribe(q, room)
          = Assemble("SUBSCRIBE", 2, 2 + Total(lens), PackUint16(q.id) \o FlattenSeq(ss), room)
    BY <1>1, <1>3, <1>4, <1>8, Zenon DEF PackSubscribe
  <2> QED BY <1>2, <1>5, <1>6, <2>1, ListFits
<1> QED BY <1>7, <1>8

LEMMA UnsubscribeFits ==
  ASSUME NEW q, q.id \in Nat, q.topics \in Seq(Texts), NEW room \in Nat
  PROVE  Len(PackUnsubscribe(q, room).bytes) <= room
<1>1. PICK n : n = Len(q.topics)
  OBVIOUS
<1>2. n \in Nat /\ \A i \in 1..n : q.topics[i] \in Texts
  BY <1>1
<1>3. PICK ss : ss = [i \in 1..n |-> PackStr(q.topics[i])]
  OBVIOUS
<1>4. PICK lens : lens = [i \in 1..n |-> PackedLen(q.topics[i])]
  OBVIOUS
<1>5. ASSUME NEW i \in 1..n
      PROVE  /\ ss[i] \in Seq(Bytes) /\ lens[i] \in Nat /\ Len(ss[i]) <= lens[i]
  BY <1>2, <1>3, <1>4, StrPacked
<1>6. ss \in [1..n -> Seq(Bytes)] /\ lens \in [1..n -> Nat]
  BY <1>3, <1>4, <1>5
<1>7. CASE n >= MaxTopics
  BY <1>1, <1>7 DEF PackUnsubscribe, Refused
<1>8. CASE ~(n >= MaxTopics)
  <2>1. PackUnsubscribe(q, room)
          = Assemble("UNSUBSCRIBE", 2, 2 + Total(lens), PackUint16(q.id) \o FlattenSeq(ss), room)
    BY <1>1, <1>3, <1>4, <1>8, Zenon DEF PackUnsubscribe
  <2> QED BY <1>2, <1>5, <1>6, <2>1, ListFits
<1> QED BY <1>7, <1>8

\* A total is its first number and the total of the others.
LEMMA TotalFirst ==
  ASSUME NEW n \in Nat, NEW lens \in [1..(n + 1) -> Nat],
         NEW rest, rest = [i \in 1..n |-> lens[i + 1]]
  PROVE  Total(rest) \in Nat /\ Total(lens) = lens[1] + Total(rest)
<1>1. PICK sum \in [0..(n + 1) -> Nat] : Sums(sum, lens, n + 1) /\ Total(lens) = sum[n + 1]
  <2>1. n + 1 \in Nat
    OBVIOUS
  <2> QED BY <2>1, TotalSums, Zenon
<1>2. rest \in [1..n -> Nat]
  OBVIOUS
<1>3. PICK part \in [0..n -> Nat] : Sums(part, rest, n) /\ Total(rest) = part[n]
  BY <1>2, TotalSums, Zenon
<1>4. PICK T : T = {k \in 0..n : sum[k + 1] = lens[1] + part[k]}
  OBVIOUS
<1>5. lens[1] \in Nat /\ \A k \in 0..n : part[k] \in Nat
  OBVIOUS
<1>6. 0 \in T
  <2>1. 1 \in 1..(n + 1) /\ 0 + 1 = 1 /\ 1 - 1 = 0
    OBVIOUS
  <2>2. sum[1] = sum[0] + lens[1] /\ sum[0] = 0 /\ part[0] = 0
    BY <1>1, <1>3, <2>1 DEF Sums
  <2> QED BY <1>4, <1>5, <2>2
<1>7. ASSUME NEW k \in 0..(n - 1), k \in T PROVE k + 1 \in T
  <2>1. /\ k + 1 \in 1..n /\ (k + 1) - 1 = k /\ (k + 1) + 1 \in 1..(n + 1)
        /\ ((k + 1) + 1) - 1 = k + 1 /\ k + 1 \in 0..n /\ k \in 0..n
    OBVIOUS
  <2>2. sum[(k + 1) + 1] = sum[k + 1] + lens[(k + 1) + 1]
    BY <1>1, <2>1, Zenon DEF Sums
  <2>3. part[k + 1] = part[k] + lens[(k + 1) + 1]
    <3>1. rest[k + 1] = lens[(k + 1) + 1]
      BY <2>1
    <3>2. part[k + 1] = part[k] + rest[k + 1]
      BY <1>3, <2>1, Zenon DEF Sums
    <3> QED BY <3>1, <3>2, Zenon
  <2>4. sum[k + 1] = lens[1] + part[k]
    BY <1>4, <1>7, Zenon
  <2>5. lens[(k + 1) + 1] \in Nat /\ part[k] \in Nat
    BY <1>5, <2>1
  <2>6. ASSUME NEW a \in Nat, NEW b \in Nat, NEW c \in Nat PROVE (a + b) + c = a + (b + c)
    OBVIOUS
  <2>7. sum[(k + 1) + 1] = lens[1] + part[k + 1]
    <3>1. (lens[1] + part[k]) + lens[(k + 1) + 1] = lens[1] + (part[k] + lens[(k + 1) + 1])
      BY <1>5, <2>5, <2>6, Zenon
    <3> QED BY ONLY <2>2, <2>3, <2>4, <3>1, Zenon
  <2> QED BY <1>4, <2>1, <2>7, Zenon
<1>8. n \in T
  <2>1. \A k \in 0..(n - 1) : k \in T => k + 1 \in T
    BY <1>7
  <2>2. 0..n \subseteq T
    BY <1>6, <2>1, InductionUpTo
  <2> QED BY <2>2
<1> QED BY <1>1, <1>3, <1>4, <1>5, <1>8

\* What mqtt_pack_connection_request makes of its arguments: the length it
\* announces and the body, willLen and will being the parts for the will.
IsConnect(length, body, flags, keepAlive, client, user, password, willLen, will) ==
  LET names == <<client>> \o user \o password
  IN /\ length = 10 + Total([i \in 1..Len(names) |-> PackedLen(names[i])]) + willLen
     /\ body = <<0, 4, 77, 81, 84, 84, 4, flags>> \o PackUint16(keepAlive) \o PackStr(client)
                 \o will \o FlattenSeq([i \in 1..Len(user \o password) |->
                                          PackStr((user \o password)[i])])

LEMMA ConnectBodyFits ==
  ASSUME NEW flags \in Nat, NEW keepAlive \in Nat, NEW client \in Texts,
         NEW user \in Optional(Texts), NEW password \in Optional(Texts),
         NEW will \in Seq(Bytes), NEW willLen \in Nat, Len(will) <= willLen, NEW room \in Nat,
         NEW length, NEW body,
         IsConnect(length, body, flags, keepAlive, client, user, password, willLen, will)
  PROVE  Len(Assemble("CONNECT", 0, length, body, room).bytes) <= room
<1>n. PICK names : names = <<client>> \o user \o password
  OBVIOUS
<1>l. length = 10 + Total([i \in 1..Len(names) |-> PackedLen(names[i])]) + willLen
  BY <1>n, Zenon DEF IsConnect
<1>b. body = <<0, 4, 77, 81, 84, 84, 4, flags>> \o PackUint16(keepAlive) \o PackStr(client)
               \o will \o FlattenSeq([i \in 1..Len(user \o password) |->
                                        PackStr((user \o password)[i])])
  BY Zenon DEF IsConnect
<1>1. user \in Seq(Texts) /\ password \in Seq(Texts)
  BY DEF Optional
<1>2. PICK rest : rest = user \o password
  OBVIOUS
<1>3. PICK n : n = Len(rest)
  OBVIOUS
<1>4. rest \in Seq(Texts) /\ n \in Nat /\ \A i \in 1..n : rest[i] \in Texts
  <2>1. rest \in Seq(Texts)
    BY <1>1, <1>2, ConcatLen, Zenon
  <2> QED BY <1>3, <2>1, SeqIs, Zenon
<1>5. Len(names) = n + 1 /\ names[1] = client /\ \A i \in 1..n : names[i + 1] = rest[i]
  <2>1. <<client>> \in Seq(Texts) /\ Len(<<client>>) = 1 /\ <<client>>[1] = client
    OBVIOUS
  <2>2. PICK front : front = <<client>> \o user
    OBVIOUS
  <2>3. PICK u \in Nat : u = Len(user)
    BY <1>1, SeqIs, Zenon
  <2>4. PICK p \in Nat : p = Len(password)
    BY <1>1, SeqIs, Zenon
  <2>5. /\ front \in Seq(Texts) /\ Len(front) = 1 + u
        /\ front[1] = client /\ \A i \in 1..u : front[1 + i] = user[i]
    <3>1. /\ front \in Seq(Texts) /\ Len(front) = 1 + u
          /\ \A i \in 1..1 : front[i] = <<client>>[i]
          /\ \A i \in 1..u : front[1 + i] = user[i]
      <4>1. TextsJoined(front, <<client>>, user)
        BY <1>1, <2>1, <2>2, TextsConcat, Zenon
      <4> QED BY ONLY <2>1, <2>3, <4>1, Zenon DEF TextsJoined
    <3>2. 1 \in 1..1
      OBVIOUS
    <3> QED BY <2>1, <3>1, <3>2, Zenon
  <2>6. /\ Len(names) = (1 + u) + p
        /\ \A i \in 1..(1 + u) : names[i] = front[i]
        /\ \A i \in 1..p : names[(1 + u) + i] = password[i]
    <3>1. names = front \o password
      BY <1>n, <2>2, Zenon
    <3>2. TextsJoined(names, front, password)
      BY <1>1, <2>5, <3>1, TextsConcat, Zenon
    <3> QED BY ONLY <2>4, <2>5, <3>2, Zenon DEF TextsJoined
  <2>7. /\ n = u + p
        /\ \A i \in 1..u : rest[i] = user[i]
        /\ \A i \in 1..p : rest[u + i] = password[i]
    <3>1. /\ Len(rest) = u + p
          /\ \A i \in 1..u : rest[i] = user[i]
          /\ \A i \in 1..p : rest[u + i] = password[i]
      <4>1. TextsJoined(rest, user, password)
        BY <1>1, <1>2, TextsConcat, Zenon
      <4> QED BY ONLY <2>3, <2>4, <4>1, Zenon DEF TextsJoined
    <3> QED BY <1>3, <3>1, Zenon
  <2>8. Len(names) = n + 1
    BY ONLY <2>6, <2>7, u \in Nat, p \in Nat
  <2>9. names[1] = client
    <3>1. 1 \in 1..(1 + u)
      OBVIOUS
    <3> QED BY <2>5, <2>6, <3>1, Zenon
  <2>10. ASSUME NEW i \in 1..n PROVE names[i + 1] = rest[i]
    <3>1. CASE i <= u
      <4>1. i \in 1..u /\ 1 + i \in 1..(1 + u) /\ i + 1 = 1 + i
        BY <3>1, <2>7
      <4> QED BY <2>5, <2>6, <2>7, <4>1, Zenon
    <3>2. CASE ~(i <= u)
      <4>1. i - u \in 1..p /\ (1 + u) + (i - u) = i + 1 /\ u + (i - u) = i
        BY <3>2, <2>7
      <4>2. names[(1 + u) + (i - u)] = password[i - u] /\ rest[u + (i - u)] = password[i - u]
        BY <2>6, <2>7, <4>1, Zenon
      <4> QED BY <4>1, <4>2, Zenon
    <3> QED BY <3>1, <3>2
  <2> QED BY <2>8, <2>9, <2>10
<1>6. PICK lens : lens = [i \in 1..(n + 1) |-> PackedLen(names[i])]
  OBVIOUS
<1>7. PICK others : others = [i \in 1..n |-> lens[i + 1]]
  OBVIOUS
<1>8. lens[1] = PackedLen(client) /\ \A i \in 1..n : lens[i + 1] = PackedLen(rest[i])
  <2>1. 1 \in 1..(n + 1) /\ \A i \in 1..n : i + 1 \in 1..(n + 1)
    BY <1>4
  <2>2. \A i \in 1..(n + 1) : lens[i] = PackedLen(names[i])
    BY <1>6, Zenon
  <2> QED BY <1>5, <2>1, <2>2, Zenon
<1>9. PackedLen(client) \in Nat /\ \A i \in 1..n : PackedLen(rest[i]) \in Nat
  BY <1>4, StrPacked, Zenon
<1>10. lens \in [1..(n + 1) -> Nat]
  <2>1. ASSUME NEW i \in 1..(n + 1) PROVE lens[i] \in Nat
    <3>1. i = 1 \/ (i - 1 \in 1..n /\ (i - 1) + 1 = i)
      BY <1>4
    <3> QED BY <1>8, <1>9, <3>1, Zenon
  <2> QED BY <1>6, <2>1
<1>11. Total(others) \in Nat /\ Total(lens) = PackedLen(client) + Total(others)
  <2>1. Total(others) \in Nat /\ Total(lens) = lens[1] + Total(others)
    BY <1>4, <1>7, <1>10, TotalFirst, ZenonT(60)
  <2> QED BY <1>8, <2>1, Zenon
<1>12. PICK ss : ss = [i \in 1..n |-> PackStr(rest[i])]
  OBVIOUS
<1>13. PICK flat : flat = FlattenSeq(ss)
  OBVIOUS
<1>14. flat \in Seq(Bytes) /\ Len(flat) <= Total(others)
  <2>1. ASSUME NEW i \in 1..n
        PROVE  ss[i] \in Seq(Bytes) /\ others[i] \in Nat /\ Len(ss[i]) <= others[i]
    <3>1. ss[i] = PackStr(rest[i]) /\ others[i] = PackedLen(rest[i])
      BY <1>7, <1>8, <1>12
    <3> QED BY <1>4, <3>1, StrPacked, Zenon
  <2>2. ss \in [1..n -> Seq(Bytes)] /\ others \in [1..n -> Nat]
    BY <1>7, <1>12, <2>1
  <2> QED BY <1>4, <1>13, <2>1, <2>2, FlatFits, Zenon
<1>15. PICK head : head = <<0, 4, 77, 81, 84, 84, 4, flags>>
  OBVIOUS
<1>16. head \in Seq(Bytes) /\ Len(head) = 8
  BY <1>15 DEF Bytes
<1>17. PICK str : str = PackStr(client)
  OBVIOUS
<1>18. str \in Seq(Bytes) /\ Len(str) <= PackedLen(client)
  BY <1>17, StrPacked, Zenon
<1>19. PICK word : word = PackUint16(keepAlive)
  OBVIOUS
<1>20. word \in Seq(Bytes) /\ Len(word) = 2
  BY <1>19, WordPacked, Zenon
<1>21. body = head \o word \o str \o will \o flat
  BY <1>b, <1>2, <1>3, <1>12, <1>13, <1>15, <1>17, <1>19
<1>22. body \in Seq(Bytes) /\ Len(body) = 8 + 2 + Len(str) + Len(will) + Len(flat)
  <2>1. PICK a : a = head \o word
    OBVIOUS
  <2>2. Joined(a, head, word)
    BY <1>16, <1>20, <2>1, Concat, Zenon
  <2>3. a \in Seq(Bytes) /\ Len(a) = 8 + 2
    BY ONLY <1>16, <1>20, <2>2, Zenon DEF Joined
  <2>4. PICK b : b = a \o str \o will
    OBVIOUS
  <2>5. Joined3(b, a, str, will)
    BY <1>18, <2>3, <2>4, Concat3, Zenon
  <2>6. b \in Seq(Bytes) /\ Len(b) = 8 + 2 + Len(str) + Len(will)
    BY ONLY <2>3, <2>5, Zenon DEF Joined3
  <2>7. Joined(body, b, flat)
    <3>1. body = b \o flat
      BY ONLY <1>21, <2>1, <2>4, Zenon
    <3> QED BY <1>14, <2>6, <3>1, Concat, Zenon
  <2> QED BY ONLY <2>6, <2>7, Zenon DEF Joined
<1>23. length = 10 + (PackedLen(client) + Total(others)) + willLen
  BY <1>l, <1>5, <1>6, <1>11
<1>24. length \in Nat /\ Len(body) <= length
  <2>1. ASSUME NEW a \in Nat, NEW b \in Nat, NEW c \in Nat, NEW x \in Nat, NEW y \in Nat, NEW z \in Nat,
               a <= x, b <= y, c <= z
        PROVE  8 + 2 + a + b + c <= 10 + (x + z) + y /\ 10 + (x + z) + y \in Nat
    BY <2>1
  <2>2. Len(str) \in Nat /\ Len(will) \in Nat /\ Len(flat) \in Nat
    BY <1>14, <1>18, SeqIs, Zenon
  <2>3. /\ 8 + 2 + Len(str) + Len(will) + Len(flat) <= 10 + (PackedLen(client) + Total(others)) + willLen
        /\ 10 + (PackedLen(client) + Total(others)) + willLen \in Nat
    BY ONLY <1>9, <1>11, <1>14, <1>18, <2>1, <2>2, willLen \in Nat, Len(will) <= willLen, Zenon
  <2> QED BY <1>22, <1>23, <2>3, Zenon
<1>25. 0 \in Nat
  OBVIOUS
<1> QED BY <1>22, <1>24, <1>25, AssembledFits, Zenon

LEMMA ConnectFits ==
  ASSUME NEW q, q.client \in Texts, q.clean \in BOOLEAN,
         q.will \in Optional([topic : Texts, message : Optional(Texts)]),
         q.willQos \in 0..3, q.willRetain \in BOOLEAN,
         q.user \in Optional(Texts), q.password \in Optional(Texts), q.keepAlive \in Nat,
         NEW room \in Nat
  PROVE  Len(PackConnect(q, room).bytes) <= room
<1>1. PICK flags : flags = ConnectFlags(q)
  OBVIOUS
<1>2. flags \in Nat
  <2>1. \A b : Bit(b) \in Nat
    BY DEF Bit
  <2>2. PICK c \in Nat : c = (IF q.will # <<>> THEN 8 * q.willQos ELSE 0)
    <3>1. (IF q.will # <<>> THEN 8 * q.willQos ELSE 0) \in Nat
      OBVIOUS
    <3> QED BY <3>1, Zenon
  <2>a. PICK a \in Nat : a = Bit(q.clean)
    BY <2>1, Zenon
  <2>b. PICK b \in Nat : b = Bit(q.will # <<>>)
    BY <2>1, Zenon
  <2>d. PICK d \in Nat : d = Bit(q.will # <<>> /\ q.willRetain)
    BY <2>1, Zenon
  <2>e. PICK e \in Nat : e = Bit(q.password # <<>>)
    BY <2>1, Zenon
  <2>f. PICK f \in Nat : f = Bit(q.user # <<>>)
    BY <2>1, Zenon
  <2>3. flags = 2 * a + 4 * b + c + 32 * d + 64 * e + 128 * f
    BY <1>1, <2>2, <2>a, <2>b, <2>d, <2>e, <2>f, ZenonT(60) DEF ConnectFlags
  <2> QED BY ONLY <2>3, a \in Nat, b \in Nat, c \in Nat, d \in Nat, e \in Nat, f \in Nat
<1>3. PICK names : names = <<q.client>> \o q.user \o q.password
  OBVIOUS
<1>4. PICK total : total = 10 + Total([i \in 1..Len(names) |-> PackedLen(names[i])])
  OBVIOUS
<1>5. PICK flat : flat = FlattenSeq([i \in 1..Len(q.user \o q.password) |->
                                       PackStr((q.user \o q.password)[i])])
  OBVIOUS
<1>6. PICK front : front = <<0, 4, 77, 81, 84, 84, 4, flags>> \o PackUint16(q.keepAlive)
                             \o PackStr(q.client)
  OBVIOUS
<1>7. ASSUME NEW will \in Seq(Bytes), NEW willLen \in Nat, Len(will) <= willLen
      PROVE  Len(Assemble("CONNECT", 0, total + willLen, front \o will \o flat, room).bytes) <= room
  <2>1. PICK length : length = total + willLen
    OBVIOUS
  <2>2. PICK body : body = front \o will \o flat
    OBVIOUS
  <2>3. Len(Assemble("CONNECT", 0, length, body, room).bytes) <= room
    <3>1. IsConnect(length, body, flags, q.keepAlive, q.client, q.user, q.password, willLen, will)
      BY ONLY <1>3, <1>4, <1>5, <1>6, <2>1, <2>2, Zenon DEF IsConnect
    <3> QED BY <1>2, <1>7, <3>1, ConnectBodyFits, Zenon
  <2> QED BY <2>1, <2>2, <2>3, Zenon
<1>8. PICK result : result = PackConnect(q, room)
  OBVIOUS
<1>9. CASE result.bytes = <<>>
  BY <1>8, <1>9
<1>10. CASE result.bytes # <<>>
  <2>1. \A rv : result # Refused(rv)
    BY <1>10 DEF Refused
  <2>2. q.will # <<>> => q.will[1].message # <<>>
    BY <1>8, <2>1, Zenon DEF PackConnect
  <2>3. CASE q.will = <<>>
    <3>1. result = Assemble("CONNECT", 0, total + 0, front \o <<>> \o flat, room)
      BY <1>1, <1>3, <1>4, <1>5, <1>6, <1>8, <2>1, <2>3, Zenon DEF PackConnect
    <3>2. <<>> \in Seq(Bytes) /\ 0 \in Nat /\ Len(<<>>) <= 0
      OBVIOUS
    <3> QED BY <1>7, <1>8, <3>1, <3>2, Zenon
  <2>4. CASE q.will # <<>>
    <3>1. q.will[1] \in [topic : Texts, message : Optional(Texts)]
      <4>1. PICK W : W = [topic : Texts, message : Optional(Texts)]
        OBVIOUS
      <4>2. q.will \in Seq(W)
        BY <4>1 DEF Optional
      <4> QED BY <2>4, <4>1, <4>2, FirstOf, Zenon
    <3>2. PICK topic \in Texts : topic = q.will[1].topic
      BY <3>1
    <3>3. PICK m : m = q.will[1].message
      OBVIOUS
    <3>4. m \in Optional(Texts) /\ m # <<>>
      BY <2>2, <2>4, <3>1, <3>3
    <3>5. PICK message : message = m[1]
      OBVIOUS
    <3>6. message \in Seq(Bytes)
      <4>1. m \in Seq(Texts)
        BY <3>4 DEF Optional
      <4>2. m[1] \in Texts
        BY <3>4, <4>1, FirstOf, Zenon
      <4> QED BY <3>5, <4>2 DEF Texts
    <3>7. PICK will : will = PackStr(topic) \o PackUint16(Len(message)) \o message
      OBVIOUS
    <3>8. PICK willLen : willLen = PackedLen(topic) + 2 + Len(message)
      OBVIOUS
    <3>9. result = Assemble("CONNECT", 0, total + willLen, front \o will \o flat, room)
      BY <1>1, <1>3, <1>4, <1>5, <1>6, <1>8, <2>1, <2>4, <3>2, <3>3, <3>5, <3>7, <3>8,
         ZenonT(60)
      DEF PackConnect
    <3>10. Len(message) \in Nat
      BY <3>6, SeqIs, Zenon
    <3>11. PICK str : str = PackStr(topic)
      OBVIOUS
    <3>12. str \in Seq(Bytes) /\ Len(str) <= PackedLen(topic) /\ PackedLen(topic) \in Nat
      BY <3>11, StrPacked, Zenon
    <3>13. PICK word : word = PackUint16(Len(message))
      OBVIOUS
    <3>14. word \in Seq(Bytes) /\ Len(word) = 2
      BY <3>10, <3>13, WordPacked, Zenon
    <3>15. Joined3(will, str, word, message)
      BY <3>6, <3>7, <3>11, <3>12, <3>13, <3>14, Concat3, Zenon
    <3>16. will \in Seq(Bytes) /\ Len(will) = Len(str) + 2 + Len(message)
      BY <3>14, <3>15, Zenon DEF Joined3
    <3>17. willLen \in Nat /\ Len(will) <= willLen
      <4>1. Len(str) \in Nat
        BY <3>12, SeqIs, Zenon
      <4> QED BY ONLY <3>8, <3>10, <3>12, <3>16, <4>1
    <3> QED BY <1>7, <1>8, <3>9, <3>16, <3>17, Zenon
  <2> QED BY <2>3, <2>4
<1> QED BY <1>9, <1>10

LEMMA PackFits ==
  ASSUME PublishesMeasured, NEW q \in Requests, NEW room \in Nat
  PROVE  Len(Pack(q, room).bytes) <= room
<1>1. CASE q \in [type : {"CONNECT"}, client : Texts, clean : BOOLEAN,
                  will : Optional([topic : Texts, message : Optional(Texts)]), willQos : 0..3,
                  willRetain : BOOLEAN, user : Optional(Texts), password : Optional(Texts),
                  keepAlive : Nat]
  <2>1. q.type = "CONNECT"
    BY <1>1
  <2>2. PICK W : W = Optional([topic : Texts, message : Optional(Texts)])
    OBVIOUS
  <2>3. PICK O : O = Optional(Texts)
    OBVIOUS
  <2>4. /\ q.client \in Texts /\ q.clean \in BOOLEAN /\ q.will \in W
        /\ q.willQos \in 0..3 /\ q.willRetain \in BOOLEAN
        /\ q.user \in O /\ q.password \in O /\ q.keepAlive \in Nat
    BY <1>1, <2>2, <2>3
  <2>5. Pack(q, room) = PackConnect(q, room)
    BY <2>1 DEF Pack
  <2> QED BY <2>2, <2>3, <2>4, <2>5, ConnectFits, Zenon
<1>2. CASE q \in [type : {"PUBLISH"}, topic : Texts, id : Nat, qos : 0..3, dup : BOOLEAN,
                  retain : BOOLEAN, message : Texts]
  <2>1. q.type = "PUBLISH"
    BY <1>2
  <2>2. q.topic \in Texts /\ q.message \in Texts /\ q.id \in Nat /\ q.qos \in 0..3
    BY <1>2
  <2>3. PackedLen(q.topic) < WordBase * WordBase /\ Len(q.message) < WordBase * WordBase
    BY <2>1, Zenon DEF PublishesMeasured
  <2>4. Pack(q, room) = PackPublish(q, room)
    BY <2>1 DEF Pack
  <2> QED BY <2>2, <2>3, <2>4, PublishFits, Zenon
<1>3. CASE q \in [type : {"PUBACK", "PUBREC", "PUBREL", "PUBCOMP"}, id : Nat]
  <2>1. q.type \in {"PUBACK", "PUBREC", "PUBREL", "PUBCOMP"} /\ q.id \in Nat
    BY <1>3
  <2>2. Pack(q, room) = PackPubxxx(q, room)
    BY <2>1 DEF Pack
  <2> QED BY <2>1, <2>2, PubxxxFits, Zenon
<1>4. CASE q \in [type : {"SUBSCRIBE"}, id : Nat, topics : Seq([name : Texts, qos : Bytes])]
  <2>1. q.type = "SUBSCRIBE" /\ q.id \in Nat /\ q.topics \in Seq([name : Texts, qos : Bytes])
    BY <1>4
  <2>2. Pack(q, room) = PackSubscribe(q, room)
    BY <2>1 DEF Pack
  <2> QED BY <2>1, <2>2, SubscribeFits, Zenon
<1>5. CASE q \in [type : {"UNSUBSCRIBE"}, id : Nat, topics : Seq(Texts)]
  <2>1. q.type = "UNSUBSCRIBE" /\ q.id \in Nat /\ q.topics \in Seq(Texts)
    BY <1>5
  <2>2. Pack(q, room) = PackUnsubscribe(q, room)
    BY <2>1 DEF Pack
  <2> QED BY <2>1, <2>2, UnsubscribeFits, Zenon
<1>6. CASE q \in [type : {"PINGREQ", "DISCONNECT"}]
  <2>1. q.type \in {"PINGREQ", "DISCONNECT"}
    BY <1>6
  <2>2. Pack(q, room) = PackEmpty(q, room)
    BY <2>1 DEF Pack
  <2> QED BY <2>2, EmptyFits, Zenon
<1> QED BY <1>1, <1>2, <1>3, <1>4, <1>5, <1>6, RequestsAssumption, Zenon

\* Whatever is asked and however little room is left, packing writes nothing
\* behind the room it was given, so long as no publish is longer than uint16_t
\* can count.
THEOREM PackingFits ==
  ASSUME PublishesMeasured PROVE Spec => []PackedFits
<1>1. Init => PackedFits
  BY DEF Init, NoRequest, Refused, PackedFits
<1>2. PackedFits /\ [Next]_vars => PackedFits'
  <2> SUFFICES ASSUME PackedFits, [Next]_vars PROVE PackedFits'
    OBVIOUS
  <2>1. ASSUME asked' = NoRequest PROVE PackedFits'
    BY <2>1 DEF NoRequest, Refused, PackedFits
  <2>2. ASSUME NEW q \in Requests, NEW room \in Rooms, Request(q, room) PROVE PackedFits'
    <3>1. room \in Nat
      BY StreamAssumption
    <3>2. asked'.room = room /\ asked'.result = Pack(q, room)
      BY <2>2 DEF Request
    <3> QED BY <3>1, <3>2, PackFits, Zenon DEF PackedFits
  <2>3. CASE UNCHANGED vars
    BY <2>3 DEF vars, PackedFits
  <2> QED BY <2>1, <2>2, <2>3 DEF Next, BrokerSends, Recv
<1> QED BY <1>1, <1>2, PTL DEF Spec

=============================================================================
