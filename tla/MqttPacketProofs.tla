--------------------------- MODULE MqttPacketProofs ---------------------------
(***************************************************************************)
(* The fixed header, for every base of its digits: what is packed is read  *)
(* back, and a header or a body that is not all there is waited for.       *)
(***************************************************************************)
EXTENDS MqttPacket, TLAPS

B == LengthBase

\* The number of the digits L[1], ..., L[k], the least significant first.
Digit(L, k, i) == IF i <= k THEN L[i] % B ELSE 0
NumberOf(L, k) ==
  Digit(L, k, 1) + B * (Digit(L, k, 2) + B * (Digit(L, k, 3) + B * Digit(L, k, 4)))

\* L[1], ..., L[k] is the number n, each byte but the last one marked.
IsLength(L, k, n) ==
  /\ k \in 1..4 /\ \A i \in 1..k : L[i] \in Nat
  /\ \A i \in 1..(k - 1) : L[i] >= B
  /\ L[k] < B
  /\ n = NumberOf(L, k)

-----------------------------------------------------------------------------
(* Digits.                                                                 *)

LEMMA DivMod ==
  ASSUME NEW n \in Nat, NEW b \in Nat \ {0}
  PROVE  /\ n \div b \in Nat /\ n % b \in Nat /\ n % b < b
         /\ n = b * (n \div b) + (n % b)
         /\ (n \div b = 0) <=> (n < b)
  OBVIOUS

LEMMA ModUnique ==
  ASSUME NEW b \in Nat \ {0}, NEW d \in 0..(b - 1)
  PROVE  /\ d % b = d /\ (d + b) % b = d /\ d \div b = 0
  OBVIOUS

\* Without its last digit a number is below a limit with one digit less.
LEMMA Shorter ==
  ASSUME NEW n \in Nat, NEW b \in Nat \ {0}, NEW y \in Nat, n < b * y
  PROVE  n \div b < y
<1> DEFINE q == n \div b
<1>1. q \in Nat /\ b * q <= n
  BY DivMod
<1>2. SUFFICES ASSUME q >= y PROVE FALSE
  BY <1>1
<1>3. b * q >= b * y
  <2> HIDE DEF q
  <2> QED BY <1>1, <1>2
<1> QED BY <1>1, <1>3

Marked(m) == (m % B) + B

LEMMA MarkedDigit ==
  ASSUME NEW m \in Nat
  PROVE  Marked(m) \in Nat /\ Marked(m) >= B /\ Marked(m) % B = m % B
<1> B \in Nat \ {0}
  BY BaseAssumption DEF B
<1> DEFINE d == m % B
<1>1. d \in 0..(B - 1)
  BY DivMod
<1>2. d + B \in Nat /\ d + B >= B /\ (d + B) % B = d
  <2> HIDE DEF d
  <2> QED BY <1>1, ModUnique
<1> QED BY <1>2 DEF Marked

\* The quotients of n and its digits.
LEMMA LengthDigits ==
  ASSUME NEW n \in Nat, n < LengthLimit,
         NEW q1, q1 = n \div B, NEW q2, q2 = q1 \div B, NEW q3, q3 = q2 \div B
  PROVE  /\ q1 = 0 => IsLength(<<n>>, 1, n)
         /\ q1 # 0 /\ q2 = 0 => IsLength(<<Marked(n), q1>>, 2, n)
         /\ q2 # 0 /\ q3 = 0 => IsLength(<<Marked(n), Marked(q1), q2>>, 3, n)
         /\ q3 # 0 => IsLength(<<Marked(n), Marked(q1), Marked(q2), q3>>, 4, n)
<1>b. B \in Nat \ {0}
  BY BaseAssumption DEF B
<1>1. q1 \in Nat /\ n % B \in Nat /\ n = B * q1 + (n % B) /\ (q1 = 0 <=> n < B)
  BY <1>b, DivMod
<1>2. q2 \in Nat /\ q1 % B \in Nat /\ q1 = B * q2 + (q1 % B) /\ (q2 = 0 <=> q1 < B)
  BY <1>1, <1>b, DivMod
<1>3. q3 \in Nat /\ q2 % B \in Nat /\ q2 = B * q3 + (q2 % B) /\ (q3 = 0 <=> q2 < B)
  BY <1>2, <1>b, DivMod
<1>4. q3 < B
  <2>0. B * B \in Nat /\ B * (B * B) \in Nat /\ LengthLimit = B * (B * (B * B))
    BY <1>b, BaseAssumption DEF LengthLimit, B
  <2>1. q1 < B * (B * B)
    BY <1>b, <2>0, Shorter
  <2>2. q2 < B * B
    BY <1>1, <1>b, <2>0, <2>1, Shorter
  <2> QED BY <1>2, <1>b, <2>2, Shorter
<1>5. /\ \A m \in Nat : m < B => m % B = m
      /\ Marked(n) \in Nat /\ Marked(n) >= B /\ Marked(n) % B = n % B
      /\ Marked(q1) \in Nat /\ Marked(q1) >= B /\ Marked(q1) % B = q1 % B
      /\ Marked(q2) \in Nat /\ Marked(q2) >= B /\ Marked(q2) % B = q2 % B
  <2>1. \A m \in Nat : m < B => m % B = m
    BY <1>b, ModUnique
  <2> QED BY <1>1, <1>2, <2>1, MarkedDigit
<1>6. CASE q1 = 0
  <2>1. n < B /\ n % B = n
    BY <1>1, <1>5, <1>6
  <2>2. NumberOf(<<n>>, 1) = n + B * (0 + B * (0 + B * 0))
    BY <2>1 DEF NumberOf, Digit
  <2>3. q2 = 0 /\ q3 = 0
    BY <1>b, <1>2, <1>3, <1>6
  <2> QED BY <1>b, <1>6, <2>1, <2>2, <2>3 DEF IsLength
<1>7. CASE q1 # 0 /\ q2 = 0
  <2>1. q1 < B /\ q1 % B = q1 /\ q3 = 0
    BY <1>b, <1>1, <1>2, <1>3, <1>5, <1>7
  <2>2. NumberOf(<<Marked(n), q1>>, 2) = (n % B) + B * (q1 + B * (0 + B * 0))
    BY <1>5, <2>1 DEF NumberOf, Digit
  <2>3. n = (n % B) + B * (q1 + B * (0 + B * 0))
    BY <1>b, <1>1
  <2> QED BY <1>b, <1>1, <1>5, <1>7, <2>1, <2>2, <2>3 DEF IsLength
<1>8. CASE q2 # 0 /\ q3 = 0
  <2>1. q2 < B /\ q2 % B = q2 /\ q1 # 0
    BY <1>b, <1>1, <1>2, <1>3, <1>5, <1>8
  <2>2. NumberOf(<<Marked(n), Marked(q1), q2>>, 3) = (n % B) + B * ((q1 % B) + B * (q2 + B * 0))
    BY <1>5, <2>1 DEF NumberOf, Digit
  <2>3. q1 = (q1 % B) + B * (q2 + B * 0)
    BY <1>b, <1>1, <1>2
  <2>4. n = (n % B) + B * ((q1 % B) + B * (q2 + B * 0))
    BY <1>b, <1>1, <2>3
  <2> QED BY <1>b, <1>1, <1>2, <1>5, <1>8, <2>1, <2>2, <2>4 DEF IsLength
<1>9. CASE q3 # 0
  <2>1. q3 % B = q3 /\ q2 # 0 /\ q1 # 0
    BY <1>b, <1>1, <1>2, <1>3, <1>4, <1>5, <1>9
  <2>2. NumberOf(<<Marked(n), Marked(q1), Marked(q2), q3>>, 4) =
          (n % B) + B * ((q1 % B) + B * ((q2 % B) + B * q3))
    BY <1>5, <2>1 DEF NumberOf, Digit
  <2>3. q2 = (q2 % B) + B * q3
    BY <1>b, <1>2, <1>3
  <2>4. q1 = (q1 % B) + B * ((q2 % B) + B * q3)
    BY <1>b, <1>2, <2>3
  <2>5. n = (n % B) + B * ((q1 % B) + B * ((q2 % B) + B * q3))
    BY <1>b, <1>1, <2>4
  <2> QED BY <1>b, <1>1, <1>2, <1>3, <1>4, <1>5, <1>9, <2>1, <2>2, <2>5 DEF IsLength
<1> QED BY <1>1, <1>2, <1>3, <1>6, <1>7, <1>8, <1>9

-----------------------------------------------------------------------------
(* The header.                                                             *)

\* The buffer begins, as far as it goes, with a header of code c, flags f and
\* the length bytes L[1], ..., L[k].
Begins(buf, c, f, L, k) ==
  /\ buf \in Seq(Bytes) /\ buf # <<>> /\ buf[1] = 16 * c + f
  /\ \A i \in 1..k : i + 1 <= Len(buf) => buf[i + 1] = L[i]

Awaited == Stopped("INCOMPLETE")
Header(c, f, k, n) == [rv |-> "OK", size |-> k + 1, code |-> c, flags |-> f, length |-> n]

\* What is unpacked of a buffer with such a header for a body of length n.
ReadsHeader(buf, c, f, k, n) ==
  /\ Len(buf) < k + 1 + n => UnpackFixedHeader(buf) = Awaited
  /\ Len(buf) >= k + 1 + n => UnpackFixedHeader(buf) = Header(c, f, k, n)

\* mqtt_unpack_fixed_header waits until the header and the body are there, and
\* then reads the header, whatever follows: the packet may end with the buffer.
LEMMA HeaderIsRead ==
  ASSUME NEW c \in 1..14, NEW f \in 0..15, RuleViolation(c, f) = "OK",
         NEW n \in Nat, NEW L, NEW k \in 1..4, IsLength(L, k, n),
         NEW buf, Begins(buf, c, f, L, k)
  PROVE  ReadsHeader(buf, c, f, k, n)
<1>b. B \in Nat \ {0} /\ B = LengthBase
  BY BaseAssumption DEF B
<1>1. Len(buf) \in Nat \ {0} /\ \A i \in 1..Len(buf) : buf[i] \in Nat
  BY DEF Begins, Bytes
<1>2. ASSUME NEW j \in 2..k, j <= Len(buf)
      PROVE  ~(buf[j] < LengthBase)
  <2>1. j - 1 \in 1..(k - 1) /\ j - 1 \in 1..k /\ (j - 1) + 1 = j
    OBVIOUS
  <2>2. L[j - 1] \in Nat /\ L[j - 1] >= B
    BY <2>1 DEF IsLength
  <2>3. buf[j] = L[j - 1]
    BY <1>2, <2>1 DEF Begins
  <2> QED BY <1>b, <2>2, <2>3
<1>3. k + 1 <= Len(buf) => buf[k + 1] < LengthBase
  BY <1>b DEF Begins, IsLength
<1>4. CASE Len(buf) < k + 1
  <2>1. LengthEnds(buf) = {}
    BY <1>1, <1>4, <1>2 DEF LengthEnds
  <2>2. Len(buf) < 5 /\ Len(buf) < k + 1 + n
    BY <1>1, <1>4
  <2> QED BY <2>1, <2>2 DEF Awaited, UnpackFixedHeader, ReadsHeader
<1>5. CASE Len(buf) >= k + 1
  <2>1. k + 1 \in LengthEnds(buf) /\ \A j \in LengthEnds(buf) : k + 1 <= j
    BY <1>1, <1>5, <1>2, <1>3 DEF LengthEnds
  <2>2. (CHOOSE i \in LengthEnds(buf) : \A j \in LengthEnds(buf) : i <= j) = k + 1
    BY <2>1 DEF LengthEnds
  <2>3. LengthOf(buf, k + 1) = n
    <3>1. \A i \in 1..k : buf[i + 1] = L[i]
      BY <1>1, <1>5 DEF Begins
    <3>2. n = NumberOf(L, k)
      BY DEF IsLength
    <3> QED BY <3>1, <3>2, <1>b DEF LengthOf, NumberOf, Digit
  <2>4. buf[1] \div 16 = c /\ buf[1] % 16 = f
    BY DEF Begins
  <2>5. LengthEnds(buf) # {}
    BY <2>1
  <2>6. UnpackFixedHeader(buf) =
          IF Len(buf) - (k + 1) < n THEN Awaited ELSE Header(c, f, k, n)
    BY <2>2, <2>3, <2>4, <2>5 DEF Awaited, UnpackFixedHeader, Header
  <2> QED BY <1>1, <1>5, <2>6 DEF Awaited, ReadsHeader
<1> QED BY <1>1, <1>4, <1>5

\* The loop of mqtt_pack_fixed_header writes a length that stands for its number.
LEMMA LengthIsPacked ==
  ASSUME NEW n \in Nat, n < LengthLimit
  PROVE  \E k \in 1..4 : /\ LengthBytes(n) \in Seq(Bytes) /\ Len(LengthBytes(n)) = k
                         /\ IsLength(LengthBytes(n), k, n)
<1> DEFINE q1 == n \div B   q2 == q1 \div B   q3 == q2 \div B
           rest == <<n, q1, q2, q3>>
           Ends(i) == rest[i] < B /\ \A j \in 1..(i - 1) : rest[j] >= B
           Written(last) == [i \in 1..last |-> (rest[i] % B) + (IF i = last THEN 0 ELSE B)]
<1>b. B \in Nat \ {0} /\ B = LengthBase
  BY BaseAssumption DEF B
<1>1. LengthBytes(n) = Written(CHOOSE i \in 1..4 : Ends(i))
  BY <1>b DEF LengthBytes
<1>2. /\ q1 = 0 => IsLength(<<n>>, 1, n)
      /\ q1 # 0 /\ q2 = 0 => IsLength(<<Marked(n), q1>>, 2, n)
      /\ q2 # 0 /\ q3 = 0 => IsLength(<<Marked(n), Marked(q1), q2>>, 3, n)
      /\ q3 # 0 => IsLength(<<Marked(n), Marked(q1), Marked(q2), q3>>, 4, n)
  BY LengthDigits
<1>3. q1 \in Nat /\ n % B \in Nat /\ (q1 = 0 <=> n < B)
  BY <1>b, DivMod
<1>4. q2 \in Nat /\ q1 % B \in Nat /\ (q2 = 0 <=> q1 < B)
  BY <1>3, <1>b, DivMod
<1>5. q3 \in Nat /\ q2 % B \in Nat /\ (q3 = 0 <=> q2 < B)
  BY <1>4, <1>b, DivMod
<1>6. \A m \in Nat : m < B => m % B = m
  BY <1>b, ModUnique
<1>7. q3 # 0 => q3 < B
  BY <1>2 DEF IsLength
<1>8. q3 % B \in Nat
  BY <1>5, <1>b, DivMod
<1> HIDE DEF q1, q2, q3
<1>9. ASSUME NEW k \in 1..4, Ends(k), IsLength(Written(k), k, n)
      PROVE  /\ LengthBytes(n) \in Seq(Bytes) /\ Len(LengthBytes(n)) = k
             /\ IsLength(LengthBytes(n), k, n)
  <2>1. \A i \in 1..4 : rest[i] \in Nat
    BY <1>3, <1>4, <1>5
  <2>2. ASSUME NEW i \in 1..4, Ends(i) PROVE i = k
    <3> rest[i] \in Nat /\ rest[k] \in Nat /\ rest[i] < B /\ rest[k] < B
      BY <1>9, <2>1, <2>2
    <3> /\ \A j \in 1..(i - 1) : rest[j] >= B
        /\ \A j \in 1..(k - 1) : rest[j] >= B
      BY <1>9, <2>2
    <3> HIDE DEF rest
    <3>1. ~(i < k)
      <4> SUFFICES ASSUME i < k PROVE FALSE
        OBVIOUS
      <4> i \in 1..(k - 1)
        OBVIOUS
      <4> QED BY <1>b
    <3>2. ~(k < i)
      <4> SUFFICES ASSUME k < i PROVE FALSE
        OBVIOUS
      <4> k \in 1..(i - 1)
        OBVIOUS
      <4> QED BY <1>b
    <3> QED BY <3>1, <3>2
  <2>3. (CHOOSE i \in 1..4 : Ends(i)) = k
    <3> HIDE DEF Ends
    <3> QED BY <1>9, <2>2
  <2>4. LengthBytes(n) = Written(k)
    <3> HIDE DEF Written, Ends
    <3> QED BY <1>1, <2>3
  <2>5. \A i \in 1..k : Written(k)[i] \in Nat
    <3> HIDE DEF Written
    <3> QED BY <1>9 DEF IsLength
  <2>6. Written(k) \in Seq(Bytes) /\ Len(Written(k)) = k
    BY <2>5 DEF Bytes
  <2> HIDE DEF Written
  <2> QED BY <1>9, <2>4, <2>6
<1>10. ASSUME NEW M, NEW k \in 1..4, IsLength(M, k, n), \A i \in 1..k : Written(k)[i] = M[i]
       PROVE  IsLength(Written(k), k, n)
  <2> HIDE DEF Written
  <2> QED BY <1>10 DEF IsLength, NumberOf, Digit
<1> HIDE DEF Written
<1>11. CASE q1 = 0
  <2>1. Ends(1) /\ n % B = n
    BY <1>3, <1>6, <1>11
  <2>2. Written(1)[1] = <<n>>[1]
    BY <1>b, <2>1 DEF Written
  <2>3. IsLength(Written(1), 1, n)
    BY <1>2, <1>10, <1>11, <2>2
  <2> QED BY <1>9, <2>1, <2>3
<1>12. CASE q1 # 0 /\ q2 = 0
  <2>1. Ends(2) /\ q1 % B = q1
    BY <1>b, <1>3, <1>4, <1>6, <1>12
  <2>2. \A i \in 1..2 : Written(2)[i] = <<Marked(n), q1>>[i]
    BY <1>b, <1>3, <2>1 DEF Written, Marked
  <2>3. IsLength(Written(2), 2, n)
    BY <1>2, <1>10, <1>12, <2>2
  <2> QED BY <1>9, <2>1, <2>3
<1>13. CASE q2 # 0 /\ q3 = 0
  <2>1. Ends(3) /\ q2 % B = q2
    BY <1>b, <1>3, <1>4, <1>5, <1>6, <1>13
  <2>2. \A i \in 1..3 : Written(3)[i] = <<Marked(n), Marked(q1), q2>>[i]
    BY <1>b, <1>4, <2>1 DEF Written, Marked
  <2>3. IsLength(Written(3), 3, n)
    BY <1>2, <1>10, <1>13, <2>2
  <2> QED BY <1>9, <2>1, <2>3
<1>14. CASE q3 # 0
  <2>1. Ends(4) /\ q3 % B = q3
    BY <1>b, <1>3, <1>4, <1>5, <1>6, <1>7, <1>14
  <2>2. \A i \in 1..4 : Written(4)[i] = <<Marked(n), Marked(q1), Marked(q2), q3>>[i]
    BY <1>b, <1>5, <2>1 DEF Written, Marked
  <2>3. IsLength(Written(4), 4, n)
    BY <1>2, <1>10, <1>14, <2>2
  <2> QED BY <1>9, <2>1, <2>3
<1> QED BY <1>11, <1>12, <1>13, <1>14

\* What mqtt_pack_fixed_header packs fits in the room with its body;
\* mqtt_unpack_fixed_header reads it back, with exactly that type, those flags
\* and that length, from any bytes that begin with it, and waits for more as
\* long as one byte of the packet is missing.
THEOREM HeaderRoundTrip ==
  ASSUME NEW type \in {ControlTypes[c] : c \in 1..14}, NEW flags \in 0..15,
         NEW length \in Nat, NEW room \in Nat, NEW body \in Seq(Bytes), Len(body) >= length,
         NEW bytes, PackFixedHeader(type, flags, length, room) = Packed(bytes)
  PROVE  /\ Len(bytes) + length <= room
         /\ UnpackFixedHeader(bytes \o body) = Header(Code(type), flags, Len(bytes) - 1, length)
         /\ \A m \in 1..(Len(bytes) + length - 1) :
              UnpackFixedHeader(SubSeq(bytes \o body, 1, m)) = Awaited
<1> DEFINE c == Code(type)
<1>1. c \in 1..14
  BY DEF Code
<1> DEFINE L == LengthBytes(length)
           all == bytes \o body
<1>2. /\ RuleViolation(c, flags) = "OK" /\ length < LengthLimit
      /\ bytes = <<16 * c + flags>> \o L
      /\ ~(room < Len(bytes) + length)
  <2>1. LengthLimit \in Nat
    BY BaseAssumption DEF LengthLimit
  <2> QED BY <2>1 DEF PackFixedHeader, Packed, Refused
<1>3. PICK k \in 1..4 : L \in Seq(Bytes) /\ Len(L) = k /\ IsLength(L, k, length)
  BY <1>2, LengthIsPacked
<1> HIDE DEF L, c
<1>4. /\ bytes \in Seq(Bytes) /\ Len(bytes) = k + 1 /\ bytes[1] = 16 * c + flags
      /\ \A i \in 1..k : bytes[i + 1] = L[i]
  <2> DEFINE first == 16 * c + flags
  <2>1. first \in Nat
    BY <1>1
  <2> HIDE DEF first
  <2>2. <<first>> \in Seq(Bytes) /\ bytes = <<first>> \o L
    BY <1>2, <2>1 DEF Bytes, first
  <2>3. bytes \in Seq(Bytes) /\ Len(bytes) = k + 1 /\ bytes[1] = first
    BY <1>3, <2>2
  <2>4. \A i \in 1..k : bytes[i + 1] = L[i]
    BY <1>3, <2>2
  <2> QED BY <2>3, <2>4 DEF first
<1>5. /\ all \in Seq(Bytes) /\ Len(all) = Len(bytes) + Len(body)
      /\ \A i \in 1..(k + 1) : all[i] = bytes[i]
  BY <1>4
<1> HIDE DEF all
<1>6. Begins(all, c, flags, L, k)
  BY <1>4, <1>5 DEF Begins
<1>7. \A buf : Begins(buf, c, flags, L, k) => ReadsHeader(buf, c, flags, k, length)
  <2>1. RuleViolation(c, flags) = "OK" /\ IsLength(L, k, length)
    BY <1>2, <1>3
  <2> QED BY <1>1, <2>1, HeaderIsRead
<1>8. UnpackFixedHeader(all) = Header(c, flags, k, length)
  <2>1. Len(all) >= k + 1 + length
    BY <1>4, <1>5
  <2> QED BY <1>6, <1>7, <2>1 DEF ReadsHeader
<1>9. ASSUME NEW m \in 1..(Len(bytes) + length - 1)
      PROVE  UnpackFixedHeader(SubSeq(all, 1, m)) = Awaited
  <2> DEFINE part == SubSeq(all, 1, m)
  <2>1. m \in 1..Len(all) /\ m < k + 1 + length
    BY <1>4, <1>5
  <2>2. part \in Seq(Bytes) /\ Len(part) = m /\ \A i \in 1..m : part[i] = all[i]
    BY <1>5, <2>1
  <2> HIDE DEF part
  <2>3. Begins(part, c, flags, L, k)
    BY <1>4, <1>5, <2>1, <2>2 DEF Begins
  <2>4. Len(part) < k + 1 + length
    BY <2>1, <2>2
  <2>5. UnpackFixedHeader(part) = Awaited
    BY <1>7, <2>3, <2>4 DEF ReadsHeader
  <2> QED BY <2>5 DEF part
<1>10. ~(room < Len(bytes) + length) /\ Len(bytes) \in Nat /\ Len(bytes) - 1 = k
  BY <1>2, <1>4
<1> QED BY <1>8, <1>9, <1>10 DEF all, c

=============================================================================
