-------------------------- MODULE MessageQueueProofs --------------------------
(***************************************************************************)
(* For every size of the buffer and of a descriptor and for all packets:   *)
(* packets and descriptors never overlap and no packet loses a byte.       *)
(***************************************************************************)
EXTENDS MessageQueue, MinMaxProofs, SequenceTheorems, TLAPS

\* The inductive invariant of a memory d, s that holds n messages up to byte c.
\* To TypeOK, Layout and BytesKept it adds that a packet ends before ANY later
\* one starts, which contiguity implies only by an induction.
Good(d, s, n, c) ==
  /\ d \in [0..(BufSz - 1) -> Bytes] /\ s \in [Slots -> Descriptors]
  /\ n \in Nat /\ (\A i \in 0..(n - 1) : i \in Slots)
  /\ c \in Nat /\ c + DescSz * n <= BufSz
  /\ \A i \in 0..(n - 1) :
       s[i].start = IF i = 0 THEN 0 ELSE s[i - 1].start + s[i - 1].size
  /\ c = IF n = 0 THEN 0 ELSE s[n - 1].start + s[n - 1].size
  /\ \A i \in 0..(n - 1) : s[i].start + s[i].size <= c
  /\ \A i, j \in 0..(n - 1) : i < j => s[i].start + s[i].size <= s[j].start
  /\ \A i \in 0..(n - 1) :
       /\ s[i].size = Len(s[i].packed)
       /\ \A k \in 1..s[i].size : d[s[i].start + k - 1] = s[i].packed[k]

IInv == Good(data, slots, length, curr) /\ curr_sz = CurrSz(curr, length)

\* Room for the next packet is room for its descriptor.
LEMMA RoomInside ==
  ASSUME NEW c \in Nat, NEW n \in Nat, NEW len \in Nat \ {0}, len <= CurrSz(c, n)
  PROVE  /\ n \in Slots /\ c + len + DescSz * (n + 1) <= BufSz
<1>. DEFINE e == DescSz * (n + 1)
<1>1. BufSz \in Nat /\ e \in Nat
  BY SizesAssumption
<1>2. n + 1 <= e
  BY SizesAssumption
<1>3. c < BufSz - e /\ CurrSz(c, n) = (BufSz - e) - c
  <2>. HIDE DEF e
  <2>1. CurrSz(c, n) = IF c >= BufSz - e THEN 0 ELSE BufSz - e - c
    BY DEF CurrSz, e
  <2>. QED BY <1>1, <2>1
<1>4. n \in Slots
  <2>1. e <= BufSz /\ n \in 0..BufSz
    <3>. HIDE DEF e
    <3>. QED BY <1>1, <1>2, <1>3
  <2>. QED BY <2>1 DEF Slots
<1>5. c + len + e <= BufSz
  <2>. HIDE DEF e
  <2>. QED BY <1>1, <1>3
<1>. QED
  BY <1>4, <1>5

LEMMA RegisterKeeps ==
  ASSUME NEW d, NEW s, NEW n, NEW c, Good(d, s, n, c),
         NEW text \in Texts, Len(text) <= CurrSz(c, n), Register(text, d, s, n, c)
  PROVE  IInv'
<1>1. text \in Seq(Bytes) /\ Len(text) \in Nat \ {0}
  BY TextsAssumption, EmptySeq, LenProperties
<1>2. n \in Nat /\ c \in Nat
  BY DEF Good
<1>3. n \in Slots /\ c + Len(text) + DescSz * (n + 1) <= BufSz
  BY <1>1, <1>2, RoomInside
<1>. DEFINE desc == [start |-> c, size |-> Len(text), state |-> "UNSENT", packed |-> text]
<1>4. /\ data' = [k \in DOMAIN d |-> IF k \in c..(c + Len(text) - 1) THEN text[k - c + 1] ELSE d[k]]
      /\ slots' = [s EXCEPT ![n] = desc] /\ length' = n + 1 /\ curr' = c + Len(text)
      /\ curr_sz' = CurrSz(curr', length')
  BY DEF Register
<1>5. desc \in Descriptors
  BY <1>1, <1>2 DEF Descriptors, States
<1>. HIDE DEF desc
<1>6. slots' \in [Slots -> Descriptors]
  BY <1>3, <1>4, <1>5 DEF Good
<1>7. data' \in [0..(BufSz - 1) -> Bytes]
  <2>1. \A k \in c..(c + Len(text) - 1) : text[k - c + 1] \in Bytes
    BY <1>1, <1>2
  <2>. QED BY <1>4, <2>1 DEF Good
<1>8. slots'[n] = desc /\ \A i \in 0..(n - 1) : i \in Slots /\ slots'[i] = s[i]
  BY <1>2, <1>3, <1>4 DEF Good
<1>9. \A i \in 0..n : i \in Slots
  BY <1>2, <1>3, <1>8
<1>10. c + Len(text) + DescSz * length' <= BufSz /\ BufSz \in Nat /\ DescSz \in Nat
  BY <1>3, <1>4, SizesAssumption
<1>11. ASSUME NEW i \in 0..(n - 1)
       PROVE  /\ slots'[i].size = Len(slots'[i].packed)
              /\ \A k \in 1..slots'[i].size :
                   data'[slots'[i].start + k - 1] = slots'[i].packed[k]
  <2>1. s[i] \in Descriptors /\ s[i].start + s[i].size <= c /\ slots'[i] = s[i]
    BY <1>8 DEF Good
  <2>2. ASSUME NEW k \in 1..s[i].size PROVE data'[s[i].start + k - 1] = s[i].packed[k]
    <3>1. s[i].start + k - 1 \in 0..(c - 1) /\ s[i].start + k - 1 \notin c..(c + Len(text) - 1)
      <4>1. PICK a, b, len : a = s[i].start /\ b = s[i].size /\ len = Len(text)
        OBVIOUS
      <4>2. a \in Nat /\ b \in Nat /\ len \in Nat /\ a + b <= c /\ c \in Nat /\ k \in 1..b
        BY <4>1, <2>1, <1>1, <1>2 DEF Descriptors
      <4>3. a + k - 1 \in 0..(c - 1) /\ a + k - 1 \notin c..(c + len - 1)
        BY ONLY <4>2
      <4> QED BY <4>1, <4>3
    <3>2. d[s[i].start + k - 1] = s[i].packed[k]
      BY DEF Good
    <3>3. s[i].start + k - 1 \in 0..(BufSz - 1)
      <4>. DEFINE room == DescSz * n
      <4>1. room \in Nat /\ c + room <= BufSz
        BY <1>2, <1>10 DEF Good
      <4>. HIDE DEF room
      <4>. QED BY <3>1, <4>1, <1>10, <1>2
    <3>. QED
      BY <3>1, <3>2, <3>3, <1>4 DEF Good
  <2>. QED
    BY <2>1, <2>2 DEF Good
<1>12. /\ desc.size = Len(desc.packed)
       /\ \A k \in 1..desc.size : data'[desc.start + k - 1] = desc.packed[k]
  <2>1. ASSUME NEW k \in 1..Len(text) PROVE data'[c + k - 1] = text[k]
    <3>1. c + k - 1 \in c..(c + Len(text) - 1) /\ (c + k - 1) - c + 1 = k
      BY <1>1, <1>2
    <3>2. c + k - 1 \in 0..(BufSz - 1)
      <4>. DEFINE room == DescSz * (n + 1)
      <4>1. room \in Nat /\ c + Len(text) + room <= BufSz
        BY <1>2, <1>3, <1>10
      <4>. HIDE DEF room
      <4>. QED BY <3>1, <4>1, <1>1, <1>2, <1>10
    <3>. QED
      BY <3>1, <3>2, <1>4 DEF Good
  <2>. QED
    BY <2>1 DEF desc
<1>13. Good(data, slots, length, curr)'
  <2>1. desc.start = c /\ desc.size = Len(text)
    BY DEF desc
  <2>2. \A i \in 0..n : slots'[i].start =
          IF i = 0 THEN 0 ELSE slots'[i - 1].start + slots'[i - 1].size
    <3>1. ASSUME NEW i \in 0..(n - 1) PROVE slots'[i].start =
            IF i = 0 THEN 0 ELSE slots'[i - 1].start + slots'[i - 1].size
      BY <1>2, <1>8 DEF Good
    <3>2. slots'[n].start = IF n = 0 THEN 0 ELSE slots'[n - 1].start + slots'[n - 1].size
      BY <1>2, <1>8, <2>1 DEF Good
    <3>. QED BY <3>1, <3>2, <1>2
  <2>3. \A i \in 0..n : slots'[i].start + slots'[i].size <= c + Len(text)
    <3>1. ASSUME NEW i \in 0..(n - 1) PROVE slots'[i].start + slots'[i].size <= c + Len(text)
      <4>1. s[i] \in Descriptors /\ s[i].start + s[i].size <= c
        BY <1>8 DEF Good
      <4>. QED BY <4>1, <1>1, <1>2, <1>8 DEF Descriptors
    <3>. QED BY <3>1, <1>1, <1>2, <1>8, <2>1
  <2>4. \A i, j \in 0..n : i < j => slots'[i].start + slots'[i].size <= slots'[j].start
    <3>1. ASSUME NEW i \in 0..n, NEW j \in 0..n, i < j
          PROVE  slots'[i].start + slots'[i].size <= slots'[j].start
      <4>1. i \in 0..(n - 1) /\ slots'[i] = s[i]
        BY <3>1, <1>2, <1>8
      <4>2. CASE j = n
        BY <4>1, <4>2, <1>8, <2>1 DEF Good
      <4>3. CASE j \in 0..(n - 1)
        BY <3>1, <4>1, <4>3, <1>8 DEF Good
      <4>. QED BY <4>2, <4>3, <1>2
    <3>. QED BY <3>1
  <2>5. length' = n + 1 /\ curr' = c + Len(text) /\ length' - 1 = n
    BY <1>2, <1>4
  <2>6. curr' = IF length' = 0 THEN 0 ELSE slots'[length' - 1].start + slots'[length' - 1].size
    <3>1. slots'[length' - 1].start = c /\ slots'[length' - 1].size = Len(text) /\ length' # 0
      BY <2>5, <2>1, <1>2, <1>8
    <3>. QED BY <3>1, <2>5
  <2>7. \A i \in 0..n : /\ slots'[i].size = Len(slots'[i].packed)
                       /\ \A k \in 1..slots'[i].size :
                            data'[slots'[i].start + k - 1] = slots'[i].packed[k]
    BY <1>2, <1>8, <1>11, <1>12
  <2>8. length' \in Nat /\ curr' \in Nat /\ curr' + DescSz * length' <= BufSz
    BY <1>1, <1>2, <1>10, <2>5
  <2>9. \A i \in 0..(length' - 1) : i \in Slots
    BY <1>9, <2>5
  <2>10. /\ \A i \in 0..(length' - 1) : slots'[i].start =
               IF i = 0 THEN 0 ELSE slots'[i - 1].start + slots'[i - 1].size
         /\ \A i \in 0..(length' - 1) : slots'[i].start + slots'[i].size <= curr'
         /\ \A i, j \in 0..(length' - 1) : i < j => slots'[i].start + slots'[i].size <= slots'[j].start
    BY <2>2, <2>3, <2>4, <2>5
  <2>11. \A i \in 0..(length' - 1) :
           /\ slots'[i].size = Len(slots'[i].packed)
           /\ \A k \in 1..slots'[i].size :
                data'[slots'[i].start + k - 1] = slots'[i].packed[k]
    BY <2>5, <2>7
  <2>. QED
    BY ONLY <1>6, <1>7, <2>6, <2>8, <2>9, <2>10, <2>11 DEF Good
<1>. QED
  BY <1>4, <1>13 DEF IInv

\* Where the oldest open message is, and what lies before it.
LEMMA HeadFacts ==
  ASSUME IInv
  PROVE  /\ NewHead \in 0..length /\ Left \in Nat /\ Left = length - NewHead
         /\ Removing \in Nat /\ Removing <= curr
         /\ Open = {} => NewHead = length /\ Removing = curr
         /\ Open # {} => /\ NewHead < length /\ Removing = slots[NewHead].start
                         /\ \A i \in NewHead..(length - 1) : Removing <= slots[i].start
<1>. USE DEF IInv
<1>1. length \in Nat /\ curr \in Nat /\ \A i \in 0..(length - 1) : slots[i] \in Descriptors
  BY DEF Good
<1>2. CASE Open = {}
  BY <1>1, <1>2 DEF NewHead, Removing, Left
<1>3. CASE Open # {}
  <2>1. Open \subseteq 0..(length - 1) /\ length # 0
    BY <1>1, <1>3 DEF Open
  <2>2. Min(Open) \in Open
    <3>1. Open \subseteq 0..length
      BY <1>1, <2>1
    <3>. QED BY <1>1, <1>3, <3>1, Minimum
  <2>3. NewHead \in 0..(length - 1)
    BY <1>3, <2>1, <2>2 DEF NewHead
  <2>4. Removing = slots[NewHead].start
    BY <1>3 DEF Removing
  <2>5. slots[NewHead].start \in Nat /\ slots[NewHead].size \in Nat
        /\ slots[NewHead].start + slots[NewHead].size <= curr
    BY <2>3, <1>1 DEF Good, Descriptors
  <2>6. \A i \in NewHead..(length - 1) : slots[NewHead].start <= slots[i].start
    <3>1. SUFFICES ASSUME NEW i \in NewHead..(length - 1), i # NewHead
                   PROVE  slots[NewHead].start <= slots[i].start
      BY <2>5
    <3>2. i \in 0..(length - 1) /\ NewHead < i
      BY <3>1, <1>1, <2>3
    <3>3. slots[NewHead].start + slots[NewHead].size <= slots[i].start
      BY <3>2, <2>3 DEF Good
    <3>4. slots[i].start \in Nat
      BY <3>2, <1>1 DEF Descriptors
    <3>. QED BY <3>3, <3>4, <2>5
  <2>. QED
    BY <1>1, <1>3, <2>3, <2>4, <2>5, <2>6 DEF Left
<1>. QED
  BY <1>2, <1>3

\* What mqtt_mq_clean leaves is a good memory again: the bytes and descriptors of
\* the messages from the new head on, moved by the same distance.
LEMMA CleanedGood == ASSUME IInv PROVE Good(Moved, SlotsMoved, Left, CurrLeft)
<1>. DEFINE h == NewHead
            r == Removing
<1>1. /\ length \in Nat /\ curr \in Nat /\ BufSz \in Nat /\ DescSz \in Nat
      /\ \A i \in 0..(length - 1) : i \in Slots /\ slots[i] \in Descriptors
      /\ slots \in [Slots -> Descriptors] /\ data \in [0..(BufSz - 1) -> Bytes]
      /\ curr + DescSz * length <= BufSz
  BY SizesAssumption DEF IInv, Good
<1>2. /\ h \in 0..length /\ Left \in Nat /\ Left = length - h
      /\ r \in Nat /\ r <= curr
      /\ Open = {} => h = length /\ r = curr
      /\ Open # {} => /\ h < length /\ r = slots[h].start
                      /\ \A i \in h..(length - 1) : r <= slots[i].start
  BY HeadFacts
<1>. HIDE DEF h, r
<1>3. CurrLeft = curr - r /\ CurrLeft \in Nat /\ CurrLeft <= curr
  BY <1>1, <1>2 DEF CurrLeft, r
<1>4. CurrLeft <= BufSz
  <2>. DEFINE e == DescSz * length
  <2>1. e \in Nat /\ curr + e <= BufSz
    BY <1>1
  <2>. HIDE DEF e
  <2>. QED BY <1>1, <1>3, <2>1
<1>5. CurrLeft + DescSz * Left <= BufSz
  <2>1. DescSz * Left <= DescSz * length
    BY <1>1, <1>2
  <2>2. DescSz * Left \in Nat /\ DescSz * length \in Nat
    BY <1>1, <1>2
  <2>. QED BY <1>1, <1>3, <2>1, <2>2
<1>6. \A i \in 0..(Left - 1) : h + i \in 0..(length - 1) /\ i \in 0..(length - 1) /\ i \in Slots
  BY <1>1, <1>2
<1>7. \A i \in 0..(Left - 1) : r <= slots[h + i].start
  BY <1>1, <1>2, <1>6
<1>8. ASSUME NEW i \in 0..(Left - 1)
      PROVE  /\ SlotsMoved[i].start = slots[h + i].start - r
             /\ SlotsMoved[i].size = slots[h + i].size
             /\ SlotsMoved[i].packed = slots[h + i].packed
             /\ SlotsMoved[i] \in Descriptors
  <2>1. SlotsMoved[i] = [slots[h + i] EXCEPT !.start = @ - r]
    BY <1>2, <1>6 DEF SlotsMoved, h, r
  <2>2. slots[h + i] \in Descriptors /\ r <= slots[h + i].start
    BY <1>1, <1>6, <1>7
  <2>3. slots[h + i].start - r \in Nat
    BY <2>2, <1>2 DEF Descriptors
  <2>. QED
    BY <2>1, <2>2, <2>3 DEF Descriptors
<1>9. SlotsMoved \in [Slots -> Descriptors]
  <2>1. ASSUME NEW i \in Slots PROVE SlotsMoved[i] \in Descriptors
    <3>1. i \in Nat
      BY DEF Slots
    <3>2. CASE i < Left
      BY <3>1, <3>2, <1>2, <1>8
    <3>3. CASE ~(i < Left)
      BY <3>3, <1>1 DEF SlotsMoved
    <3>. QED BY <3>2, <3>3
  <2>. QED BY <2>1 DEF SlotsMoved
<1>10. Moved \in [0..(BufSz - 1) -> Bytes]
  <2>1. \A k \in 0..(BufSz - 1) : k < CurrLeft => r + k \in 0..(BufSz - 1)
    <3>. DEFINE e == DescSz * length
    <3>1. e \in Nat /\ curr + e <= BufSz
      BY <1>1
    <3>. HIDE DEF e
    <3>. QED BY <1>1, <1>2, <1>3, <3>1
  <2>. QED BY <2>1, <1>1 DEF Moved, r
<1>11. \A i \in 0..(Left - 1) : SlotsMoved[i].start =
         IF i = 0 THEN 0 ELSE SlotsMoved[i - 1].start + SlotsMoved[i - 1].size
  <2>1. ASSUME NEW i \in 0..(Left - 1), i # 0
        PROVE  SlotsMoved[i].start = SlotsMoved[i - 1].start + SlotsMoved[i - 1].size
    <3>1. i - 1 \in 0..(Left - 1) /\ h + i # 0 /\ (h + i) - 1 = h + (i - 1)
      BY <2>1, <1>2
    <3>2. slots[h + i].start = slots[h + (i - 1)].start + slots[h + (i - 1)].size
      BY <3>1, <1>6 DEF IInv, Good
    <3>3. slots[h + (i - 1)] \in Descriptors
      BY <3>1, <1>1, <1>6
    <3>4. /\ SlotsMoved[i].start = slots[h + i].start - r
          /\ SlotsMoved[i - 1].start = slots[h + (i - 1)].start - r
          /\ SlotsMoved[i - 1].size = slots[h + (i - 1)].size
      BY <3>1, <1>8
    <3>5. slots[h + (i - 1)].start \in Nat /\ slots[h + (i - 1)].size \in Nat /\ r \in Nat
      BY <3>3, <1>2 DEF Descriptors
    <3>. QED
      BY <3>2, <3>4, <3>5
  <2>2. ASSUME 0 \in 0..(Left - 1) PROVE SlotsMoved[0].start = 0
    <3>1. Open # {} /\ r = slots[h].start /\ h + 0 = h
      BY <2>2, <1>1, <1>2
    <3>2. r \in Nat
      BY <1>2
    <3>. QED BY <2>2, <3>1, <3>2, <1>8
  <2>. QED BY <2>1, <2>2
<1>12. CurrLeft = IF Left = 0 THEN 0 ELSE SlotsMoved[Left - 1].start + SlotsMoved[Left - 1].size
  <2>1. CASE Left = 0
    <3>1. Open = {}
      BY <2>1, <1>1, <1>2
    <3>. QED BY <2>1, <3>1, <1>1, <1>2, <1>3
  <2>2. CASE Left # 0
    <3>1. Left - 1 \in 0..(Left - 1) /\ h + (Left - 1) = length - 1 /\ length # 0
      BY <2>2, <1>1, <1>2
    <3>2. curr = slots[length - 1].start + slots[length - 1].size
      BY <3>1 DEF IInv, Good
    <3>3. slots[length - 1] \in Descriptors
      BY <3>1, <1>1
    <3>4. SlotsMoved[Left - 1].start = slots[length - 1].start - r
          /\ SlotsMoved[Left - 1].size = slots[length - 1].size
      BY <3>1, <1>8
    <3>. QED BY <2>2, <3>2, <3>3, <3>4, <1>2, <1>3 DEF Descriptors
  <2>. QED BY <2>1, <2>2
<1>13. \A i \in 0..(Left - 1) : SlotsMoved[i].start + SlotsMoved[i].size <= CurrLeft
  <2>1. SUFFICES ASSUME NEW i \in 0..(Left - 1)
                 PROVE  SlotsMoved[i].start + SlotsMoved[i].size <= CurrLeft
    OBVIOUS
  <2>2. slots[h + i] \in Descriptors /\ slots[h + i].start + slots[h + i].size <= curr
    BY <1>1, <1>6 DEF IInv, Good
  <2>3. slots[h + i].start \in Nat /\ slots[h + i].size \in Nat
    BY <2>2 DEF Descriptors
  <2>4. SlotsMoved[i].start = slots[h + i].start - r /\ SlotsMoved[i].size = slots[h + i].size
    BY <1>8
  <2>5. CurrLeft = curr - r /\ curr \in Nat /\ r \in Nat
    BY <1>1, <1>2, <1>3
  <2>. QED BY <2>2, <2>3, <2>4, <2>5
<1>14. \A i, j \in 0..(Left - 1) :
         i < j => SlotsMoved[i].start + SlotsMoved[i].size <= SlotsMoved[j].start
  <2>1. SUFFICES ASSUME NEW i \in 0..(Left - 1), NEW j \in 0..(Left - 1), i < j
                 PROVE  SlotsMoved[i].start + SlotsMoved[i].size <= SlotsMoved[j].start
    OBVIOUS
  <2>2. h + i < h + j
    BY <2>1, <1>2
  <2>3. slots[h + i].start + slots[h + i].size <= slots[h + j].start
    BY <2>2, <1>6 DEF IInv, Good
  <2>4. slots[h + i] \in Descriptors /\ slots[h + j] \in Descriptors
    BY <1>1, <1>6
  <2>5. /\ slots[h + i].start \in Nat /\ slots[h + i].size \in Nat
        /\ slots[h + j].start \in Nat /\ r \in Nat
    BY <2>4, <1>2 DEF Descriptors
  <2>6. /\ SlotsMoved[i].start = slots[h + i].start - r
        /\ SlotsMoved[i].size = slots[h + i].size
        /\ SlotsMoved[j].start = slots[h + j].start - r
    BY <1>8
  <2>. QED BY <2>3, <2>5, <2>6
<1>15. ASSUME NEW i \in 0..(Left - 1)
       PROVE  /\ SlotsMoved[i].size = Len(SlotsMoved[i].packed)
              /\ \A k \in 1..SlotsMoved[i].size :
                   Moved[SlotsMoved[i].start + k - 1] = SlotsMoved[i].packed[k]
  <2>1. /\ slots[h + i].size = Len(slots[h + i].packed)
        /\ \A k \in 1..slots[h + i].size :
             data[slots[h + i].start + k - 1] = slots[h + i].packed[k]
    BY <1>6 DEF IInv, Good
  <2>2. slots[h + i] \in Descriptors /\ r <= slots[h + i].start
    BY <1>1, <1>6, <1>7
  <2>3. ASSUME NEW k \in 1..SlotsMoved[i].size
        PROVE  Moved[SlotsMoved[i].start + k - 1] = SlotsMoved[i].packed[k]
    <3>. DEFINE q == SlotsMoved[i].start + k - 1
    <3>1. q \in 0..(CurrLeft - 1) /\ r + q = slots[h + i].start + k - 1
      <4>1. /\ SlotsMoved[i].start \in Nat /\ SlotsMoved[i].size \in Nat
            /\ slots[h + i].start \in Nat /\ r \in Nat /\ CurrLeft \in Nat
        BY <2>2, <1>2, <1>3, <1>8 DEF Descriptors
      <4>2. SlotsMoved[i].start = slots[h + i].start - r
            /\ SlotsMoved[i].start + SlotsMoved[i].size <= CurrLeft
        BY <1>8, <1>13
      <4>. QED BY <4>1, <4>2
    <3>2. Moved[q] = data[r + q]
      <4>. HIDE DEF q
      <4>. QED BY <3>1, <1>1, <1>3, <1>4 DEF Moved, r
    <3>. QED BY <3>1, <3>2, <2>1, <1>8
  <2>. QED BY <2>1, <2>3, <1>8
<1>. QED
  BY <1>2, <1>3, <1>5, <1>6, <1>9, <1>10, <1>11, <1>12, <1>13, <1>14, <1>15 DEF Good

LEMMA InitEstablishes == Init => IInv
<1>. SUFFICES ASSUME Init PROVE IInv
  OBVIOUS
<1>1. PICK b \in Bytes : /\ data = [k \in 0..(BufSz - 1) |-> b]
                        /\ slots = [i \in Slots |-> [start |-> 0, size |-> 0,
                                      state |-> "COMPLETE", packed |-> <<>>]]
  BY DEF Init
<1>2. <<>> \in Seq(Bytes)
  OBVIOUS
<1>3. slots \in [Slots -> Descriptors] /\ data \in [0..(BufSz - 1) -> Bytes]
  BY <1>1, <1>2 DEF Descriptors, States
<1>4. BufSz \in Nat /\ DescSz * 0 = 0
  BY SizesAssumption
<1>. QED
  BY <1>3, <1>4 DEF Init, IInv, Good

LEMMA StepKeeps == IInv /\ [Next]_mq => IInv'
<1>. SUFFICES ASSUME IInv, [Next]_mq PROVE IInv'
  OBVIOUS
<1>1. ASSUME NEW text \in Texts, TryPack(text) PROVE IInv'
  <2>1. CASE Len(text) <= curr_sz /\ Register(text, data, slots, length, curr)
    BY <2>1, RegisterKeeps DEF IInv
  <2>2. CASE /\ Len(text) > curr_sz /\ Len(text) <= CleanedSz
             /\ Register(text, Moved, SlotsMoved, Left, CurrLeft)
    <3>1. Len(text) <= CurrSz(CurrLeft, Left)
      <4>1. CASE Blocked
        <5>1. CleanedSz = curr_sz
          BY <4>1 DEF CleanedSz
        <5>2. Len(text) \in Nat /\ curr_sz \in Int
          BY <2>2, TextsAssumption, LenProperties, SizesAssumption DEF IInv, CurrSz, Good
        <5>. QED BY <2>2, <5>1, <5>2
      <4>2. CASE ~Blocked
        BY <2>2, <4>2 DEF CleanedSz
      <4>. QED BY <4>1, <4>2
    <3>. QED
      BY <2>2, <3>1, CleanedGood, RegisterKeeps
  <2>. QED
    BY <1>1, <2>1, <2>2 DEF TryPack
<1>2. ASSUME Clean PROVE IInv'
  <2>1. CASE UNCHANGED mq
    BY <2>1 DEF mq, IInv, Good
  <2>2. CASE /\ data' = Moved /\ slots' = SlotsMoved /\ length' = Left
             /\ curr' = CurrLeft /\ curr_sz' = CurrSz(CurrLeft, Left)
    BY <2>2, CleanedGood DEF IInv
  <2>. QED
    BY <1>2, <2>1, <2>2 DEF Clean
<1>3. ASSUME NEW text \in Texts, BufferIsFull(text) PROVE IInv'
  BY <1>2, <1>3 DEF BufferIsFull
<1>4. ASSUME NEW i \in 0..(length - 1), NEW s \in States, SetState(i, s) PROVE IInv'
  <2>1. /\ slots' = [slots EXCEPT ![i].state = s] /\ slots \in [Slots -> Descriptors]
        /\ UNCHANGED <<data, length, curr, curr_sz>> /\ i \in Slots
    BY <1>4 DEF SetState, IInv, Good
  <2>2. slots' \in [Slots -> Descriptors]
    BY <2>1 DEF Descriptors
  <2>3. \A j \in 0..(length - 1) : /\ slots'[j].start = slots[j].start
                                  /\ slots'[j].size = slots[j].size
                                  /\ slots'[j].packed = slots[j].packed
    BY <2>1 DEF IInv, Good, Descriptors
  <2>4. length \in Nat
    BY DEF IInv, Good
  <2>5. curr' = IF length = 0 THEN 0 ELSE slots'[length - 1].start + slots'[length - 1].size
    BY <2>1, <2>3, <2>4 DEF IInv, Good
  <2>6. \A j \in 0..(length - 1) : slots'[j].start =
          IF j = 0 THEN 0 ELSE slots'[j - 1].start + slots'[j - 1].size
    BY <2>3, <2>4 DEF IInv, Good
  <2>. QED
    BY <2>1, <2>2, <2>3, <2>5, <2>6 DEF IInv, Good
<1>5. ASSUME Empty PROVE IInv'
  <2>1. BufSz \in Nat /\ DescSz * 0 = 0
    BY SizesAssumption
  <2>. QED
    BY <1>5, <2>1 DEF Empty, IInv, Good
<1>6. CASE UNCHANGED mq
  BY <1>6 DEF mq, IInv, Good
<1>. QED
  BY <1>1, <1>2, <1>3, <1>4, <1>5, <1>6 DEF Next, States

LEMMA Invariance == Spec => []IInv
BY InitEstablishes, StepKeeps, PTL DEF Spec

\* All offsets stay inside the buffer, and the room left is never negative.
THEOREM TypeCorrect == Spec => []TypeOK
<1>1. IInv => TypeOK
  <2>. SUFFICES ASSUME IInv PROVE TypeOK
    OBVIOUS
  <2>1. length \in Nat /\ curr \in Nat /\ BufSz \in Nat /\ DescSz \in Nat
    BY SizesAssumption DEF IInv, Good
  <2>2. DescSz * (length + 1) \in Nat
    BY <2>1
  <2>3. curr_sz \in Nat
    <3>. DEFINE e == DescSz * (length + 1)
    <3>1. curr_sz = IF curr >= BufSz - e THEN 0 ELSE BufSz - e - curr
      BY DEF IInv, CurrSz
    <3>. HIDE DEF e
    <3>2. e \in Nat
      BY <2>2 DEF e
    <3>. QED BY <2>1, <3>1, <3>2
  <2>. QED
    BY <2>3 DEF IInv, Good, TypeOK
<1>. QED
  BY Invariance, <1>1, PTL

\* The packets lie one behind the other, never reach the descriptors, and
\* curr_sz is up to date after every operation.
THEOREM LayoutHolds == Spec => []Layout
<1>1. IInv => Layout
  BY DEF IInv, Good, Layout
<1>. QED
  BY Invariance, <1>1, PTL

\* No packet loses or changes a byte between the call that packs it and the
\* mqtt_mq_clean that removes it.
THEOREM BytesAreKept == Spec => []BytesKept
<1>1. IInv => BytesKept
  BY DEF IInv, Good, BytesKept
<1>. QED
  BY Invariance, <1>1, PTL

-----------------------------------------------------------------------------
(* The refinement. *)

\* In a good memory a message is read as it was packed, whatever the bytes are.
Queued(s, n) == [m \in 1..n |-> [text |-> s[m - 1].packed, state |-> s[m - 1].state]]

LEMMA ReadAsPacked ==
  ASSUME NEW d, NEW s, NEW n, NEW c, Good(d, s, n, c)
  PROVE  Read(d, s, n) = Queued(s, n)
<1>1. ASSUME NEW m \in 1..n
      PROVE  [k \in 1..s[m - 1].size |-> d[s[m - 1].start + k - 1]] = s[m - 1].packed
  <2>1. n \in Nat /\ m - 1 \in 0..(n - 1)
    BY DEF Good
  <2>2. s[m - 1] \in Descriptors
    BY <2>1 DEF Good
  <2>3. PICK t \in Seq(Bytes) : t = s[m - 1].packed
    BY <2>2 DEF Descriptors
  <2>4. PICK b : b = s[m - 1].start
    OBVIOUS
  <2>5. s[m - 1].size = Len(t) /\ \A k \in 1..Len(t) : d[b + k - 1] = t[k]
    BY <2>1, <2>3, <2>4 DEF Good
  <2>6. t = [k \in 1..Len(t) |-> t[k]]
    OBVIOUS
  <2> QED BY <2>3, <2>4, <2>5, <2>6
<1> QED BY <1>1 DEF Read, Queued

\* What the recursive function of MessageFifo adds up, shown by its partial sums.
LEMMA OccupiedIs ==
  ASSUME NEW n \in Nat, NEW q, Len(q) = n, NEW e \in [0..n -> Nat], e[0] = 0,
         \A m \in 1..n : e[m] = e[m - 1] + Len(q[m].text)
  PROVE  Fifo!Occupied(q) = e[n]
<1>. DEFINE Sums(g) == g = [m \in 0..n |-> IF m = 0 THEN 0 ELSE g[m - 1] + Len(q[m].text)]
            end == CHOOSE g : Sums(g)
<1>1. Sums(e)
  <2>1. \A m \in 0..n : e[m] = IF m = 0 THEN 0 ELSE e[m - 1] + Len(q[m].text)
    OBVIOUS
  <2> QED BY <2>1
<1>2. Sums(end)
  <2> HIDE DEF Sums
  <2> QED BY <1>1
<1>3. Fifo!Occupied(q) = end[n]
  BY DEF Fifo!Occupied
<1>4. PICK g : g = end
  OBVIOUS
<1> HIDE DEF end
<1>5. g = [m \in 0..n |-> IF m = 0 THEN 0 ELSE g[m - 1] + Len(q[m].text)]
  BY <1>2, <1>4
<1> HIDE DEF Sums
<1>6. PICK T : T = {m \in 0..n : g[m] = e[m]}
  OBVIOUS
<1>7. 0 \in T
  BY <1>5, <1>6
<1>8. ASSUME NEW k \in 0..(n - 1), k \in T PROVE k + 1 \in T
  <2>1. k + 1 \in 1..n /\ (k + 1) - 1 = k
    OBVIOUS
  <2>2. g[k + 1] = g[k] + Len(q[k + 1].text)
    BY <1>5, <2>1
  <2>3. e[k + 1] = e[k] + Len(q[k + 1].text)
    BY <2>1
  <2> QED BY <1>6, <1>8, <2>1, <2>2, <2>3
<1>9. n \in T
  <2>1. \A k \in 0..(n - 1) : k \in T => k + 1 \in T
    BY <1>8
  <2>2. 0..n \subseteq T
    BY <1>7, <2>1, InductionUpTo
  <2> QED BY <2>2
<1> QED BY <1>3, <1>4, <1>6, <1>9

LEMMA OccupiedIsCurr ==
  ASSUME NEW d, NEW s, NEW n, NEW c, Good(d, s, n, c)
  PROVE  Fifo!Occupied(Queued(s, n)) = c /\ Len(Queued(s, n)) = n
<1>1. n \in Nat /\ c \in Nat /\ \A i \in 0..(n - 1) : s[i] \in Descriptors
  BY DEF Good
<1>2. PICK q : q = Queued(s, n)
  OBVIOUS
<1>3. Len(q) = n /\ \A m \in 1..n : q[m].text = s[m - 1].packed
  BY <1>1, <1>2 DEF Queued
<1>4. PICK e : e = [m \in 0..n |-> IF m = n THEN c ELSE s[m].start]
  OBVIOUS
<1>5. e \in [0..n -> Nat]
  BY <1>1, <1>4 DEF Descriptors
<1>6. e[0] = 0
  BY <1>1, <1>4 DEF Good
<1>7. ASSUME NEW m \in 1..n PROVE e[m] = e[m - 1] + Len(q[m].text)
  <2>1. m - 1 \in 0..(n - 1) /\ m - 1 # n
    BY <1>1
  <2>2. e[m - 1] = s[m - 1].start
    BY <1>4, <2>1, <1>1
  <2>3. s[m - 1].size = Len(q[m].text)
    BY <1>3, <2>1 DEF Good
  <2>4. e[m] = s[m - 1].start + s[m - 1].size
    BY <1>1, <1>4, <2>1 DEF Good
  <2> QED BY <2>2, <2>3, <2>4
<1>8. Fifo!Occupied(q) = e[n]
  <2>1. \A m \in 1..n : e[m] = e[m - 1] + Len(q[m].text)
    BY <1>7
  <2> QED BY <1>1, <1>3, <1>5, <1>6, <2>1, OccupiedIs
<1> QED BY <1>1, <1>2, <1>3, <1>4, <1>8

\* mqtt_mq_currsz leaves room for a packet exactly where MessageFifo does.
LEMMA FitsIsRoom ==
  ASSUME NEW d, NEW s, NEW n, NEW c, Good(d, s, n, c), NEW text \in Texts
  PROVE  Fifo!Fits(Queued(s, n), text) <=> Len(text) <= CurrSz(c, n)
<1>1. n \in Nat /\ c \in Nat /\ BufSz \in Nat /\ DescSz \in Nat
  BY SizesAssumption DEF Good
<1>2. Len(text) \in Nat \ {0}
  BY TextsAssumption, EmptySeq, LenProperties
<1>3. PICK e : e = DescSz * (n + 1)
  OBVIOUS
<1>4. e \in Nat
  BY <1>1, <1>3
<1>5. Fifo!Fits(Queued(s, n), text) <=> c + Len(text) + e <= BufSz
  BY <1>3, OccupiedIsCurr DEF Fifo!Fits
<1>6. CurrSz(c, n) = IF c >= BufSz - e THEN 0 ELSE (BufSz - e) - c
  BY <1>3 DEF CurrSz
<1> QED BY <1>1, <1>2, <1>4, <1>5, <1>6

\* What mqtt_mq_clean keeps are the messages from the oldest open one on.
LEMMA CleanedIsPending ==
  ASSUME IInv
  PROVE  Fifo!Pending(Queued(slots, length)) = Queued(SlotsMoved, Left)
<1>1. length \in Nat /\ \A i \in 0..(length - 1) : i \in Slots /\ slots[i] \in Descriptors
  BY DEF IInv, Good
<1>2. PICK q : q = Queued(slots, length)
  OBVIOUS
<1>3. Len(q) = length /\ \A m \in 1..length : q[m] = [text |-> slots[m - 1].packed, state |-> slots[m - 1].state]
  BY <1>1, <1>2 DEF Queued
<1>4. PICK S : S = {m \in 1..Len(q) : q[m].state # "COMPLETE"}
  OBVIOUS
<1>5. \A m \in 1..length : m \in S <=> m - 1 \in Open
  BY <1>1, <1>3, <1>4 DEF Open
<1>6. S \subseteq 1..length /\ Open \subseteq 0..(length - 1)
  BY <1>3, <1>4 DEF Open
<1>7. Fifo!Pending(q) = IF S = {} THEN <<>> ELSE SubSeq(q, Min(S), Len(q))
  BY <1>4 DEF Fifo!Pending, Fifo!Min, Min
<1>8. CASE Open = {}
  <2>1. S = {} /\ Left = 0
    BY <1>1, <1>5, <1>6, <1>8, HeadFacts
  <2>2. Queued(SlotsMoved, 0) = <<>>
    BY DEF Queued
  <2> QED BY <1>2, <1>7, <2>1, <2>2
<1>9. CASE Open # {}
  <2>1. PICK h : h = NewHead
    OBVIOUS
  <2>2. h \in 0..(length - 1) /\ Left = length - h
    BY <1>1, <1>9, <2>1, HeadFacts
  <2>3. h \in Open /\ \A y \in Open : h <= y
    <3>1. Open \subseteq 0..length
      BY <1>1, <1>6
    <3>2. h = Min(Open)
      BY <1>9, <2>1 DEF NewHead
    <3> QED BY <1>1, <1>9, <3>1, <3>2, Minimum
  <2>4. h + 1 \in S
    BY <1>1, <1>5, <2>2, <2>3
  <2>5. Min(S) \in S /\ \A y \in S : Min(S) <= y
    <3>1. S \subseteq 0..length
      BY <1>1, <1>6
    <3> QED BY <1>1, <2>4, <3>1, Minimum
  <2>6. Min(S) = h + 1
    <3>1. Min(S) \in 1..length /\ Min(S) <= h + 1
      BY <1>6, <2>4, <2>5
    <3>2. Min(S) - 1 \in Open
      BY <1>5, <2>5, <3>1
    <3>3. PICK m : m = Min(S)
      OBVIOUS
    <3>4. m \in Int /\ h \in Int /\ h <= m - 1 /\ m <= h + 1
      BY <1>1, <2>2, <2>3, <3>1, <3>2, <3>3
    <3> QED BY <3>3, <3>4
  <2>7. SubSeq(q, h + 1, length) = [k \in 1..(length - h) |-> q[k + h]]
    <3>1. q \in Seq([text : Seq(Bytes), state : States])
      BY <1>1, <1>2 DEF Queued, Descriptors
    <3>2. PICK r : r = SubSeq(q, h + 1, length)
      OBVIOUS
    <3>3. r \in Seq([text : Seq(Bytes), state : States]) /\ Len(r) = length - h
          /\ \A k \in 1..(length - h) : r[k] = q[k + h]
      BY <1>1, <1>3, <2>2, <3>1, <3>2, SubSeqProperties
    <3>4. r = [k \in 1..(length - h) |-> r[k]]
      BY <3>3
    <3> QED BY <3>2, <3>3, <3>4
  <2>8. ASSUME NEW k \in 1..(length - h)
        PROVE  q[k + h] = [text |-> SlotsMoved[k - 1].packed, state |-> SlotsMoved[k - 1].state]
    <3>1. k + h \in 1..length /\ (k + h) - 1 = h + (k - 1) /\ k - 1 \in 0..(length - 1) /\ k - 1 < Left
          /\ h + (k - 1) \in 0..(length - 1)
      BY <1>1, <2>2
    <3>2. SlotsMoved[k - 1] = [slots[h + (k - 1)] EXCEPT !.start = @ - Removing]
      BY <1>1, <2>1, <3>1 DEF SlotsMoved
    <3>3. slots[h + (k - 1)] \in Descriptors
      BY <1>1, <3>1
    <3>4. /\ SlotsMoved[k - 1].packed = slots[h + (k - 1)].packed
          /\ SlotsMoved[k - 1].state = slots[h + (k - 1)].state
      BY <3>2, <3>3 DEF Descriptors
    <3> QED BY <1>3, <3>1, <3>4
  <2>9. S # {}
    BY <2>4
  <2>10. Queued(SlotsMoved, Left) = [k \in 1..(length - h) |-> q[k + h]]
    BY <2>2, <2>8 DEF Queued
  <2> QED BY <1>2, <1>3, <1>7, <2>6, <2>7, <2>9, <2>10
<1> QED BY <1>8, <1>9

\* The room of a queue is a number, and a queue that mqtt_mq_clean leaves alone is kept.
LEMMA CurrSzIsNatural ==
  ASSUME NEW c \in Nat, NEW n \in Nat
  PROVE  CurrSz(c, n) \in Nat
<1>1. PICK e : e = DescSz * (n + 1)
  OBVIOUS
<1>2. e \in Nat /\ BufSz \in Nat
  BY <1>1, SizesAssumption
<1>3. CurrSz(c, n) = IF c >= BufSz - e THEN 0 ELSE BufSz - e - c
  BY <1>1 DEF CurrSz
<1> QED BY <1>2, <1>3

LEMMA RoomIsNatural == IInv => curr_sz \in Nat
BY CurrSzIsNatural DEF IInv, Good

LEMMA BlockedStays ==
  ASSUME IInv, Clean, Blocked
  PROVE  UNCHANGED <<data, slots, length>>
<1>1. CASE UNCHANGED mq
  BY <1>1 DEF mq
<1> QED BY <1>1 DEF Clean

\* A packet that is registered is behind the others, and these are as they were.
LEMMA RegisterAppends ==
  ASSUME NEW d, NEW s, NEW n, NEW c, Good(d, s, n, c),
         NEW text \in Texts, Len(text) <= CurrSz(c, n), Register(text, d, s, n, c)
  PROVE  Queued(slots', length') = Append(Queued(s, n), Fifo!New(text))
<1>1. n \in Nat /\ n \in Slots /\ (\A i \in 0..(n - 1) : i \in Slots) /\ s \in [Slots -> Descriptors]
  <2>1. Len(text) \in Nat \ {0}
    BY TextsAssumption, EmptySeq, LenProperties
  <2> QED BY <2>1, RoomInside DEF Good
<1>. DEFINE desc == [start |-> c, size |-> Len(text), state |-> "UNSENT", packed |-> text]
<1>2. slots' = [s EXCEPT ![n] = desc] /\ length' = n + 1
  BY DEF Register
<1>3. desc.packed = text /\ desc.state = "UNSENT"
  OBVIOUS
<1> HIDE DEF desc
<1>4. slots'[n] = desc /\ \A i \in 0..(n - 1) : slots'[i] = s[i]
  BY <1>1, <1>2
<1>5. PICK q : q = Queued(s, n)
  OBVIOUS
<1>6. Len(q) = n /\ q \in Seq([text : Seq(Bytes), state : States])
  BY <1>1, <1>5 DEF Queued, Descriptors
<1>7. PICK new : new = Fifo!New(text)
  OBVIOUS
<1>8. Append(q, new) = [m \in 1..(n + 1) |-> IF m = n + 1 THEN new ELSE q[m]]
  <2>1. new \in [text : Seq(Bytes), state : States]
    BY <1>7, TextsAssumption DEF Fifo!New, States
  <2>2. PICK r : r = Append(q, new)
    OBVIOUS
  <2>3. r \in Seq([text : Seq(Bytes), state : States]) /\ Len(r) = n + 1 /\ r[n + 1] = new
        /\ \A m \in 1..n : r[m] = q[m]
    BY <1>6, <2>1, <2>2, AppendProperties
  <2>4. r = [m \in 1..(n + 1) |-> r[m]]
    BY <2>3
  <2>5. \A m \in 1..(n + 1) : r[m] = IF m = n + 1 THEN new ELSE q[m]
    <3>1. \A m \in 1..(n + 1) : m # n + 1 => m \in 1..n
      BY <1>1
    <3> QED BY <2>3, <3>1
  <2> QED BY <2>2, <2>4, <2>5
<1>9. ASSUME NEW m \in 1..(n + 1)
      PROVE  [text |-> slots'[m - 1].packed, state |-> slots'[m - 1].state] = IF m = n + 1 THEN new ELSE q[m]
  <2>1. CASE m = n + 1
    <3>1. m - 1 = n
      BY <1>1, <2>1
    <3> QED BY <1>3, <1>4, <1>7, <2>1, <3>1 DEF Fifo!New
  <2>2. CASE m # n + 1
    <3>1. m - 1 \in 0..(n - 1) /\ m \in 1..n
      BY <1>1, <2>2
    <3> QED BY <1>4, <1>5, <2>2, <3>1 DEF Queued
  <2> QED BY <2>1, <2>2
<1>10. Queued(slots', length') = [m \in 1..(n + 1) |-> IF m = n + 1 THEN new ELSE q[m]]
  BY <1>2, <1>9 DEF Queued
<1> QED BY <1>5, <1>7, <1>8, <1>10

\* After mqtt_mq_clean the queue is what was pending, also if nothing could be removed.
LEMMA CleanIsPending ==
  ASSUME IInv, Clean
  PROVE  Read(data, slots, length)' = Fifo!Pending(Read(data, slots, length))
<1>1. Read(data, slots, length) = Queued(slots, length)
  BY ReadAsPacked DEF IInv
<1>2. Read(Moved, SlotsMoved, Left) = Queued(SlotsMoved, Left)
  BY CleanedGood, ReadAsPacked
<1>3. CASE Blocked /\ UNCHANGED mq
  <2>1. length \in Nat /\ Left = length /\ Open # {} /\ NewHead = 0
    BY <1>3, HeadFacts DEF Blocked, Left, IInv, Good
  <2>2. \A i \in 0..(length - 1) : i \in Slots /\ slots[i] \in Descriptors
    BY DEF IInv, Good
  <2>3. ASSUME NEW m \in 1..length
        PROVE  slots[m - 1].packed = SlotsMoved[m - 1].packed /\ slots[m - 1].state = SlotsMoved[m - 1].state
    <3>1. m - 1 \in 0..(length - 1) /\ m - 1 < Left /\ NewHead + (m - 1) = m - 1
      BY <2>1
    <3>2. SlotsMoved[m - 1] = [slots[m - 1] EXCEPT !.start = @ - Removing]
      BY <2>2, <3>1 DEF SlotsMoved
    <3> QED BY <2>2, <3>1, <3>2 DEF Descriptors
  <2>4. Queued(SlotsMoved, Left) = Queued(slots, length)
    BY <2>1, <2>3 DEF Queued
  <2> QED BY <1>1, <1>3, <2>4, CleanedIsPending DEF mq
<1>4. CASE data' = Moved /\ slots' = SlotsMoved /\ length' = Left
  BY <1>1, <1>2, <1>4, CleanedIsPending
<1> QED BY <1>3, <1>4 DEF Clean

\* With its state set, a message is the one that Mark marks.
LEMMA SetStateIsMark ==
  ASSUME IInv, IInv', NEW i \in 0..(length - 1), NEW s \in States, SetState(i, s)
  PROVE  i + 1 \in 1..Len(Queued(slots, length))
         /\ Queued(slots, length)[i + 1].state # "COMPLETE"
         /\ Queued(slots', length') = [Queued(slots, length) EXCEPT ![i + 1].state = s]
<1>1. length \in Nat /\ (\A k \in 0..(length - 1) : k \in Slots) /\ slots \in [Slots -> Descriptors]
  BY DEF IInv, Good
<1>2. slots' = [slots EXCEPT ![i].state = s] /\ length' = length /\ slots[i].state # "COMPLETE"
  BY DEF SetState
<1>3. PICK q : q = Queued(slots, length)
  OBVIOUS
<1>4. /\ q = [m \in 1..length |-> [text |-> slots[m - 1].packed, state |-> slots[m - 1].state]]
      /\ Len(q) = length /\ i + 1 \in 1..length /\ (i + 1) - 1 = i
  BY <1>1, <1>3 DEF Queued
<1>5. ASSUME NEW m \in 1..length
      PROVE  [text |-> slots'[m - 1].packed, state |-> slots'[m - 1].state]
             = IF m = i + 1 THEN [q[m] EXCEPT !.state = s] ELSE q[m]
  <2>1. m - 1 \in 0..(length - 1) /\ m - 1 \in Slots /\ slots[m - 1] \in Descriptors
        /\ (m = i + 1 <=> m - 1 = i)
    BY <1>1, <1>4
  <2>2. slots'[m - 1] = IF m - 1 = i THEN [slots[m - 1] EXCEPT !.state = s] ELSE slots[m - 1]
    BY <1>1, <1>2, <2>1
  <2>3. q[m] = [text |-> slots[m - 1].packed, state |-> slots[m - 1].state]
    BY <1>4
  <2> QED BY <2>1, <2>2, <2>3 DEF Descriptors
<1>6. [q EXCEPT ![i + 1].state = s] = [m \in 1..length |-> IF m = i + 1 THEN [q[m] EXCEPT !.state = s] ELSE q[m]]
  BY <1>4
<1>7. Queued(slots', length') = [m \in 1..length |-> IF m = i + 1 THEN [q[m] EXCEPT !.state = s] ELSE q[m]]
  BY <1>2, <1>5 DEF Queued
<1>8. q[i + 1].state # "COMPLETE"
  BY <1>2, <1>4
<1> QED BY <1>3, <1>4, <1>6, <1>7, <1>8

LEMMA StepsImplement ==
  ASSUME IInv, [Next]_mq
  PROVE  [Fifo!Next]_(Read(data, slots, length))
<1>1. IInv'
  BY StepKeeps
<1>2. Read(data, slots, length) = Queued(slots, length)
  BY ReadAsPacked DEF IInv
<1>3. Read(data, slots, length)' = Queued(slots', length')
  <2>1. PICK d, s, n, c : d = data' /\ s = slots' /\ n = length' /\ c = curr'
    OBVIOUS
  <2>2. Good(d, s, n, c)
    BY <1>1, <2>1 DEF IInv
  <2>3. Read(d, s, n) = Queued(s, n)
    BY <2>2, ReadAsPacked
  <2> QED BY <2>1, <2>3
<1>4. ASSUME NEW text \in Texts, TryPack(text) PROVE Fifo!Add(text)
  <2>1. Len(text) \in Nat \ {0}
    BY TextsAssumption, EmptySeq, LenProperties
  <2>2. CASE Len(text) <= curr_sz /\ Register(text, data, slots, length, curr)
    <3>1. Fifo!Fits(Queued(slots, length), text)
      BY <2>2, FitsIsRoom DEF IInv
    <3>2. Queued(slots', length') = Append(Queued(slots, length), Fifo!New(text))
      BY <2>2, RegisterAppends DEF IInv
    <3> QED BY <1>2, <1>3, <3>1, <3>2 DEF Fifo!Add
  <2>3. CASE /\ Len(text) > curr_sz /\ Len(text) <= CleanedSz
             /\ Register(text, Moved, SlotsMoved, Left, CurrLeft)
    <3>1. curr_sz \in Nat
      BY <1>1, RoomIsNatural
    <3>2. ~Fifo!Fits(Queued(slots, length), text)
      BY <2>1, <2>3, <3>1, FitsIsRoom DEF IInv
    <3>3. CleanedSz = CurrSz(CurrLeft, Left)
      BY <2>1, <2>3, <3>1 DEF CleanedSz
    <3>4. Fifo!Fits(Queued(SlotsMoved, Left), text)
      BY <2>3, <3>3, CleanedGood, FitsIsRoom
    <3>5. Queued(slots', length') = Append(Queued(SlotsMoved, Left), Fifo!New(text))
      BY <2>3, <3>3, CleanedGood, RegisterAppends
    <3> QED BY <1>2, <1>3, <3>2, <3>4, <3>5, CleanedIsPending DEF Fifo!Add
  <2> QED BY <1>4, <2>2, <2>3 DEF TryPack
<1>5. ASSUME NEW text \in Texts, BufferIsFull(text) PROVE Fifo!Refuse(text)
  <2>1. Len(text) \in Nat \ {0} /\ curr_sz \in Nat
    BY TextsAssumption, EmptySeq, LenProperties, RoomIsNatural
  <2>2. ~(Len(text) <= curr_sz) /\ Len(text) > CleanedSz /\ Clean
    BY <1>5, <2>1 DEF BufferIsFull
  <2>3. ~Fifo!Fits(Fifo!Pending(Queued(slots, length)), text)
    <3>1. CASE Blocked
      <4>1. Read(data, slots, length)' = Queued(slots, length)
        BY <1>2, <2>2, <3>1, BlockedStays
      <4>2. Fifo!Pending(Queued(slots, length)) = Queued(slots, length)
        BY <1>2, <2>2, <4>1, CleanIsPending
      <4> QED BY <2>2, <4>2, FitsIsRoom DEF IInv
    <3>2. CASE ~Blocked
      <4>1. CleanedSz = CurrSz(CurrLeft, Left) /\ CleanedSz \in Nat
        BY <3>2, CleanedGood, CurrSzIsNatural DEF CleanedSz, Good
      <4>2. ~(Len(text) <= CurrSz(CurrLeft, Left))
        BY <2>1, <2>2, <4>1
      <4> QED BY <4>2, CleanedGood, CleanedIsPending, FitsIsRoom
    <3> QED BY <3>1, <3>2
  <2> QED BY <1>2, <2>2, <2>3, CleanIsPending DEF Fifo!Refuse
<1>6. ASSUME NEW i \in 0..(length - 1), NEW s \in {"AWAITING_ACK", "COMPLETE"}, SetState(i, s)
      PROVE  Fifo!Next
  <2>1. s \in States /\ States = Fifo!States
    BY DEF States, Fifo!States
  <2>2. i + 1 \in 1..Len(Queued(slots, length)) /\ Fifo!Mark(i + 1, s)
    BY <1>1, <1>2, <1>3, <1>6, <2>1, SetStateIsMark DEF Fifo!Mark
  <2> QED BY <1>2, <2>1, <2>2 DEF Fifo!Next
<1>7. ASSUME Clean PROVE Fifo!Clean
  BY <1>7, CleanIsPending DEF Fifo!Clean
<1>8. ASSUME Empty PROVE Fifo!Reset
  <2>1. length' = 0
    BY <1>8 DEF Empty
  <2>2. Queued(slots', length') = <<>>
    BY <2>1 DEF Queued
  <2> QED BY <1>3, <2>2 DEF Fifo!Reset
<1>9. CASE UNCHANGED mq
  BY <1>9 DEF mq, Read
<1> QED BY <1>4, <1>5, <1>6, <1>7, <1>8, <1>9 DEF Next, Fifo!Next

\* For every size of the buffer and of a descriptor and for all packets, the bytes and
\* descriptors behave as a bounded queue of messages: mqtt_mq_register puts one behind the
\* others, mqtt_mq_clean takes complete ones from the front, and a packet is refused only
\* where there is no room for it and its descriptor after that.
THEOREM QueueIsFifo == Spec => ImplementsFifo
<1>1. Init => Fifo!Init
  BY DEF Init, Fifo!Init, Read
<1>2. IInv /\ [Next]_mq => [Fifo!Next]_(Read(data, slots, length))
  BY StepsImplement
<1> QED BY <1>1, <1>2, Invariance, PTL DEF Spec, ImplementsFifo, Fifo!Spec

=============================================================================
