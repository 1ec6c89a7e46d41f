----------------------------- MODULE MessageQueue -----------------------------
(***************************************************************************)
(* The message queue of the MQTT client, mqtt_mq_*: one buffer that packed *)
(* packets fill from its start and their descriptors from its end.  All    *)
(* addresses are offsets into the buffer.  Every caller holds the client's *)
(* mutex, so that each operation is one step.                              *)
(***************************************************************************)
EXTENDS Integers, Sequences, FiniteSetsExt

CONSTANTS
  Bytes,    \* the values of a byte
  Texts,    \* the packets that are packed, nonempty sequences of bytes
  BufSz,    \* bytes of the buffer
  DescSz    \* sizeof(struct mqtt_queued_message)

ASSUME SizesAssumption == BufSz \in Nat /\ DescSz \in Nat \ {0} /\ Bytes # {}
ASSUME TextsAssumption == Texts \subseteq Seq(Bytes) \ {<<>>}

States == {"UNSENT", "AWAITING_ACK", "COMPLETE"}
Slots == {i \in 0..BufSz : DescSz * (i + 1) <= BufSz}   \* mqtt_mq_get(mq, i)
Descriptors == [start : Nat, size : Nat, state : States, packed : Seq(Bytes)]

VARIABLES
  data,     \* the bytes of the buffer, as far as packets are concerned
  slots,    \* the descriptors; packed is a HISTORY field, the text as packed
  length,   \* mqtt_mq_length: descriptors in use, queue_tail is the last
  curr,     \* where the next packet is packed
  curr_sz   \* bytes that can be written there
mq == <<data, slots, length, curr, curr_sz>>

\* MUTANT: the room for the next descriptor is not compared before it is
\* subtracted.
CurrSz_Unchecked(c, n) == BufSz - DescSz * (n + 1) - c

\* mqtt_mq_currsz: the descriptor of the next packet must fit in too.
CurrSz(c, n) == LET end == BufSz - DescSz * (n + 1)
                IN  IF c >= end THEN 0 ELSE end - c

\* mqtt_mq_init, on whatever bytes and descriptors the memory holds.
Empty == /\ length' = 0 /\ curr' = 0 /\ curr_sz' = CurrSz(0, 0)
         /\ UNCHANGED <<data, slots>>

Init ==
  /\ \E b \in Bytes : /\ data = [k \in 0..(BufSz - 1) |-> b]
                      /\ slots = [i \in Slots |-> [start |-> 0, size |-> 0,
                                    state |-> "COMPLETE", packed |-> <<>>]]
  /\ length = 0 /\ curr = 0 /\ curr_sz = CurrSz(0, 0)

\* A pack function writes its packet at c and mqtt_mq_register makes its
\* descriptor, over the memory d, s of a queue of n messages.
Register(text, d, s, n, c) ==
  /\ data' = [k \in DOMAIN d |-> IF k \in c..(c + Len(text) - 1) THEN text[k - c + 1] ELSE d[k]]
  /\ slots' = [s EXCEPT ![n] = [start |-> c, size |-> Len(text), state |-> "UNSENT",
                                packed |-> text]]
  /\ length' = n + 1 /\ curr' = c + Len(text)
  /\ curr_sz' = CurrSz(c + Len(text), n + 1)

\* mqtt_mq_clean: the oldest message that is not complete, or length if all are.
Open == {i \in 0..(length - 1) : slots[i].state # "COMPLETE"}

\* MUTANT: the queue is cut after the newest complete message.
NewHead_AnyComplete == IF Open = {} THEN length ELSE Max(Open)
NewHead == IF Open = {} THEN length ELSE Min(Open)
Blocked == Open # {} /\ NewHead = 0

\* The memory after it: the bytes from the new head on move to the start, their
\* descriptors to the end, and forget the bytes that were removed.
Removing == IF Open = {} THEN curr ELSE slots[NewHead].start
Left == length - NewHead
CurrLeft == curr - Removing

\* MUTANT: one byte too few is moved.
Moved_Short == [k \in DOMAIN data |->
                  IF k < CurrLeft - 1 THEN data[Removing + k] ELSE data[k]]
Moved == [k \in DOMAIN data |-> IF k < CurrLeft THEN data[Removing + k] ELSE data[k]]

\* MUTANT: the starts still point to where the packets were.
SlotsMoved_NotBumped == [i \in Slots |-> IF i < Left THEN slots[NewHead + i] ELSE slots[i]]
SlotsMoved == [i \in Slots |-> IF i < Left
                THEN [slots[NewHead + i] EXCEPT !.start = @ - Removing] ELSE slots[i]]

Clean == \/ Blocked /\ UNCHANGED mq
         \/ /\ ~Blocked
            /\ data' = Moved /\ slots' = SlotsMoved /\ length' = Left
            /\ curr' = CurrLeft /\ curr_sz' = CurrSz(CurrLeft, Left)
CleanedSz == IF Blocked THEN curr_sz ELSE CurrSz(CurrLeft, Left)

\* MQTT_CLIENT_TRY_PACK: pack, or clean and pack, ...
TryPack(text) ==
  \/ Len(text) <= curr_sz /\ Register(text, data, slots, length, curr)
  \/ /\ Len(text) > curr_sz /\ Len(text) <= CleanedSz
     /\ Register(text, Moved, SlotsMoved, Left, CurrLeft)

\* ... or report that the buffer is full, after the queue was cleaned.
BufferIsFull(text) == Len(text) > curr_sz /\ Len(text) > CleanedSz /\ Clean

\* __mqtt_send and __mqtt_recv change the state of any message, which never
\* comes back from COMPLETE.
SetState(i, s) == /\ slots[i].state # "COMPLETE"
                  /\ slots' = [slots EXCEPT ![i].state = s]
                  /\ UNCHANGED <<data, length, curr, curr_sz>>

Next == \/ \E text \in Texts : TryPack(text) \/ BufferIsFull(text)
        \/ \E i \in 0..(length - 1), s \in {"AWAITING_ACK", "COMPLETE"} : SetState(i, s)
        \/ Clean \/ Empty

Spec == Init /\ [][Next]_mq
-----------------------------------------------------------------------------
(* Properties. *)

\* Type invariant.
TypeOK == /\ data \in [0..(BufSz - 1) -> Bytes]
          /\ slots \in [Slots -> Descriptors]
          /\ length \in Nat /\ \A i \in 0..(length - 1) : i \in Slots
          /\ curr \in Nat /\ curr_sz \in Nat

\* The packets lie one behind the other from the start of the buffer up to curr,
\* none reaches the descriptors, and curr_sz is what mqtt_mq_currsz says of the
\* queue as it is, also after messages were moved.
Layout ==
  /\ \A i \in 0..(length - 1) :
       slots[i].start = IF i = 0 THEN 0 ELSE slots[i - 1].start + slots[i - 1].size
  /\ curr = IF length = 0 THEN 0 ELSE slots[length - 1].start + slots[length - 1].size
  /\ curr + DescSz * length <= BufSz
  /\ curr_sz = CurrSz(curr, length)

\* Each descriptor leads to the bytes that were packed for it, however often the
\* queue was cleaned in between.
BytesKept ==
  \A i \in 0..(length - 1) :
    /\ slots[i].size = Len(slots[i].packed)
    /\ \A k \in 1..slots[i].size : data[slots[i].start + k - 1] = slots[i].packed[k]

\* The n messages that the descriptors s find in the bytes d ...
Read(d, s, n) ==
  [m \in 1..n |-> [text |-> [k \in 1..s[m - 1].size |-> d[s[m - 1].start + k - 1]],
                  state |-> s[m - 1].state]]

\* ... are the queue that MessageFifo specifies.
Fifo == INSTANCE MessageFifo WITH queue <- Read(data, slots, length)
ImplementsFifo == Fifo!Spec
=============================================================================
