----------------------------- MODULE MessageFifo -----------------------------
(***************************************************************************)
(* What the message queue of the MQTT client promises (mqtt.h:905-1066): a *)
(* queue of bounded size whose messages keep their bytes and leave from    *)
(* the front, and only when they are complete.                             *)
(***************************************************************************)
EXTENDS Integers, SequencesExt

CONSTANTS
  Texts,    \* the packets that are packed, sequences of bytes
  BufSz,    \* bytes of the buffer
  DescSz    \* bytes a queued message takes beyond its packet

States == {"UNSENT", "AWAITING_ACK", "COMPLETE"}

VARIABLE queue

\* The queue without the complete messages at its front.
Pending(q) == LET open == {i \in 1..Len(q) : q[i].state # "COMPLETE"}
              IN  IF open = {} THEN <<>> ELSE SubSeq(q, Min(open), Len(q))

\* The bytes of all packets: end[n] is where the n-th one ends.
Occupied(q) == LET end[n \in 0..Len(q)] == IF n = 0 THEN 0 ELSE end[n - 1] + Len(q[n].text)
               IN  end[Len(q)]

Fits(q, text) == Occupied(q) + Len(text) + DescSz * (Len(q) + 1) <= BufSz

New(text) == [text |-> text, state |-> "UNSENT"]

Init == queue = <<>>

\* A message goes behind the others; the front is given up only when there is no
\* room without it.
Add(text) == \/ Fits(queue, text) /\ queue' = Append(queue, New(text))
             \/ /\ ~Fits(queue, text) /\ Fits(Pending(queue), text)
                /\ queue' = Append(Pending(queue), New(text))

Refuse(text) == ~Fits(Pending(queue), text) /\ queue' = Pending(queue)

\* COMPLETE is final.
Mark(i, s) == queue[i].state # "COMPLETE" /\ queue' = [queue EXCEPT ![i].state = s]

Clean == queue' = Pending(queue)

Reset == queue' = <<>>

Next == \/ \E text \in Texts : Add(text) \/ Refuse(text)
        \/ \E i \in 1..Len(queue), s \in States : Mark(i, s)
        \/ Clean \/ Reset

Spec == Init /\ [][Next]_queue

=============================================================================
