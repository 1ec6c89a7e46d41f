---------------------------- MODULE PacketStream ----------------------------
(***************************************************************************)
(* What the receiving side of the client promises: the packets that the    *)
(* broker sends reach the client whole, once and in order, up to the first *)
(* one that it cannot read, at which it stops for good.                    *)
(***************************************************************************)
EXTENDS Naturals, Sequences

CONSTANTS
  Sendable,    \* packets that the broker may send
  Unreadable   \* those that the client refuses

VARIABLES
  sent,    \* packets sent, in order
  got,     \* packets received, in order
  failed   \* the client has stopped

vars == <<sent, got, failed>>

Init == sent = <<>> /\ got = <<>> /\ failed = FALSE

Coming == sent[Len(got) + 1]

Send(p) == sent' = Append(sent, p) /\ UNCHANGED <<got, failed>>

Pass ==
  /\ ~failed /\ Len(got) < Len(sent) /\ Coming \notin Unreadable
  /\ got' = Append(got, Coming) /\ UNCHANGED <<sent, failed>>

Refuse ==
  /\ ~failed /\ Len(got) < Len(sent) /\ Coming \in Unreadable
  /\ failed' = TRUE /\ UNCHANGED <<sent, got>>

Next == (\E p \in Sendable : Send(p)) \/ Pass \/ Refuse

Spec == Init /\ [][Next]_vars

=============================================================================
