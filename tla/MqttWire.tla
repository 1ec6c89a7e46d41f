------------------------------ MODULE MqttWire ------------------------------
(***************************************************************************)
(* The TCP connection between an MQTT client and its broker, as the client *)
(* sees it through mqtt_pal_sendall and mqtt_pal_recvall: two sequences of *)
(* packets that keep their order, of which the one to the broker takes     *)
(* only so much before a write would block.                                *)
(***************************************************************************)
EXTENDS Integers, SequencesExt, FiniteSetsExt

CONSTANTS
  NPids,      \* packet identifiers are 1..NPids, in the code 2^16 - 1 of them
  NetCap,     \* packets the socket to the broker holds
  Partial     \* the build's sendall may stop halfway (mbedTLS), or never (unix)

ASSUME WireAssumption == NPids \in Nat \ {0} /\ NetCap \in Nat \ {0} /\ Partial \in BOOLEAN

Pids == 1..NPids
None == 0               \* the identifier of a packet that has none

Packet(type, qos, pid, val) == [type |-> type, qos |-> qos, pid |-> pid, val |-> val]
Simple(type, pid) == Packet(type, 0, pid, 0)

Garbled == Simple("GARBLED", None)   \* bytes that are not one packet

VARIABLES
  toBroker, toClient,   \* packets in each direction, oldest first
  up,                   \* the connection is there
  cut                   \* << >>, or the packet of which half was written last
wire == <<toBroker, toClient, up, cut>>

WireInit == toBroker = <<>> /\ toClient = <<>> /\ up = TRUE /\ cut = <<>>

\* The rest of p, from the given half on, follows what was written before.
Framed(p, offset) == IF offset = 0 THEN cut = <<>> ELSE cut = <<p>>

\* mqtt_pal_sendall writes all of p from offset on.  A connection the peer has
\* closed takes the bytes and loses them.
SendAll(p, offset) ==
  /\ Len(toBroker) < NetCap
  /\ cut' = <<>>
  /\ toBroker' = IF up THEN Append(toBroker, IF Framed(p, offset) THEN p ELSE Garbled)
                 ELSE toBroker
  /\ UNCHANGED <<toClient, up>>

\* It stops before the end: half of p is written, or nothing was.
SendPart(p, offset, reached) ==
  /\ Partial
  /\ IF reached = offset THEN UNCHANGED <<toBroker, cut>>
     ELSE /\ cut' = <<p>>
          /\ toBroker' = IF up /\ ~Framed(p, offset) THEN Append(toBroker, Garbled) ELSE toBroker
  /\ UNCHANGED <<toClient, up>>

\* It fails: on a closed connection, and in the unix build on a full socket too.
SendFails == (~up \/ (~Partial /\ Len(toBroker) >= NetCap)) /\ UNCHANGED wire

\* A connection of its own takes the place of this one.
NewConnection == toBroker' = <<>> /\ toClient' = <<>> /\ up' = TRUE /\ cut' = <<>>

\* The connection breaks: what the broker has not read is lost, and the end of
\* what the client has not.
Break == /\ up /\ up' = FALSE
         /\ toBroker' = <<>> /\ UNCHANGED cut
         /\ \E n \in 0..Len(toClient) : toClient' = SubSeq(toClient, 1, n)

=============================================================================
