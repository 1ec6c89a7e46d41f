---------------------------- MODULE MCMqttStream ----------------------------
(***************************************************************************)
(* Packets and requests for the model checker.  With LengthBase = 3 a      *)
(* remaining length has one digit up to 2, two up to 8, three up to 26 and *)
(* four up to 80; with WordBase = 16 an identifier of 18 takes both bytes. *)
(***************************************************************************)
EXTENDS MqttStream

Publish(topic, qos, id, message) ==
  [type |-> "PUBLISH", dup |-> qos = 2, qos |-> qos, retain |-> qos = 1, topic |-> topic,
   id |-> id, message |-> message]

MCIncoming ==
  {[type |-> "CONNACK", session |-> 0, code |-> 0],
   Publish(<<7, 8>>, 0, 0, <<>>), Publish(<<7>>, 1, 18, <<5>>), Publish(<<7>>, 2, 3, <<5, 6, 7, 8>>),
   Publish(<<7>>, 0, 0, <<5, 6, 7, 8, 9, 10, 11>>),      \* fills the buffer: 14 bytes
   Publish(<<7>>, 0, 0, <<5, 6, 7, 8, 9, 10, 11, 12>>),  \* one byte more
   Publish(<<7>>, 0, 0, <<>>),                           \* refused, for its three bytes
   [type |-> "PUBREL", id |-> 18],
   [type |-> "SUBACK", id |-> 3, codes |-> <<0, 128>>],
   [type |-> "UNSUBACK", id |-> 17],
   [type |-> "PINGRESP"]}

\* A type of its own, flags that a PUBACK has not, a length of more than four
\* bytes, a packet for brokers, and codes that a CONNACK has not.
MCStrays ==
  {<<0, 0>>, <<65, 2, 0, 1>>, <<48, 3, 3, 3, 3>>, <<192, 0>>, <<32, 2, 0, 6>>, <<32, 2, 2, 0>>}

Topics(n) == [i \in 1..n |-> [name |-> [j \in 1..i |-> 97], qos |-> i % 3]]

Connects ==
  [type : {"CONNECT"}, client : {<<>>, <<99>>}, clean : BOOLEAN,
   will : {<<>>, <<[topic |-> <<116, 117>>, message |-> <<>>]>>,
           <<[topic |-> <<116>>, message |-> <<<<109, 110>>>>]>>},
   willQos : {0, 2, 3}, willRetain : BOOLEAN, user : {<<>>, <<<<117>>>>},
   password : {<<>>, <<<<112, 113>>>>}, keepAlive : {18}]

Publishes ==
  [type : {"PUBLISH"}, topic : {<<116>>, [j \in 1..17 |-> 116]}, id : {18}, qos : 0..3,
   dup : BOOLEAN, retain : BOOLEAN,
   message : {<<>>, <<109>>, [j \in 1..60 |-> 109], [j \in 1..90 |-> 109]}]

MCRequests ==
  Connects \cup Publishes
    \cup [type : {"PUBACK", "PUBREC", "PUBREL", "PUBCOMP"}, id : {3, 18}]
    \cup {[type |-> "SUBSCRIBE", id |-> 18, topics |-> Topics(n)] : n \in 1..3}
    \cup {[type |-> "UNSUBSCRIBE", id |-> 18,
           topics |-> [i \in 1..n |-> [j \in 1..(8 * i) |-> 97]]] : n \in 1..3}
    \cup {[type |-> t] : t \in {"PINGREQ", "DISCONNECT"}}

MCRooms == {0, 1, 2, 4, 13, 14, 28, 100}

=============================================================================
