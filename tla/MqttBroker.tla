----------------------------- MODULE MqttBroker -----------------------------
(***************************************************************************)
(* A broker as MQTT 3.1.1 lets it be: it answers every packet of the       *)
(* client, keeps a QoS 2 publish until its PUBREL, and publishes to the    *)
(* client with identifiers of its own.  It is not part of the repository.  *)
(***************************************************************************)
EXTENDS MqttWire

CONSTANTS
  OutQos,       \* qualities of service at which the broker publishes
  BrokerPids,   \* the broker numbers its publishes in rotation 1..BrokerPids
  Refuses,      \* the broker may refuse a connection or a subscription
  MaxOut,       \* BOUND on its publishes
  MaxResends    \* BOUND on how often it repeats an unanswered packet

ASSUME BrokerAssumption == /\ OutQos \subseteq 0..2 /\ BrokerPids \in Pids
                           /\ Refuses \in BOOLEAN /\ MaxOut \in Nat /\ MaxResends \in Nat

VARIABLES
  accepted,   \* a CONNECT was accepted on this connection
  held,       \* QoS 2 publishes received and not yet released
  got,        \* HISTORY: publishes the broker has taken over, in order
  pending,    \* its own packets that wait for an answer, at most one per identifier
  published,  \* number of its publishes
  resends     \* number of repetitions
broker == <<accepted, held, got, pending, published, resends>>

BrokerInit == accepted = FALSE /\ held = {} /\ got = <<>> /\ pending = {} /\ published = 0 /\ resends = 0

Reply(p) == toClient' = Append(toClient, p)
Quiet == UNCHANGED toClient
NotPending(pid, types) == {p \in pending : ~(p.pid = pid /\ p.type \in types)}

Close == up' = FALSE /\ Quiet /\ UNCHANGED <<accepted, held, got, pending>>

Verdicts == IF Refuses THEN {0, 1} ELSE {0}

OnConnect == /\ ~accepted /\ accepted' = TRUE
             /\ \E v \in Verdicts : Reply(Packet("CONNACK", 0, None, v))
             /\ UNCHANGED <<held, got, pending, up>>

OnPublish(p) ==
  \/ p.qos = 0 /\ Quiet /\ got' = Append(got, p) /\ UNCHANGED held
  \/ p.qos = 1 /\ Reply(Simple("PUBACK", p.pid)) /\ got' = Append(got, p) /\ UNCHANGED held
  \/ /\ p.qos = 2 /\ Reply(Simple("PUBREC", p.pid)) /\ UNCHANGED got
     /\ held' = IF \E h \in held : h.pid = p.pid THEN held ELSE held \cup {p}

\* The one publish that is held under the identifier, if any, is taken over.
OnPubrel(p) == /\ Reply(Simple("PUBCOMP", p.pid))
               /\ held' = {h \in held : h.pid # p.pid}
               /\ \/ held' = held /\ UNCHANGED got
                  \/ \E h \in held \ held' : got' = Append(got, h)

OnRequest(p) ==
  /\ \/ p.type = "SUBSCRIBE" /\ \E v \in Verdicts : Reply(Packet("SUBACK", 0, p.pid, v))
     \/ p.type = "UNSUBSCRIBE" /\ Reply(Simple("UNSUBACK", p.pid))
     \/ p.type = "PINGREQ" /\ Reply(Simple("PINGRESP", None))
  /\ UNCHANGED <<held, got>>

OnAnswer(p) ==
  \/ p.type = "PUBACK" /\ Quiet /\ pending' = NotPending(p.pid, {"PUBLISH"})
  \/ p.type = "PUBCOMP" /\ Quiet /\ pending' = NotPending(p.pid, {"PUBREL"})
  \/ /\ p.type = "PUBREC" /\ Reply(Simple("PUBREL", p.pid))
     /\ pending' = NotPending(p.pid, {"PUBLISH", "PUBREL"}) \cup {Simple("PUBREL", p.pid)}

\* Anything out of order ends the connection.
BrokerReceives ==
  /\ up /\ toBroker # <<>> /\ toBroker' = Tail(toBroker)
  /\ UNCHANGED <<published, resends, cut>>
  /\ LET p == Head(toBroker)
     IN  IF p.type = "CONNECT" /\ ~accepted THEN OnConnect
         ELSE IF ~accepted \/ p.type \in {"CONNECT", "DISCONNECT", "GARBLED"} THEN Close
         ELSE /\ UNCHANGED <<accepted, up>>
              /\ \/ p.type = "PUBLISH" /\ OnPublish(p) /\ UNCHANGED pending
                 \/ p.type = "PUBREL" /\ OnPubrel(p) /\ UNCHANGED pending
                 \/ OnRequest(p) /\ UNCHANGED pending
                 \/ OnAnswer(p) /\ UNCHANGED <<held, got>>

\* An identifier may be used again as soon as its last exchange is over.
BrokerPublishes(qos) ==
  /\ up /\ accepted /\ published < MaxOut /\ published' = published + 1
  /\ LET pid == IF qos = 0 THEN None ELSE 1 + (published % BrokerPids)
         p == Packet("PUBLISH", qos, pid, published')
     IN  /\ \A x \in pending : x.pid # pid
         /\ pending' = IF qos = 0 THEN pending ELSE pending \cup {p}
         /\ Reply(p)
  /\ UNCHANGED <<accepted, held, got, resends, toBroker, up, cut>>

BrokerResends ==
  /\ up /\ resends < MaxResends /\ resends' = resends + 1
  /\ \E p \in pending : Reply(p)
  /\ UNCHANGED <<accepted, held, got, pending, published, toBroker, up, cut>>

\* A new connection with a clean session: what was open is forgotten.
CleanSession == /\ accepted' = FALSE /\ held' = {} /\ pending' = {}
                /\ UNCHANGED <<got, published, resends>>

BrokerNext == BrokerReceives \/ BrokerResends \/ \E qos \in OutQos : BrokerPublishes(qos)

=============================================================================
