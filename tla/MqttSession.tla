----------------------------- MODULE MqttSession -----------------------------
(***************************************************************************)
(* One MQTT client and its broker over one connection.                     *)
(***************************************************************************)
EXTENDS MqttClient, MqttBroker

CONSTANT Breaks     \* the connection may break

vars == <<client, broker, wire>>

Init == ClientInit /\ BrokerInit /\ WireInit

Next == \/ ClientNext /\ UNCHANGED broker
        \/ Reconnect /\ CleanSession
        \/ BrokerNext /\ UNCHANGED client
        \/ Breaks /\ Break /\ UNCHANGED <<client, broker>>

Spec == Init /\ [][Next]_vars

\* What the client's thread does.
ClientTurn == \/ (Connect \/ SyncStep) /\ UNCHANGED <<reconnects, broker>>
              \/ Reconnect /\ CleanSession

\* The client's thread calls mqtt_sync for ever, and the broker reads what arrives.
FairSpec == /\ Spec
            /\ WF_vars(ClientTurn)
            /\ WF_vars(BrokerReceives /\ UNCHANGED client)
-----------------------------------------------------------------------------
(* Properties. *)

Types == {"CONNECT", "PUBLISH", "PUBACK", "PUBREC", "PUBREL", "PUBCOMP", "SUBSCRIBE",
          "UNSUBSCRIBE", "PINGREQ", "DISCONNECT"}
Errors == {"OK", "CONNECT_NOT_CALLED", "INITIAL_RECONNECT", "SEND_BUFFER_IS_FULL", "ACK_OF_UNKNOWN",
           "CONNECTION_REFUSED", "SUBSCRIBE_FAILED", "SOCKET_ERROR"}
Messages == [packet : [type : Types, qos : 0..2, pid : Pids \cup {None}, val : Nat],
             state : States, age : 0..TimedOut]

\* Type invariant of the client.
TypeOK ==
  /\ mq \in Seq(Messages) /\ Len(mq) <= QueueCap /\ error \in Errors
  /\ lfsr \in 0..NPids /\ offset \in 0..1 /\ quiet \in 0..KeepAlive
  /\ pc \in {"connect", "idle", "reconnected", "recv", "between", "send"}
  /\ i \in Nat \ {0} /\ inflight \in BOOLEAN
  /\ drawn \in [Threads -> {"no", "read", "written"} \X (0..NPids)]
  /\ reconnects \in BOOLEAN /\ calls \in Nat /\ ticks \in Nat

\* Of the QoS 2 publishes in the queue at most the oldest that is not complete has
\* been sent: mqtt.c:504-515, through every timeout and every cleaning of the queue.
OneInflightQos2 ==
  \A j, k \in DOMAIN mq :
    (j < k /\ IsQos2(mq[j]) /\ IsQos2(mq[k]) /\ mq[j].state # "COMPLETE") => mq[k].state = "UNSENT"

Drawing == {"PUBLISH", "SUBSCRIBE", "UNSUBSCRIBE"}

\* No two packets in the queue that wait for an answer by their identifier have
\* the same one (__mqtt_next_pid), and a PUBREL that is still there keeps the
\* identifier of its exchange from being drawn.
PidsUnique ==
  \A j, k \in DOMAIN mq :
    (/\ j # k /\ mq[j].packet.pid = mq[k].packet.pid /\ mq[j].packet.type \in Drawing)
      => /\ mq[k].packet.type \notin Drawing
         /\ mq[k].packet.type = "PUBREL" => mq[j].state = "COMPLETE"

\* Of the publishes of s with one quality of service each has come once, in the
\* order of their vals; or may come again, but none for the first time after a later one.
InOrder(s, qos) ==
  \A j, k \in DOMAIN s : (j < k /\ s[j].qos = qos /\ s[k].qos = qos) => s[j].val < s[k].val
FirstsInOrder(s, qos) ==
  \A j, k \in DOMAIN s : (j < k /\ s[j].qos = qos /\ s[k].qos = qos /\ s[k].val < s[j].val)
                           => \E n \in 1..(j - 1) : s[n].val = s[k].val

\* The broker takes over every QoS 2 publish of the client at most once and in the
\* order of the calls, though packets are sent again after a timeout; QoS 1 may
\* repeat, but a publish that comes for the first time is never overtaken.
OrderedAtBroker == InOrder(got, 2) /\ InOrder(got, 0) /\ FirstsInOrder(got, 1)

\* A publish of QoS 1 that the client has completed is at the broker; one of QoS 2
\* is held there until its PUBREL, and was taken over when that is complete.
CompleteIsReceived ==
  \A k \in DOMAIN mq :
    LET p == mq[k].packet
        taken == \E j \in DOMAIN got : got[j].val = p.val
    IN  mq[k].state = "COMPLETE" =>
          /\ (p.type = "PUBLISH" /\ p.qos = 1) => taken
          /\ IsQos2(mq[k]) => taken \/ \E h \in held : h.val = p.val
          /\ p.type = "PUBREL" => taken

\* While the client is in order no QoS 2 publish is stranded at the broker: for each
\* that is held there, the queue has its PUBLISH or its PUBREL still to be answered.
HeldIsFinished ==
  error = "OK" => \A h \in held : \E k \in DOMAIN mq :
                     mq[k].packet.val = h.val /\ mq[k].state # "COMPLETE"

\* publish_response_callback gets no QoS 2 publish twice, however often the broker
\* repeats it, ...
PassedOnce == \A j, k \in DOMAIN delivered :
                (j # k /\ delivered[j].qos = 2 /\ delivered[k].qos = 2) => delivered[j].val # delivered[k].val

\* ... which is a part of this: it gets the publishes of QoS 2 and of QoS 0 in the
\* order in which the broker sent them first.  That is so as long as the broker sends
\* no other publish behind one with an identifier whose PUBREC the client still has:
\* such a one is dropped, and may come late when it is repeated.
PassedInOrder == InOrder(delivered, 2) /\ InOrder(delivered, 0)

\* The broker's publish v is passed on or under way.
Arrives(v) == \/ \E k \in DOMAIN delivered : delivered[k].val = v
              \/ \E k \in DOMAIN toClient : toClient[k].type = "PUBLISH" /\ toClient[k].val = v

\* Every publish of the broker is, unless the client has met an error: "All the
\* publishes received from the broker will be passed to this function."
\* (mqtt.h:1143-1144)  It is not so: a PUBREC that is complete but not cleaned from
\* the queue hides the next publish with its identifier.
PassedOn == (error = "OK" /\ up) => \A v \in 1..published : Arrives(v)

\* No publish is missing for another reason, whatever else is repeated, answered late
\* or cleaned from the queue: under the identifier of a missing one (the broker's v-th
\* has 1 + (v - 1) % BrokerPids) an earlier publish of QoS 2 was passed on.
LostByReuse ==
  (error = "OK" /\ up) =>
    \A v \in 1..published :
      \/ Arrives(v)
      \/ \E k \in DOMAIN delivered :
           /\ delivered[k].qos = 2 /\ delivered[k].val < v
           /\ delivered[k].pid = 1 + ((v - 1) % BrokerPids)

\* What reaches the broker are whole packets: send_offset belongs to the packet of
\* which a part was sent. "This is used to allow partial send commands."
\* (mqtt.h:1095)
WholePackets == \A k \in DOMAIN toBroker : toBroker[k] # Garbled

\* A broker that answers each packet once is not taken for one that answers what
\* was never sent: "error should be MQTT_OK for the entirety of the connection."
\* (mqtt.h:1111)
AnswersAreKnown == error # "ACK_OF_UNKNOWN"

\* A publish in the queue is taken over by the broker, unless an error or the
\* end of the connection comes first: also the QoS 2 publishes that wait for one another.
PublishArrives ==
  \A v \in 1..MaxCalls :
    (error = "OK" /\ \E k \in DOMAIN mq : mq[k].packet.type = "PUBLISH" /\ mq[k].packet.val = v)
      ~> (error # "OK" \/ ~up \/ \E k \in DOMAIN got : got[k].val = v)

\* A client with a callback is connected again after every error: "allows the client
\* to automatically reconnect to the broker after an error occurs" (mqtt.h:1324).
Reconnected == reconnects /\ error # "OK" ~> error = "OK" /\ accepted

=============================================================================
