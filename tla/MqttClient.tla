----------------------------- MODULE MqttClient -----------------------------
(***************************************************************************)
(* The MQTT client of mqtt.c: the calls of the application, which put      *)
(* packets into the message queue, and mqtt_sync, which one thread runs    *)
(* again and again: __mqtt_recv answers what has arrived, __mqtt_send      *)
(* writes what is due.  Each of them holds client->mutex throughout, so    *)
(* that calls come before, between or after the two.  The queue here is a  *)
(* sequence of messages, as MessageFifo specifies it and MessageQueue      *)
(* shows of mqtt_mq_*, with a capacity in messages instead of bytes.       *)
(***************************************************************************)
EXTENDS MqttWire

CONSTANTS
  QueueCap,     \* messages the send buffer holds
  KeepAlive,    \* half response timeouts until a keep-alive ping is due
  Calls,        \* the calls the application makes: their types, with the QoS of a publish
  Threads,      \* threads that call mqtt_unsubscribe
  OldLfsr,      \* what the memory may hold where mqtt_init_reconnect leaves pid_lfsr
  MayReconnect, \* whether clients have a reconnect callback: a set of BOOLEANs
  MaxCalls,     \* BOUND on the calls
  MaxTicks      \* BOUND on the passing of time

ASSUME ClientAssumption == /\ QueueCap \in Nat \ {0} /\ QueueCap < NPids
                           /\ KeepAlive \in Nat \ {0} /\ MaxCalls \in Nat /\ MaxTicks \in Nat
                           /\ 0 \notin Threads /\ MayReconnect \subseteq BOOLEAN
                           /\ OldLfsr \subseteq 0..NPids
                           /\ Calls \subseteq {"PUBLISH", "SUBSCRIBE", "PINGREQ", "DISCONNECT"} \X (0..2)

VARIABLES
  mq,          \* client->mq: messages, [packet |->, state |->, age |->], oldest first
  error,       \* client->error
  lfsr,        \* client->pid_lfsr, the identifier drawn last
  offset,      \* client->send_offset: 0, or 1 when half of a packet is written
  quiet,       \* half timeouts since client->time_of_last_send
  pc,          \* "connect": mqtt_init has locked the mutex; "idle": outside mqtt_sync,
               \* "reconnected": mqtt_sync before __mqtt_recv, the callback has connected,
               \* "recv", "send": in __mqtt_recv or __mqtt_send; "between" the two
  i,           \* __mqtt_send: the loop's message
  inflight,    \* __mqtt_send: inflight_qos2
  drawn,       \* thread -> what mqtt_unsubscribe has of its identifier
  reconnects,  \* client->reconnect_callback is set, by mqtt_init_reconnect
  delivered,   \* HISTORY: packets passed to publish_response_callback
  calls,       \* number of calls
  ticks        \* number of half timeouts
client == <<mq, error, lfsr, offset, quiet, pc, i, inflight, drawn, reconnects,
            delivered, calls, ticks>>

States == {"UNSENT", "AWAITING_ACK", "COMPLETE"}
TimedOut == 2            \* the age of a message whose answer is overdue
Idle == <<"no", 0>>      \* of drawn: mqtt_unsubscribe is not running

\* mqtt_init, whose lock mqtt_connect releases, or mqtt_init_reconnect, which leaves
\* pid_lfsr what the memory held.  Both do so with time_of_last_send.
ClientInit ==
  /\ mq = <<>> /\ offset = 0 /\ quiet \in 0..KeepAlive
  /\ reconnects \in MayReconnect
  /\ IF reconnects THEN error = "INITIAL_RECONNECT" /\ pc = "idle" /\ lfsr \in OldLfsr
                   ELSE error = "CONNECT_NOT_CALLED" /\ pc = "connect" /\ lfsr = 0
  /\ i = 1 /\ inflight = FALSE
  /\ drawn = [t \in Threads |-> Idle]
  /\ delivered = <<>> /\ calls = 0 /\ ticks = 0

-----------------------------------------------------------------------------
(* The queue. *)

New(p) == [packet |-> p, state |-> "UNSENT", age |-> 0]

\* mqtt_mq_clean
Cleaned(q) == LET open == {k \in DOMAIN q : q[k].state # "COMPLETE"}
              IN  IF open = {} THEN <<>> ELSE SubSeq(q, Min(open), Len(q))

\* MUTANT: the identifier is not compared.
Find_AnyPid(type, pid) ==
  {k \in DOMAIN mq : mq[k].packet.type = type /\ (pid = None => mq[k].state # "COMPLETE")}

\* mqtt_mq_find: the messages of a type with this identifier, complete or not;
\* without an identifier those that are not complete.
Find(type, pid) ==
  {k \in DOMAIN mq : /\ mq[k].packet.type = type
                     /\ IF pid = None THEN mq[k].state # "COMPLETE" ELSE mq[k].packet.pid = pid}

Release(k) == [mq EXCEPT ![k].state = "COMPLETE"]

\* MQTT_CLIENT_TRY_PACK on the queue q: nothing after an error; otherwise the
\* packet goes in, at need after the queue is cleaned, or the buffer is full.
TryPack(q, p) ==
  \/ error # "OK" /\ mq' = q /\ UNCHANGED error
  \/ error = "OK" /\ Len(q) < QueueCap /\ mq' = Append(q, New(p)) /\ UNCHANGED error
  \/ /\ error = "OK" /\ Len(q) >= QueueCap
     /\ IF Len(Cleaned(q)) < QueueCap
        THEN mq' = Append(Cleaned(q), New(p)) /\ UNCHANGED error
        ELSE mq' = Cleaned(q) /\ error' = "SEND_BUFFER_IS_FULL"

-----------------------------------------------------------------------------
(* Packet identifiers. *)

Used == {mq[k].packet.pid : k \in DOMAIN mq}

\* The field is never set for a packet without identifier: it has what the memory
\* held before, so that the search may skip one more identifier for each of those.
Leftovers == {g \in SUBSET Pids :
                Cardinality(g) <= Cardinality({k \in DOMAIN mq : mq[k].packet.pid = None})}

\* MUTANT: the queue is not searched.
Following_Unchecked(last, used) == IF last < NPids THEN last + 1 ELSE 1

\* MUTANT: the register does not come round.
Following_NoWrap(last, used) == last + 1

\* The identifiers in the order of the shift register, of which __mqtt_next_pid
\* takes the first that no message of the queue has.
Following(last, used) == LET free == Pids \ used
                         IN  Min(IF \E p \in free : p > last THEN {p \in free : p > last} ELSE free)

NextPid(last) == {Following(last, Used \cup g) : g \in Leftovers}

-----------------------------------------------------------------------------
(* Calls of the application. *)

\* The mutex is free, and the queue has its buffer (mqtt_init_reconnect gives it none:
\* no call is made before the first mqtt_sync).
Unlocked == pc \in {"idle", "reconnected", "between"} /\ error # "INITIAL_RECONNECT"

Called == calls < MaxCalls /\ calls' = calls + 1

\* mqtt_connect, called after mqtt_init, whose lock it releases.
Connect == /\ pc = "connect" /\ pc' = "idle"
           /\ error' = "OK" /\ mq' = <<New(Simple("CONNECT", None))>>
           /\ UNCHANGED <<lfsr, offset, quiet, i, inflight, drawn, delivered, calls, ticks, wire>>

\* mqtt_publish and mqtt_subscribe draw an identifier for their packet, also when
\* the packet is then refused; mqtt_ping and mqtt_disconnect need none.
Draws(type) == type \in {"PUBLISH", "SUBSCRIBE"}

Call(type, qos) ==
  /\ Unlocked /\ Called
  /\ \/ /\ Draws(type)
        /\ lfsr' \in NextPid(lfsr)
        /\ TryPack(mq, Packet(type, qos, lfsr', calls'))
     \/ ~Draws(type) /\ UNCHANGED lfsr /\ TryPack(mq, Simple(type, None))
  /\ UNCHANGED <<offset, quiet, pc, i, inflight, drawn, delivered, ticks, wire>>

\* mqtt_unsubscribe calls __mqtt_next_pid before it locks the mutex: between its
\* read of pid_lfsr and of the queue and its write other threads may draw.
UnsubscribeReads(t) ==
  /\ pc # "connect" /\ error # "INITIAL_RECONNECT" /\ drawn[t] = Idle /\ Called
  /\ \E pid \in NextPid(lfsr) : drawn' = [drawn EXCEPT ![t] = <<"read", pid>>]
  /\ UNCHANGED <<mq, error, lfsr, offset, quiet, pc, i, inflight, delivered, ticks, wire>>

UnsubscribeWrites(t) ==
  /\ drawn[t][1] = "read" /\ lfsr' = drawn[t][2]
  /\ drawn' = [drawn EXCEPT ![t] = <<"written", lfsr'>>]
  /\ UNCHANGED <<mq, error, offset, quiet, pc, i, inflight, delivered, calls, ticks, wire>>

Unsubscribe(t) ==
  /\ drawn[t][1] = "written" /\ Unlocked
  /\ TryPack(mq, Simple("UNSUBSCRIBE", drawn[t][2]))
  /\ drawn' = [drawn EXCEPT ![t] = Idle]
  /\ UNCHANGED <<lfsr, offset, quiet, pc, i, inflight, delivered, calls, ticks, wire>>

-----------------------------------------------------------------------------
(* __mqtt_recv: one step for each packet that has arrived. *)

\* mqtt_sync calls the callback after any error.
Failed == reconnects /\ error # "OK"

\* mqtt_sync goes on to __mqtt_recv.
Sync == /\ pc = "reconnected" \/ (pc = "idle" /\ ~Failed)
        /\ pc' = "recv"
        /\ UNCHANGED <<mq, error, lfsr, offset, quiet, i, inflight, drawn, delivered, calls, ticks, wire>>

\* MUTANT: the messages of the old connection stay in the queue.
Emptied_Kept == mq

\* mqtt_mq_init on a buffer
Emptied == <<>>

\* The callback as mqtt.h asks for it: it opens a connection and calls mqtt_reinit
\* and mqtt_connect, with the mutex locked until the latter has queued its packet.
\* What it subscribes to after that are calls like all others.  send_offset and
\* pid_lfsr stay as they are.
Reconnect ==
  /\ pc = "idle" /\ Failed /\ pc' = "reconnected"
  /\ LET q == Emptied IN
     IF Len(q) < QueueCap THEN error' = "OK" /\ mq' = Append(q, New(Simple("CONNECT", None)))
                          ELSE error' = "SEND_BUFFER_IS_FULL" /\ mq' = q
  /\ NewConnection
  /\ UNCHANGED <<lfsr, offset, quiet, i, inflight, drawn, reconnects, delivered, calls, ticks>>

\* __mqtt_recv goes on to the next packet if this one was in order; else mqtt_sync
\* returns without a send.
GoOn == UNCHANGED pc
Return == pc' = "idle"

Fail(e) == error' = e /\ Return

\* A packet in answer is put in the queue, or the receiving ends.
Answer(q, p) == TryPack(q, p) /\ (IF error' = "OK" THEN GoOn ELSE Return)

\* MUTANT: a duplicate is passed on again.
Deliver_Twice(p) ==
  \/ p.qos = 0 /\ UNCHANGED <<mq, error>> /\ GoOn /\ delivered' = Append(delivered, p)
  \/ /\ p.qos > 0
     /\ Answer(mq, Simple(IF p.qos = 1 THEN "PUBACK" ELSE "PUBREC", p.pid))
     /\ delivered' = IF error' = "OK" THEN Append(delivered, p) ELSE delivered

\* A PUBLISH of the broker: QoS 1 and 2 are answered, QoS 2 only if no PUBREC
\* with its identifier is in the queue, and what was answered is passed on.
Deliver(p) ==
  \/ p.qos = 0 /\ UNCHANGED <<mq, error>> /\ GoOn /\ delivered' = Append(delivered, p)
  \/ p.qos = 2 /\ Find("PUBREC", p.pid) # {} /\ UNCHANGED <<mq, error, delivered>> /\ GoOn
  \/ /\ p.qos = 1 \/ (p.qos = 2 /\ Find("PUBREC", p.pid) = {})
     /\ Answer(mq, Simple(IF p.qos = 1 THEN "PUBACK" ELSE "PUBREC", p.pid))
     /\ delivered' = IF error' = "OK" THEN Append(delivered, p) ELSE delivered

\* The packet an acknowledgement is for.
Origin == [CONNACK |-> "CONNECT", PUBACK |-> "PUBLISH", PUBREC |-> "PUBLISH",
           PUBREL |-> "PUBREC", PUBCOMP |-> "PUBREL", SUBACK |-> "SUBSCRIBE",
           UNSUBACK |-> "UNSUBSCRIBE", PINGRESP |-> "PINGREQ"]

Duplicate(p) == p.type = "PUBREC" /\ Find("PUBREL", p.pid) # {}

\* MUTANT: a PUBREC leaves its PUBLISH to be sent again.
Acknowledged_Kept(p, k) ==
  CASE p.type = "PUBREC" -> Answer(mq, Packet("PUBREL", 0, p.pid, mq[k].packet.val))
    [] OTHER -> mq' = Release(k) /\ UNCHANGED error /\ GoOn

\* MUTANT: a PUBREC is not answered.
Acknowledged_NoPubrel(p, k) == mq' = Release(k) /\ UNCHANGED error /\ GoOn

\* An acknowledgement completes the message it is for, and one of QoS 2 is
\* answered; the val of a PUBREL is HISTORY, that of its PUBLISH.
Acknowledged(p, k) ==
  CASE p.type = "PUBREC" -> Answer(Release(k), Packet("PUBREL", 0, p.pid, mq[k].packet.val))
    [] p.type = "PUBREL" -> Answer(Release(k), Simple("PUBCOMP", p.pid))
    [] p.type = "CONNACK" /\ p.val # 0 -> mq' = Release(k) /\ Fail("CONNECTION_REFUSED")
    [] p.type = "SUBACK" /\ p.val # 0 -> mq' = Release(k) /\ Fail("SUBSCRIBE_FAILED")
    [] OTHER -> mq' = Release(k) /\ UNCHANGED error /\ GoOn

Acknowledge(p) ==
  LET found == Find(Origin[p.type], p.pid)
  IN  /\ UNCHANGED delivered
      /\ \/ Duplicate(p) /\ UNCHANGED <<mq, error>> /\ GoOn
         \/ ~Duplicate(p) /\ found = {} /\ UNCHANGED mq /\ Fail("ACK_OF_UNKNOWN")
         \/ ~Duplicate(p) /\ found # {} /\ Acknowledged(p, Min(found))

Receive ==
  /\ pc = "recv" /\ toClient # <<>>
  /\ toClient' = Tail(toClient)
  /\ LET p == Head(toClient)
     IN  IF p.type = "PUBLISH" THEN Deliver(p) ELSE Acknowledge(p)
  /\ UNCHANGED <<lfsr, offset, quiet, i, inflight, drawn, calls, ticks, toBroker, up, cut>>

\* Nothing is left to read.  A connection that the peer has closed reads as empty
\* too; one that was reset is an error.
ReceiveEnds ==
  /\ pc = "recv" /\ toClient = <<>>
  /\ \/ pc' = "between" /\ UNCHANGED error
     \/ ~up /\ Fail("SOCKET_ERROR")
  /\ UNCHANGED <<mq, lfsr, offset, quiet, i, inflight, drawn, delivered, calls, ticks, wire>>

-----------------------------------------------------------------------------
(* __mqtt_send: one step for each message of the queue. *)

\* MUTANT: inflight_qos2 keeps its value from the last call.
SendStarts_Sticky ==
  /\ pc = "between"
  /\ IF error \in {"OK", "SEND_BUFFER_IS_FULL"}
     THEN pc' = "send" /\ i' = 1 /\ UNCHANGED inflight
     ELSE Return /\ UNCHANGED <<i, inflight>>
  /\ UNCHANGED <<mq, error, lfsr, offset, quiet, drawn, delivered, calls, ticks, wire>>

SendStarts ==
  /\ pc = "between"
  /\ IF error \in {"OK", "SEND_BUFFER_IS_FULL"}
     THEN pc' = "send" /\ i' = 1 /\ inflight' = FALSE
     ELSE Return /\ UNCHANGED <<i, inflight>>
  /\ UNCHANGED <<mq, error, lfsr, offset, quiet, drawn, delivered, calls, ticks, wire>>

IsQos2(m) == m.packet.type = "PUBLISH" /\ m.packet.qos = 2
Overdue(m) == m.state = "AWAITING_ACK" /\ m.age = TimedOut

\* MUTANT: inflight_qos2 is not looked at.
Due_AnyQos2(m) == m.state = "UNSENT" \/ Overdue(m)

\* The message has not been sent or its answer is late; of QoS 2 only the oldest
\* PUBLISH that is not complete is sent.
Due(m) == (m.state = "UNSENT" \/ Overdue(m)) /\ ~(IsQos2(m) /\ inflight)

\* MUTANT: a PUBREL does not wait for its PUBCOMP.
AfterSend_Pubrel(p) ==
  IF p.type \in {"PUBACK", "PUBCOMP", "DISCONNECT", "PUBREL"} \/ (p.type = "PUBLISH" /\ p.qos = 0)
  THEN "COMPLETE" ELSE "AWAITING_ACK"

\* The state of a message that was sent.
AfterSend(p) ==
  IF p.type \in {"PUBACK", "PUBCOMP", "DISCONNECT"} \/ (p.type = "PUBLISH" /\ p.qos = 0)
  THEN "COMPLETE" ELSE "AWAITING_ACK"

Sent(m) == [packet |-> m.packet, state |-> AfterSend(m.packet), age |-> 0]

\* A timeout starts the packet anew, and forgets how much of another one is out.
Offset(m) == IF Overdue(m) THEN 0 ELSE offset

Send ==
  /\ pc = "send" /\ i <= Len(mq)
  /\ inflight' = (inflight \/ (IsQos2(mq[i]) /\ mq[i].state # "COMPLETE"))
  /\ \/ /\ ~Due(mq[i])
        /\ i' = i + 1 /\ offset' = Offset(mq[i])
        /\ UNCHANGED <<mq, error, quiet, pc, wire>>
     \/ /\ Due(mq[i]) /\ SendAll(mq[i].packet, Offset(mq[i]))
        /\ mq' = [mq EXCEPT ![i] = Sent(mq[i])]
        /\ i' = i + 1 /\ offset' = 0 /\ quiet' = 0
        /\ UNCHANGED <<error, pc>>
     \/ /\ Due(mq[i]) /\ offset' \in Offset(mq[i])..1
        /\ SendPart(mq[i].packet, Offset(mq[i]), offset')
        /\ i' = Len(mq) + 1      \* break
        /\ UNCHANGED <<mq, error, quiet, pc>>
     \/ /\ Due(mq[i]) /\ SendFails
        /\ offset' = Offset(mq[i]) /\ Fail("SOCKET_ERROR")
        /\ UNCHANGED <<mq, quiet, i>>
  /\ UNCHANGED <<lfsr, drawn, delivered, calls, ticks>>

\* After the last message a ping is put in the queue, for the next mqtt_sync to
\* send, when nothing was sent for three quarters of the keep-alive time.
SendEnds ==
  /\ pc = "send" /\ i > Len(mq) /\ Return
  /\ IF quiet = KeepAlive THEN TryPack(mq, Simple("PINGREQ", None)) ELSE UNCHANGED <<mq, error>>
  /\ UNCHANGED <<lfsr, offset, quiet, i, inflight, drawn, delivered, calls, ticks, wire>>

-----------------------------------------------------------------------------
\* Half a response timeout passes.
Tick ==
  /\ ticks < MaxTicks /\ ticks' = ticks + 1
  /\ pc # "connect"
  /\ mq' = [k \in DOMAIN mq |->
              IF mq[k].state = "AWAITING_ACK" /\ mq[k].age < TimedOut
              THEN [mq[k] EXCEPT !.age = @ + 1] ELSE mq[k]]
  /\ quiet' = IF quiet < KeepAlive THEN quiet + 1 ELSE quiet
  /\ UNCHANGED <<error, lfsr, offset, pc, i, inflight, drawn, delivered, calls, wire>>

SyncStep == Sync \/ Receive \/ ReceiveEnds \/ SendStarts \/ Send \/ SendEnds

ClientNext ==
  /\ \/ Connect \/ SyncStep \/ Tick
     \/ \E c \in Calls : Call(c[1], c[2])
     \/ \E t \in Threads : UnsubscribeReads(t) \/ UnsubscribeWrites(t) \/ Unsubscribe(t)
  /\ UNCHANGED reconnects

=============================================================================
