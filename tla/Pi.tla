--------------------------------- MODULE Pi ---------------------------------
(***************************************************************************)
(* senzorski_pi and aktuatorski_pi: the two programs that own the devices. *)
(* Both are the same code with another table of devices.  In each runs     *)
(*   - the refresher thread of its MQTT client, which calls                *)
(*     publish_callback: it stores the topic and the text of the packet in *)
(*     the one global callback_packet and starts a thread;                 *)
(*   - those worker threads, each running distribute_pub_message, which    *)
(*     reads callback_packet again, splits the text in place and changes   *)
(*     devices;                                                            *)
(*   - the sensor thread, sensors_value_publish.                           *)
(* Each string operation (string_cpy, strcpy, sprintf, str_split) on       *)
(* memory that another thread uses is a step of its own, and one step: the *)
(* module has all interleavings of such operations, not what two of them   *)
(* do to each other when they overlap in time.  Module StrSplit looks      *)
(* inside str_split: tokens that come from another's text may give a       *)
(* device another value or end the program, but a device is reported with  *)
(* what it then holds.                                                     *)
(***************************************************************************)
EXTENDS HomeBus

VARIABLES
  dev,        \* [Devices -> [Fields -> Texts]], the Devices table of its pi
  callback,   \* [Pis -> callback_packet: topic, mes, and whether mes is whole]
  worker,     \* [Pis -> [Workers -> a thread running distribute_pub_message]]
  sensing,    \* the sensor thread of senzorski_pi: pc, and index of its device
  held        \* HISTORY: <<device, field, text>> each device ever had

piVars == <<dev, callback, worker, sensing, held>>

NoText == ""
NoCallback == [topic |-> "none", mes |-> NoMessage, whole |-> TRUE]
FirstSensor == [pc |-> "read", i |-> 1]

\* A worker: its pc, what str_split and the call of automation_control gave it
\* (whether the automation runs, the field, the id or the topic, the argument),
\* the index of its loop over the table, and the text it formatted.
Idle == [pc |-> "idle", auto |-> FALSE, field |-> "Value", id |-> "none",
         topic |-> "none", arg |-> NoText, i |-> 1, out |-> NoText]

WorkerStates(p) ==
  [pc : {"idle", "start", "topic", "loop", "write", "format", "publish"},
   auto : BOOLEAN, field : Fields, id : Targets \cup {"none"},
   topic : Topics \cup {"none"}, arg : Texts \cup {NoText},
   i : 1..Len(Table(p)), out : Texts \cup {NoText}]

WorkerOK(p, r) ==
  /\ r \in WorkerStates(p)
  /\ r.pc \in {"loop", "write", "format", "publish"} /\ ~r.auto => r.arg \in Texts
  /\ r.pc = "publish" => r.out \in Texts

PiTypeOK ==
  /\ dev \in [Devices -> [Fields -> Texts]]
  /\ callback \in [Pis -> [topic : Topics \cup {"none"},
                           mes : Messages \cup {NoMessage}, whole : BOOLEAN]]
  /\ DOMAIN worker = Pis
  /\ \A p \in Pis : /\ DOMAIN worker[p] = Workers
                    /\ \A w \in Workers : WorkerOK(p, worker[p][w])
  /\ sensing \in [pc : {"read", "change", "mes"}, i : 1..Len(SensorTable)]
  /\ held \subseteq Devices \X Fields \X Texts

PiInit ==
  /\ dev = Initial
  /\ callback = [p \in Pis |-> NoCallback]
  /\ worker = [p \in Pis |-> [w \in Workers |-> Idle]]
  /\ sensing = FirstSensor
  /\ held = {<<d, f, Initial[d][f]>> : d \in Devices, f \in Fields}

Owned(p) == Image(Table(p))

Busy(p) == {w \in Workers : up[p] /\ worker[p][w].pc # "idle"}
WorkersIdle(p) == Busy(p) = {}

\* strcpy into a field of a device.
WriteField(d, f, v) ==
  /\ dev' = [dev EXCEPT ![d][f] = v]
  /\ held' = held \cup {<<d, f, v>>}

\* Mutant: the error is not checked.
PublishOrExit_Unchecked(p, t, m) == Publish(p, t, m) /\ UNCHANGED up

\* mqtt_publish and client_error_check after it: any error ends the program.
PublishOrExit(p, t, m) ==
  /\ Publish(p, t, m)
  /\ up' = [up EXCEPT ![p] = (error'[p] = "none")]

-----------------------------------------------------------------------------
(* publish_callback, under the mutex of the client.                        *)

\* The topic of the packet replaces callback_packet.topic.
CallbackTopic(p) ==
  /\ Arrived(p)
  /\ Spaced => WorkersIdle(p)
  /\ \E w \in Workers : worker[p][w].pc = "idle"
  /\ inbox' = [inbox EXCEPT ![p] = Tail(@)]
  /\ delivering' = [delivering EXCEPT ![p] = Head(inbox[p])]
  /\ callback' = [callback EXCEPT ![p].topic = Head(inbox[p]).topic]
  /\ UNCHANGED <<outbox, error, up, subscribed, dev, worker, sensing, held>>

\* The text replaces callback_packet.mes, and the worker thread is created.
CallbackMes(p, w) ==
  /\ up[p] /\ delivering[p] # NoPacket
  /\ worker[p][w].pc = "idle"
  /\ callback' = [callback EXCEPT ![p].mes = delivering[p].mes, ![p].whole = TRUE]
  /\ worker' = [worker EXCEPT ![p][w].pc = "start"]
  /\ delivering' = [delivering EXCEPT ![p] = NoPacket]
  /\ UNCHANGED <<outbox, inbox, error, up, subscribed, dev, sensing, held>>

-----------------------------------------------------------------------------
(* distribute_pub_message: one worker thread.                              *)

At(p, w, pc) == up[p] /\ worker[p][w].pc = pc

\* The device the loop of the worker r of p stands at.
Visited(p, r) == Table(p)[r.i]

\* The loop goes on to the next device, or the thread ends.
Advance(p, r) ==
  IF r.i = Len(Table(p)) THEN Idle
  ELSE [r EXCEPT !.pc = "loop", !.i = @ + 1, !.out = NoText]

\* The branches of distribute_pub_message on the type of the message m.
Branch(m) ==
  CASE m.type = "Sensor_Mes" ->
         [Idle EXCEPT !.pc = "topic", !.auto = TRUE, !.arg = m.value]
    [] m.type = "Set_Dev" ->
         [Idle EXCEPT !.pc = "loop", !.field = m.field, !.id = m.id, !.arg = m.value]
    [] OTHER -> Idle

\* str_split of the text callback_packet.mes points to.  The split is in place:
\* afterwards the text ends at its first dot.
Split(p, w) ==
  /\ At(p, w, "start") /\ callback[p].whole
  /\ callback' = [callback EXCEPT ![p].whole = FALSE]
  /\ worker' = [worker EXCEPT ![p][w] = Branch(callback[p].mes)]
  /\ UNCHANGED <<busVars, dev, sensing, held>>

\* Another worker has split the text before: there is one token only.  A
\* comparison with the missing second token ends the process; for a Sensor_Mes
\* strtok may instead go on with what another call left, and atoi gives 0.
SplitAgain(p, w) ==
  /\ At(p, w, "start") /\ ~callback[p].whole
  /\ \/ /\ up' = [up EXCEPT ![p] = FALSE]
        /\ UNCHANGED worker
     \/ /\ callback[p].mes.type = "Sensor_Mes"
        /\ worker' = [worker EXCEPT ![p][w] = [Idle EXCEPT !.pc = "topic", !.auto = TRUE]]
        /\ UNCHANGED up
  /\ UNCHANGED <<outbox, inbox, error, subscribed, delivering,
                 dev, callback, sensing, held>>

\* automation_control is called with the topic of callback_packet as it is now.
ReadTopic(p, w) ==
  /\ At(p, w, "topic")
  /\ worker' = [worker EXCEPT ![p][w].topic = callback[p].topic, ![p][w].pc = "loop"]
  /\ UNCHANGED <<busVars, dev, callback, sensing, held>>

\* atoi of the token before the "l"; 0 for what is not a number.
Number(v) == IF v \in Readings THEN Degrees[v] ELSE 0

\* check_device_condition.
Wanted(d, v) == IF Number(v) > Condition[d] THEN "ON" ELSE "OFF"

\* Mutant: the actuators of every room follow the reading.
Concerns_AnyRoom(r, d) ==
  IF r.auto THEN d \in Actuators /\ dev[d].Value # Wanted(d, r.arg) ELSE d = r.id

\* The message makes the worker change device d: a command that names it, or a
\* reading of its room that asks for a status it has not.
Concerns(r, d) ==
  IF r.auto
  THEN d \in Actuators /\ Place[d] = r.topic /\ dev[d].Value # Wanted(d, r.arg)
  ELSE d = r.id

\* One turn of the loops of automation_control, set_dev_value and set_dev_info
\* up to the comparison.
Loop(p, w) ==
  /\ At(p, w, "loop")
  /\ LET r == worker[p][w]
     IN worker' = [worker EXCEPT ![p][w] = IF Concerns(r, Visited(p, r))
                                           THEN [r EXCEPT !.pc = "write"]
                                           ELSE Advance(p, r)]
  /\ UNCHANGED <<busVars, dev, callback, sensing, held>>

\* strcpy of the new value: the status wanted, or what the command gave.
Write(p, w) ==
  /\ At(p, w, "write")
  /\ LET r == worker[p][w]
         d == Visited(p, r)
     IN WriteField(d, r.field, IF r.auto THEN Wanted(d, r.arg) ELSE r.arg)
  /\ worker' = [worker EXCEPT ![p][w].pc = "format"]
  /\ UNCHANGED <<busVars, callback, sensing>>

\* sprintf of the PropertyChanged text reads the field again.
Format(p, w) ==
  /\ At(p, w, "format")
  /\ LET r == worker[p][w]
     IN worker' = [worker EXCEPT ![p][w].out = dev[Visited(p, r)][r.field],
                                 ![p][w].pc = "publish"]
  /\ UNCHANGED <<busVars, dev, callback, sensing, held>>

\* The change goes to the controller, and the loop to the next device.
Report(p, w) ==
  /\ At(p, w, "publish")
  /\ LET r == worker[p][w]
     IN /\ PublishOrExit(p, ControlerTopic, PropertyChanged(Visited(p, r), r.field, r.out))
        /\ worker' = [worker EXCEPT ![p][w] = Advance(p, r)]
  /\ UNCHANGED <<dev, callback, sensing, held>>

Work(p, w) ==
  Split(p, w) \/ SplitAgain(p, w) \/ ReadTopic(p, w) \/ Loop(p, w)
    \/ Write(p, w) \/ Format(p, w) \/ Report(p, w)

-----------------------------------------------------------------------------
(* sensors_value_publish, the sensor thread.  aktuatorski_pi runs it too,  *)
(* over a table without sensors, where it does nothing.                    *)

Sensed == SensorTable[sensing.i]

\* Mutant: the new value is written and not reported.
Sense_Unreported(v) ==
  /\ up["senzorski_pi"] /\ sensing.pc = "read"
  /\ WriteField(Sensed, "Value", v) /\ sensing' = [sensing EXCEPT !.pc = "mes"]
  /\ UNCHANGED <<busVars, callback, worker>>

\* update_sensors_value: read the pin; a new value is written and reported.
Sense(v) ==
  /\ up["senzorski_pi"] /\ sensing.pc = "read"
  /\ IF v # dev[Sensed].Value
     THEN WriteField(Sensed, "Value", v) /\ sensing' = [sensing EXCEPT !.pc = "change"]
     ELSE UNCHANGED <<dev, held>> /\ sensing' = [sensing EXCEPT !.pc = "mes"]
  /\ UNCHANGED <<busVars, callback, worker>>

SensorReport ==
  /\ sensing.pc = "change"
  /\ PublishOrExit("senzorski_pi", ControlerTopic,
                   PropertyChanged(Sensed, "Value", dev[Sensed].Value))
  /\ sensing' = [sensing EXCEPT !.pc = "mes"]
  /\ UNCHANGED <<dev, callback, worker, held>>

\* Mutant: the loop over the sensors runs one too far.
SensorPublish_PastEnd ==
  /\ sensing.pc = "mes"
  /\ PublishOrExit("senzorski_pi", Place[Sensed], SensorMes(dev[Sensed].Value))
  /\ sensing' = [pc |-> "read",
                 i |-> IF sensing.i > Len(SensorTable) THEN 1 ELSE sensing.i + 1]
  /\ UNCHANGED <<dev, callback, worker, held>>

\* Sensor_Mes on the topic of the room, then the next sensor.
SensorPublish ==
  /\ sensing.pc = "mes"
  /\ PublishOrExit("senzorski_pi", Place[Sensed], SensorMes(dev[Sensed].Value))
  /\ sensing' = [pc |-> "read",
                 i |-> IF sensing.i = Len(SensorTable) THEN 1 ELSE sensing.i + 1]
  /\ UNCHANGED <<dev, callback, worker, held>>

-----------------------------------------------------------------------------
\* A pi is started again: main fills the table with the values compiled in, and
\* reports none of them.
RestartPi(p) ==
  /\ Reboot(p)
  /\ dev' = [d \in Devices |-> IF d \in Owned(p) THEN Initial[d] ELSE dev[d]]
  /\ held' = held \cup {<<d, f, Initial[d][f]>> : d \in Owned(p), f \in Fields}
  /\ callback' = [callback EXCEPT ![p] = NoCallback]
  /\ worker' = [worker EXCEPT ![p] = [w \in Workers |-> Idle]]
  /\ sensing' = IF p = "senzorski_pi" THEN FirstSensor ELSE sensing

\* Everything the pis do but start another round of a sensor.
PiStep ==
  \/ \E p \in Pis : CallbackTopic(p) \/ \E w \in Workers : CallbackMes(p, w) \/ Work(p, w)
  \/ SensorReport \/ SensorPublish

=============================================================================
