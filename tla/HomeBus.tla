------------------------------ MODULE HomeBus ------------------------------
(***************************************************************************)
(* The four programs of the smart home talk only through an MQTT broker.   *)
(* This module holds what they share: the devices, the messages, and for   *)
(* each program (a "client") the send queue of its MQTT client, its        *)
(* connection, and the publish callback that the client's refresher thread *)
(* may be running.  The broker is external: it is modelled from how the    *)
(* programs use it (QoS 0, one TCP connection each) as one FIFO of packets *)
(* per subscriber.                                                         *)
(*                                                                         *)
(* Texts.  A value, an info text or an id is an opaque string; a sensor    *)
(* reading such as "27lr" carries its number through Degrees, the function *)
(* that the code computes with strtok and atoi.                            *)
(***************************************************************************)
EXTENDS Naturals, Sequences, FiniteSets

CONSTANTS
  SensorTable,     \* ids in the Devices table of senzorski_pi, in order
  ActuatorTable,   \* ids in the Devices table of aktuatorski_pi, in order
  UnknownIds,      \* ids a user may type that no table holds
  Place,           \* [device id -> topic of the device's room]
  Degrees,         \* [readings the pins can give -> their number]
  Condition,       \* [device id -> threshold of its automation]
  Initial,         \* [device id -> [Fields -> text]] compiled into the tables
  Typed,           \* texts a user may type as a new value or info
  SendCap,         \* messages the send buffer of a client holds
  MaxLoad,         \* BOUND: a source publishes only below this much work in the home
  Spaced,          \* TRUE: a client's next packet arrives after its worker ended
  MayFail,         \* clients whose connection may break
  MayRestart,      \* clients that may end and be started again
  Workers          \* BOUND: worker threads a client may have at one time

Image(s) == {s[i] : i \in 1..Len(s)}

Sensors   == Image(SensorTable)
Actuators == Image(ActuatorTable)
Devices   == Sensors \cup Actuators
Ids       == Devices \cup UnknownIds
Fields    == {"Value", "Info"}
Statuses  == {"ON", "OFF"}
Readings  == DOMAIN Degrees

\* Any text, where strtok has put together what belongs to several messages.
Stray == "stray"

Texts     == Readings \cup Typed \cup Statuses \cup {Stray}
                \cup {Initial[d][f] : d \in Devices, f \in Fields}

AllDevices == "*"
Targets    == Ids \cup {AllDevices}

\* What Devices[-1] holds: the bytes in front of the table.
OutOfBounds == "out of bounds"

ASSUME TablesAssumption ==
  /\ SensorTable \in Seq(STRING) /\ ActuatorTable \in Seq(STRING)
  /\ SensorTable # <<>> /\ ActuatorTable # <<>>
  /\ Sensors \cap Actuators = {} /\ UnknownIds \cap Devices = {}
  /\ AllDevices \notin Ids
ASSUME DataAssumption ==
  /\ Place \in [Devices -> STRING]
  /\ Degrees \in [Readings -> Nat]
  /\ Condition \in [Devices -> Nat]
  /\ Initial \in [Devices -> [Fields -> Texts]]
  /\ OutOfBounds \notin Texts

\* No real text is Stray.
ASSUME StrayAssumption ==
  Stray \notin Readings \cup Typed \cup Statuses \cup {Initial[d][f] : d \in Devices, f \in Fields}

Pis       == {"senzorski_pi", "aktuatorski_pi"}
Kontroler == "kontroler"
Cli       == "cli"
Clients   == Pis \cup {Kontroler, Cli}

Table(p) == IF p = "senzorski_pi" THEN SensorTable ELSE ActuatorTable

ASSUME BusAssumption ==
  /\ SendCap \in Nat \ {0} /\ MaxLoad \in Nat
  /\ Spaced \in BOOLEAN /\ MayFail \subseteq Clients
  /\ MayRestart \subseteq Pis \cup {Kontroler}

-----------------------------------------------------------------------------
(* Messages: the dot-separated texts of the code, as records of their     *)
(* tokens.                                                                 *)

SensorMes(v)             == [type |-> "Sensor_Mes", value |-> v]
PropertyChanged(d, f, v) ==
  [type |-> "PropertyChanged", id |-> d, field |-> f, value |-> v]
GetDev(f, d)             == [type |-> "Get_Dev", field |-> f, id |-> d]
SetDev(f, d, v)          ==
  [type |-> "Set_Dev", field |-> f, id |-> d, value |-> v]
\* Replies of the controller on ui_topic.  "garbled" marks a text that starts
\* with the bytes an uninitialised array happened to hold.
Values(vs, g)   == [type |-> "Values", values |-> vs, garbled |-> g]
HasBeenSet(f)   == [type |-> "HasBeenSet", field |-> f]
NonExistent     == [type |-> "NonExistent"]

Asks     == [type : {"Get_Dev"}, field : Fields, id : Targets]
Sets     == [type : {"Set_Dev"}, field : Fields, id : Targets, value : Typed]
Commands == Asks \cup Sets
Changes  == [type : {"PropertyChanged"}, id : Devices, field : Fields, value : Texts]
Replies  == [type : {"Values"}, values : Seq(Texts \cup {OutOfBounds}), garbled : BOOLEAN]
              \cup [type : {"HasBeenSet"}, field : Fields] \cup {NonExistent}
Messages == [type : {"Sensor_Mes"}, value : Texts] \cup Changes \cup Commands \cup Replies

ControlerTopic == "controler"
UiTopic        == "ui_topic"
InfoTopic      == "devices/info"
FuncTopic      == "devices/func"
OwnTopics == {ControlerTopic, UiTopic, InfoTopic, FuncTopic}
Topics    == OwnTopics \cup {Place[d] : d \in Devices}

\* The topics of rooms begin with "home/".
ASSUME RoomsAssumption == \A d \in Devices : Place[d] \notin OwnTopics

\* The subscriptions each program makes before it starts to work; the topics
\* "senzorski_pi" and "aktuatorski_pi", on which nobody publishes, are left out.
Subscriptions(c) ==
  CASE c = "senzorski_pi"   -> {InfoTopic}
    [] c = "aktuatorski_pi" -> {Place[d] : d \in Actuators} \cup {InfoTopic, FuncTopic}
    [] c = "kontroler"      -> {ControlerTopic}
    [] c = "cli"            -> {UiTopic}

Packets  == [topic : Topics, mes : Messages]
NoPacket == [topic |-> "none"]
NoMessage == [type |-> "none"]

-----------------------------------------------------------------------------
VARIABLES
  outbox,      \* [Clients -> Seq(Packets)], publishes not yet sent
  inbox,       \* [Clients -> Seq(Packets)], sent by the broker, not yet read
  error,       \* [Clients -> Errors], mqtt_client.error
  up,          \* [Clients -> BOOLEAN], the process runs
  subscribed,  \* [Clients -> BOOLEAN], the broker has its subscriptions
  delivering   \* [Clients -> Packets or NoPacket], the packet in the callback

busVars == <<outbox, inbox, error, up, subscribed, delivering>>

\* "full" is MQTT_ERROR_SEND_BUFFER_IS_FULL, "socket" any error of the socket.
Errors == {"none", "full", "socket"}

BusTypeOK ==
  /\ outbox \in [Clients -> Seq(Packets)]
  /\ inbox \in [Clients -> Seq(Packets)]
  /\ error \in [Clients -> Errors]
  /\ up \in [Clients -> BOOLEAN]
  /\ subscribed \in [Clients -> BOOLEAN]
  /\ delivering \in [Clients -> Packets \cup {NoPacket}]

BusInit ==
  /\ outbox = [c \in Clients |-> <<>>]
  /\ inbox = [c \in Clients |-> <<>>]
  /\ error = [c \in Clients |-> "none"]
  /\ up = [c \in Clients |-> TRUE]
  /\ subscribed = [c \in Clients |-> TRUE]
  /\ delivering = [c \in Clients |-> NoPacket]

\* The client's mutex is free: the refresher thread holds it while a publish
\* callback runs, and every call of the API takes it.
Unlocked(c) == up[c] /\ delivering[c] = NoPacket

\* Packets between a publish and its callback, without those of dead programs.
Waiting(c) == IF up[c] THEN Len(outbox[c]) + Len(inbox[c]) ELSE 0
InFlight == Waiting("senzorski_pi") + Waiting("aktuatorski_pi") + Waiting("kontroler")
              + Waiting("cli")

\* Mutant: a full buffer drops the message and sets no error.
Publish_SilentDrop(c, t, m) ==
  /\ Unlocked(c)
  /\ outbox' = IF error[c] = "none" /\ Len(outbox[c]) < SendCap
               THEN [outbox EXCEPT ![c] = Append(@, [topic |-> t, mes |-> m])]
               ELSE outbox
  /\ UNCHANGED <<error, inbox, subscribed, delivering>>

\* mqtt_publish: an earlier error refuses the message, a full buffer sets the
\* error for good, otherwise the message is queued.
Publish(c, t, m) ==
  /\ Unlocked(c)
  /\ \/ /\ error[c] = "none" /\ Len(outbox[c]) < SendCap
        /\ outbox' = [outbox EXCEPT ![c] = Append(@, [topic |-> t, mes |-> m])]
        /\ UNCHANGED error
     \/ /\ error[c] = "none" /\ Len(outbox[c]) >= SendCap
        /\ error' = [error EXCEPT ![c] = "full"]
        /\ UNCHANGED outbox
     \/ /\ error[c] # "none"
        /\ UNCHANGED <<outbox, error>>
  /\ UNCHANGED <<inbox, subscribed, delivering>>

\* __mqtt_send puts the oldest queued message on the wire and the broker
\* passes it on to every subscriber.  A full send buffer does not stop it.
Send(c) ==
  /\ Unlocked(c) /\ error[c] # "socket" /\ subscribed[c] /\ outbox[c] # <<>>
  /\ LET p == Head(outbox[c])
         Receives(s) == up[s] /\ subscribed[s] /\ p.topic \in Subscriptions(s)
     IN inbox' = [s \in Clients |-> IF Receives(s) THEN Append(inbox[s], p)
                                                   ELSE inbox[s]]
  /\ outbox' = [outbox EXCEPT ![c] = Tail(@)]
  /\ UNCHANGED <<error, up, subscribed, delivering>>

\* The SUBSCRIBEs of a client that has been started again reach the broker: they
\* are in front of all it publishes.
Subscribe(c) ==
  /\ up[c] /\ ~subscribed[c] /\ error[c] # "socket"
  /\ subscribed' = [subscribed EXCEPT ![c] = TRUE]
  /\ UNCHANGED <<outbox, inbox, error, up, delivering>>

\* Receiving or sending meets a socket error.  No reconnect callback is set,
\* so the error stays; packets on the way to the client are lost.
Disconnect(c) ==
  /\ c \in MayFail /\ Unlocked(c) /\ error[c] # "socket"
  /\ error' = [error EXCEPT ![c] = "socket"]
  /\ inbox' = [inbox EXCEPT ![c] = <<>>]
  /\ subscribed' = [subscribed EXCEPT ![c] = FALSE]
  /\ UNCHANGED <<outbox, up, delivering>>

\* The program ends and is started again, with a new client and a clean session:
\* its queue, what the broker had for it and its subscriptions are gone.
Reboot(c) ==
  /\ outbox' = [outbox EXCEPT ![c] = <<>>] /\ inbox' = [inbox EXCEPT ![c] = <<>>]
  /\ error' = [error EXCEPT ![c] = "none"] /\ up' = [up EXCEPT ![c] = TRUE]
  /\ subscribed' = [subscribed EXCEPT ![c] = FALSE]
  /\ delivering' = [delivering EXCEPT ![c] = NoPacket]

\* __mqtt_recv has a publish for the callback.
Arrived(c) == Unlocked(c) /\ error[c] # "socket" /\ inbox[c] # <<>>

=============================================================================
