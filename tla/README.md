# Smart Home: a TLA+ model of the programs and their messages

The repository is a small smart home. Four programs talk through an MQTT
broker: two "pis" that own the devices, a controller that keeps a copy of every
device, and a command line interface. Each program links the MQTT-C client
(`mqtt/`, `include/mqtt.h`). `lssdp/` is a discovery library with its own test
programs. This directory models the four programs and what they rely on, the
string splitting, the MQTT client with its message queue, its packets byte by byte
and the stream they arrive in, and the discovery library. TLC checks the models on
small instances, and TLAPS proves safety properties of the home, of string splitting,
of the MQTT client, its message queue and its packet stream, and of the discovery library
for tables, buffers, texts, threads, identifiers and hosts of any number and size. Two
refinements are among them: the message queue and the packet stream.

Source paths are relative to the root of the repository.

## 1. Inventory

| Component | State | Operations | Talks to |
|---|---|---|---|
| `senzorski_pi` (`src/senzorski_pi.c`) | `Devices` (its sensors), `callback_packet`, `packet.client` | `sensors_value_publish` (a thread for ever: read each sensor, report a change, publish the reading), `publish_callback`, `distribute_pub_message` (one thread per packet) | publishes to `controler` and to the topic of the room; subscribes to `devices/info` |
| `aktuatorski_pi` (`src/aktuatorski_pi.c`) | the same, for its actuators | the same callback and workers; a worker runs `automation_control`, `set_dev_value` or `set_dev_info` | publishes to `controler`; subscribes to the rooms, `devices/info`, `devices/func` |
| device operations (`src/device.c`) | none of their own: a `Devices` table by reference | `automation_control`, `set_dev_value`, `set_dev_info`, `update_sensors_value`, `client_error_check` | `mqtt_publish` |
| `kontroler` (`src/kontroler.c`) | `Devices` (a replica of all devices), `callback_packet` | `publish_callback` with `findDevice`, `distribute_pub_message`, `publish_no_device` | subscribes to `controler`; publishes to `ui_topic`, `devices/func`, `devices/info` |
| `command_line_interface` | the line being typed | the command loop, the callback that prints | publishes to `controler`, subscribes to `ui_topic` |
| `src/parse.h` | strtok's static pointer | `str_split` (in place), `string_cpy`, `help` | every program |
| `src/mqtt_helper.h` | none | `client_refresher` (calls `mqtt_sync` every 100 ms), `exit_example` | MQTT-C |
| MQTT-C client (`mqtt/mqtt.c`) | `struct mqtt_client`: error, mutex, receive buffer, timeouts, packet ids | `mqtt_publish` and the rest of the API, `__mqtt_send`, `__mqtt_recv`, `mqtt_sync`, `mqtt_init_reconnect`, `mqtt_reinit` | the socket; the publish callback; the reconnect callback |
| MQTT-C message queue | `struct mqtt_message_queue`: texts from the front of a buffer, descriptors from its back | `mqtt_mq_init`, `register`, `clean`, `find` | the client |
| MQTT-C packing and unpacking | the receive buffer of the client | `mqtt_pack_*` into the room a caller gives, `mqtt_unpack_*` of as many bytes as have arrived, the part of `__mqtt_recv` that reads, unpacks and moves the rest to the front | the client |
| MQTT-C platform layer | none | `mqtt_pal_sendall`, `mqtt_pal_recvall` | the client, the socket |
| `lssdp` with `lssdp/test/daemon.c` | interfaces, socket, neighbour list with times, `last_time` | `lssdp_network_interface_update`, `lssdp_socket_create`, `lssdp_socket_close`, `lssdp_socket_read`, `lssdp_send_msearch`, `lssdp_send_notify`, `lssdp_neighbor_check_timeout` | UDP multicast; callbacks of the daemon |
| `tests.c`, `old/`, `src/templates/`, `docs/`, build files | none | | not modelled: tests, a C++ prototype that is not built, socket helpers, generated HTML |

What makes the behaviour hard:

- every program has one global `callback_packet` that the callback writes and
  worker threads read later, with no lock;
- the workers of one pi share the `Devices` table and the text they split in place;
- the mutex of the MQTT client is held while a callback runs, and every publish
  takes it;
- an error of the client is never cleared, because no reconnect callback is set;
  some programs exit on it, some do not look; a client that has one starts a session
  anew in the middle of everything, and keeps part of its old state;
- a program that is started again begins with its compiled-in table and tells nobody;
- packets arrive in parts, and a length of one to four bytes says where each ends;
  what is written of a packet is limited by a length that is computed elsewhere;
- the controller answers and acknowledges from its replica before the device has
  been told anything;
- `strtok` keeps its position in one pointer of the process, whichever thread calls;
- the MQTT client sends a packet again after a timeout while the answer to the
  first copy is on its way, draws identifiers that come round, and keeps packets
  and their descriptors in one buffer that it compacts in place;
- a neighbour of `lssdp` is known from datagrams that are lost, that come from hosts
  which changed their address since, and that the daemon compares with a list of its
  own interfaces that is up to one period old.

What makes each component correct: the replica of the controller ends equal to the
devices; an actuator ends as the reading of its own room asks; each command gets one
reply, its own; a command to set something reaches the device; a program does not run on
with a dead client; and under every race the replica shows only what a device once had,
but for what a thread has from a `str_split` that overlapped another. After a restart the
replica is right again field by field as soon as one is reported. A split text can be
joined again, and in every race a token is a whole element of one of the texts. The queue
of the MQTT client is a bounded FIFO that keeps the bytes of each packet; each packet of
the broker is read whole, once and in order, whatever parts it comes in, and a packed one
says what was asked; the client sends one QoS 2 publish at a time, has each taken over
once and in order, completes none before the broker has it, and with a reconnect callback
is connected again after every error. A neighbour list holds each neighbour once, never
the host itself, and becomes right once the network is quiet. The `hazards` of
`PROJECT.json` list where each of these can go wrong, with line numbers.

## 2. Modules

| Module | Models | Correspondence |
|---|---|---|
| `HomeBus` | what the programs share: the tables of devices, the messages, and per program the send queue, the sticky error, the connection and the callback that is running | `outbox`/`Send` is the send queue and `__mqtt_send`; `Publish` is `mqtt_publish` (a queued message, or the error `MQTT_ERROR_SEND_BUFFER_IS_FULL` for good, or refusal after an earlier error); `delivering[c]` not `NoPacket` means that the refresher thread is in `publish_callback` and holds the mutex, so `Publish` needs `Unlocked(c)`; `Disconnect` is any end of the connection, taken as an error at once (an end by the broker first reads as an empty socket, `mqtt_pal.c:145`, and is an error only when a later send fails); `Reboot` is the end and the new start of a program, whose `SUBSCRIBE`s reach the broker by `Subscribe`. The broker is external: it appends a packet to the `inbox` of every subscriber at the moment it is sent |
| `Pi` | both pis with all threads and the functions of `device.c` | `dev` is the union of the two `Devices` tables (no program touches the other's devices); `callback[p]` is `callback_packet`, written in two steps (`CallbackTopic`, `CallbackMes`); a worker goes `Split` (or `SplitAgain` if another worker has already cut the text), `ReadTopic`, then per device `Loop`, `Write`, `Format`, `Report`; the sensor thread goes `Sense`, `SensorReport`, `SensorPublish`; `RestartPi` fills the table with the compiled-in values |
| `Kontroler` | `kontroler.c` | `db` is its `Devices`; `packet` its `callback_packet.mes`. `publish_callback` is `Callback` where packets are spaced and nobody else can be in `str_split`; elsewhere it is `TakeIn` (store the packet, go into `str_split`, with the mutex) and `LookUp` (come out of it, `findDevice`, start a thread). A thread's copy and split is `Distribute` in the first case, `BeginSplit` and `EndSplit` in the second; then it goes `ReadDevice`…`Answer`, or `Acknowledge`, `Reread`, `Forward`, or `Apply`. `splitting` are those inside `str_split`, `crossed` those of them that have met another there, and `mixed` remembers that it happened; `RestartKontroler` starts it again |
| `Cli` | `command_line_interface.c` | `Command` is one turn of the loop whose line passes the token count, `Display` its callback; `pending` is a history variable |
| `SmartHome` | the composition of the four, faults, fairness, all properties of the home | `Step` is a step of a program or of the network, `Fault` a restart or a connection that breaks; `stale` and `unaware` are history variables: what nobody has been told since a restart |
| `StrSplit` | `str_split` of `parse.h`, run by several threads | `olds` is the static pointer inside `strtok`; a call is four kinds of steps: `Count`, `Allocate`, `strtok` in `Find`, `Cut` and `Save`, then `Store` or `End` with the two asserts. `Of` says which buffer a thread splits: its own (controller, CLI) or a common one (pis) |
| `MessageQueue` | `mqtt_mq_init`, `mqtt_mq_register`, `mqtt_mq_clean` and the macros, in byte offsets | one action per operation, since every caller holds the mutex; `TryPack` is the macro `MQTT_CLIENT_TRY_PACK` |
| `MessageFifo` | what the queue promises: the abstract specification that `MessageQueue` implements | |
| `MqttWire` | the connection as `mqtt_pal_sendall` and `mqtt_pal_recvall` show it | `Partial` chooses the platform: the mbedTLS build may stop in the middle of a packet, the unix build fails on a full socket |
| `MqttClient` | `mqtt.c`: `mqtt_init`, `mqtt_connect`, the API calls, `mqtt_sync` | `__mqtt_recv` is a step per packet (`Receive`), `__mqtt_send` a step per message (`Send`); both hold the mutex, and `pc` keeps API calls out meanwhile. `mqtt_unsubscribe` has three steps, since it draws its identifier outside the mutex. `reconnects` says whether the client was made by `mqtt_init_reconnect`; `Reconnect` is the callback up to the lock that `mqtt_connect` releases: `mqtt_reinit` and the queued CONNECT, on a new connection |
| `MqttPacket` | the bytes: `mqtt_pack_fixed_header`, `mqtt_unpack_fixed_header`, every `mqtt_pack_*` and `mqtt_unpack_*` with its error paths | operators from a request and the room to the bytes or a refusal (`Pack`), and from the bytes that have arrived to a packet and its size, `INCOMPLETE` or an error (`UnpackResponse`). The base of a length digit is a constant (128 in the code), so is that of a two-byte number (256) |
| `MqttStream` | the receiving half of `__mqtt_recv` with its buffer, and packing into a given room | `net` is what the broker wrote and nobody read; `Recv(n)` is one turn of the loop that reads `n` bytes; the broker (external) encodes by the standard, not by the code |
| `PacketStream` | what receiving promises: the abstract specification that `MqttStream` implements | |
| `MqttBroker` | the other side of the connection (external): answers, QoS 2 in both directions, repetitions, refusals | |
| `MqttSession` | the composition of the three, fairness, all properties of the client | |
| `Lssdp` | hosts that run `lssdp.c` as `test/daemon.c` does | `pc` walks through the tasks of a period; `Select` is one turn of the loop with `lssdp_socket_read`; `Update` is `lssdp_network_interface_update` with the callback that makes a new socket; `shown` is a history variable |
| `MC*` | constants for TLC | |
| `*Proofs` | theorems on the module of that name; `MinMaxProofs` has the lemmas on `Min` and `Max`, and an induction up to a number, that they share | |

`MqttClient` takes its queue as a sequence with the behaviour of `MessageFifo`;
that `mqtt_mq_*` has this behaviour is what `queue_layout` shows. `HomeBus` in turn
takes the client as a queue with a sticky error, QoS 0, for that is what the four
programs use of it (`MQTT_PUBLISH_QOS_0` everywhere).

Data. A text of the home is a member of a small set. A message is the record of
its tokens. A reading like `27lr` is opaque; `Degrees` gives the number that
`strtok`/`atoi` take out of it. The two topics that bear the names of the pis
are left out, because nobody publishes there. An MQTT packet is its type, quality
of service, identifier and one number that tells publishes apart (and is the
return code of a `CONNACK` or `SUBACK`); only `MqttPacket` and `MqttStream` look at its
bytes. A datagram of `lssdp` is its method,
sender, location and name; all hosts look for one search target, and a packet with
another one or without sense is "other".

Races. A step of a thread is one string operation (`string_cpy`, `strcpy`, `sprintf`,
`str_split`) on memory that other threads use, and the model has every interleaving of
them. What two of them do to each other when they overlap in time, a torn copy, is left
out, but for `str_split`, whose `strtok` makes the overlap most likely. `StrSplit` opens
it. `Kontroler` takes from there what may come out of an overlap: an assert ends the
program, or the tokens are whole elements of any of the texts, the first one the thread's
own. So a `Get_Dev` may ask for another device, and a `PropertyChanged` may set any field
of any device to a text of anybody (`Stray`), or none. Where it would write at
`Devices[-1]`, in front of the table, no device changes. A text that another worker has
cut is marked (`whole = FALSE`), and what `strtok` can make of it is a choice: the process
ends, or, for a sensor message, `atoi` sees something that gives 0. `Devices[-1]` in the
controller is the text `OutOfBounds`. The reply built with `strcat` on an array that
nobody initialised is `garbled` or not.

## 3. Runs

| Run | Instance | Shows |
|---|---|---|
| `home_rooms` | two rooms, no user, `Spaced`, a send buffer for one message; `senzorski_pi` or the controller is started again, or the connection of `senzorski_pi` breaks | `DbConverges`, `AutomationConverges`, `FailedSensorPiExits` |
| `home_user` | one room whose sensor rests; a user asks for the value of a known and of an unknown device and for the info of all, sets an actuator's value and a sensor's info to new ones, and types a line with too few words; `Spaced`, fair | `RepliesInOrder`, `CommandsAnswered`, `SetReachesDevice` |
| `home_race` | one room whose sensor reports, a user who asks and sets, no spacing, two workers per program, overlapping `str_split`s | `TypeOK`, `DbValuesWereHeld` |
| `queue_layout` | 14 bytes, descriptors of 3, packets of 1 to 3 | `TypeOK`, `Layout`, `BytesKept`, `ImplementsFifo` |
| `split_threads` | two threads, two texts each, with missing elements | `TypeOK`, `TokensAreElements`, `SplitInvertsJoin` |
| `split_race_abort` | two threads, well-formed commands | finding: `AssertsHold` is violated |
| `mqtt_publish` | three publishes of QoS 1 and 2, two messages in the queue, timeouts, unix socket, fair, with and without a reconnect callback | `OneInflightQos2`, `OrderedAtBroker`, `CompleteIsReceived`, `HeldIsFinished`, `PublishArrives`, `Reconnected` |
| `mqtt_wrap` | five exchanges over four identifiers, TLS socket, a connection that breaks, no timeouts | `TypeOK`, `PidsUnique`, `AnswersAreKnown` |
| `mqtt_deliver` | three publishes of the broker of QoS 0 or 2 over two identifiers, one repeated, timeouts, refusals, requests of the client, a thread that unsubscribes | `PassedInOrder`, `LostByReuse` |
| `mqtt_packets` | two packets of eleven kinds of the broker or six strays, cut at every byte, in a receive buffer of 14 bytes; every kind of request in every combination of its parts, packed into eight sizes of room | `TypeOK`, `ImplementsPacketStream`, `AllReceived`, `PackedIsRead`, `PackedFits` |
| `mqtt_partial` | three QoS 2 publishes and a ping over a TLS socket | finding: `WholePackets` is violated |
| `lssdp_lan` | two hosts, two networks, two events among moves, losses, strange packets, failures and stops | `TypeOK`, `NoneTwice`, `NeverItself`, `ShownIsCurrent`, `NeighborsConverge` |

Properties of the home.

- `DbConverges`: when nothing is on its way, the replica equals the devices, but for
  the fields that the controller has not been told since a restart (`stale`).
  It breaks if any change goes unreported, is reported with another value, or is
  reported out of order, on any path through `device.c`, and if a restart spoils
  what is reported after it.
- `AutomationConverges`: when nothing is on its way and nobody sets values, each
  actuator has the status that the reading of its own room asks for; after a restart
  from the first reading on.
- `RepliesInOrder`: the reply that is printed answers the oldest open command;
  a value in it was once the value of the device that was asked about, and a reply about
  all devices has one of each, in the order of the table. (It says nothing of the bytes that
  an array nobody initialised puts in front of that reply, `garbled`.) The CLI
  prints replies without a word on which command they belong to, so the order is
  all that a user has.
- `CommandsAnswered`, `SetReachesDevice`, `FailedSensorPiExits`: liveness.
- `DbValuesWereHeld`: what the replica shows is something that its device once
  had, with no assumption on the arrival of packets, on losses or on failures. The one
  exception is a text that a thread has from a `str_split` that overlapped another
  (`Stray`): there device, field and value may come from different messages. It breaks if
  the value is taken from anything but the one copy that device and field are from.

Properties of `str_split`: `TokensAreElements` says what is left of a split when threads
share `strtok`'s pointer: each token is a whole element of the text of one of them, never
a piece of one or several in one, and the first is of the thread's own text. (It holds
until a buffer is used for a second text, of which an old pointer may point into the
middle.) `SplitInvertsJoin` says what a thread gets that is not disturbed, and that exactly
texts with an empty element end the program.

Properties of the message queue: `Layout` and `BytesKept` relate the descriptors,
the bytes and the cached `curr_sz`; `ImplementsFifo` is the refinement.

Properties of the MQTT client.

- `OneInflightQos2`, `OrderedAtBroker`: of QoS 2 one publish at a time, each taken
  over by the broker once, in the order of the calls, through timeouts.
- `CompleteIsReceived`, `HeldIsFinished`: what the client counts as done is at the
  broker, and what the broker holds the client still works on.
- `PidsUnique`, `AnswersAreKnown`: identifiers that come round do not mix up
  exchanges, and cleaning the queue never loses what an answer is still due for.
- `PassedInOrder`: publishes of the broker reach the callback in order, those of QoS 2
  once (`PassedOnce`, which follows from it, has a theorem with fewer assumptions).
- `LostByReuse`: none is missing, but for one whose identifier was used before it by a
  QoS 2 publish that was passed on. "All the publishes received from the broker will be
  passed to this function" (`mqtt.h:1143-1144`) is `PassedOn`, without that exception;
  see below why it is not so.
- `PublishArrives`: liveness of the queue, with its QoS 2 publishes that wait for
  each other.
- `Reconnected`: a client with a reconnect callback has its CONNECT accepted again
  after every error; the first "error" is that no connection was made yet.

Properties of the packets.

- `ImplementsPacketStream`: the refinement. It breaks if a byte is lost or taken for
  part of the next packet, if a part of a packet is taken for a whole one, if a field
  is read from the wrong place, and if a packet is refused that fits.
- `AllReceived`: the client never waits for bytes that it has.
- `PackedIsRead`, `PackedFits`: a packed request has the length that it announces, a
  reader of the standard finds in it what was asked, and it stays inside its room. The
  room behind it holds the descriptors of the message queue. The requests of the run have
  texts whose length `uint16_t` can count; a longer message overruns the room
  (`mqtt.c:1266`, `1301`). The QoS bytes of the topics of a SUBSCRIBE are not compared.

Properties of `lssdp`: `NoneTwice`, `NeverItself` and `ShownIsCurrent` hold at every
moment, also while interfaces change under a socket that is still open;
`NeighborsConverge` says that after the last change every daemon with a socket ends
with exactly its neighbours in the list.

### Findings

- `split_race_abort`: two threads of the controller split at the same time, each
  goes on in the other's text, and an assert of `parse.h` ends the program though
  both commands are well formed.
- `mqtt_partial`: `send_offset` says how much of one packet is written but is applied
  to whichever message the loop of `__mqtt_send` finds due first. In the mbedTLS
  build half of a PINGREQ is out when the PUBREC arrives that makes an earlier
  QoS 2 PUBLISH due; that PUBLISH is then written from the offset of the ping.

What the models and their translation show beyond them; the first group is visible by a
small change of a configuration:

- `DbConverges` needs `Spaced`: of two `PropertyChanged` packets that arrive
  together, the second overwrites `callback_packet` (`kontroler.c:391`) before the
  thread of the first has copied it; it is applied twice, the first never, and
  the replica stays wrong until that device changes again.
- "Requested value has been set." is published before the command is passed on; for
  the value of a sensor, which no program takes commands for, none ever takes it.
- A line of the CLI with an empty element ends the CLI by an assert of `parse.h`.
- With a thread that calls `mqtt_unsubscribe`, two packets may get one identifier,
  since `mqtt.c:400` draws it outside the mutex: `PidsUnique` fails.
- After a timeout the second answer to a packet that was sent twice finds no
  request, and the client ends in `MQTT_ERROR_ACK_OF_UNKNOWN`: `AnswersAreKnown`
  fails with timeouts.
- When the broker reuses an identifier whose PUBREC is complete but still in the
  queue, the new message is dropped (`mqtt.c:723`, and `mqtt_mq_find`,
  `mqtt.c:1651-1662`, which looks at no state), and neither passed on nor answered, against
  `mqtt.h:1143-1144`: `PassedOn` fails in the instance of `mqtt_deliver`. `LostByReuse` says
  that nothing else is lost. If the broker repeats the dropped publish once the PUBREC is
  cleaned from the queue, it comes late: `PassedInOrder` fails with `MaxOut = 4`, where a
  fourth publish can overtake the third. In `mqtt_deliver` none follows the first one whose
  identifier is used again.
- Two `PropertyChanged` messages that are split at the same time by the controller can
  both pass the asserts with tokens of each other, and a device of the replica
  gets the value of another one: `DbValuesWereHeld` without its exception fails in
  `home_race`.
- A connection that the broker has closed reads as empty, so the client stays
  `MQTT_OK` until a send fails; `PublishArrives` and `PassedOn` except this case.
- A daemon of `lssdp` whose `lssdp_socket_create` failed stays deaf until its
  interfaces change again; `NeighborsConverge` excepts it.
- `mqtt_reinit` does not reset `send_offset`. In the mbedTLS build a client whose
  connection breaks in the middle of a packet writes the CONNECT of its next session
  from there on (`mqtt_wrap` with `MayReconnect = {TRUE}`: `WholePackets` fails); the
  broker closes that connection too, and the session after it starts right.
- An answer to M-SEARCH carries the address of a list of interfaces that may be
  stale: a host that has just moved is listed under its old address, until that
  entry times out.

Plain from the source:

- `mqtt_unpack_publish_response` refuses every body of less than four bytes, so a
  QoS 0 publish with a topic of one character and no message ends the client
  (`Unreadable` has it). `mqtt_pack_subscribe_request` refuses exactly
  `MQTT_SUBSCRIBE_REQUEST_MAX_NUM_TOPICS` topics, the number that `mqtt.h` allows.
- The lengths of texts are cut to `uint16_t` when they are written (`Truncated`). When
  they are added up, only a PUBLISH cuts them (`mqtt.c:1262`, `1266`); its message is
  copied whole (`mqtt.c:1301`).
- With `mqtt_init_reconnect` the queue has no buffer until the callback has run:
  a call before the first `mqtt_sync` reads in front of address 0.
- A reconnect drops the queue; publishes that the application got `MQTT_OK` for are
  gone without a word.

### Bounds

- `MaxLoad`, `UserLoad` (none to two): the sensor thread starts a reading, and the user a
  command, only while fewer packets, callbacks and threads are under way. A home has no
  such limit; the bound makes the state space finite. Each hazard takes at most three
  messages at a time (the two that race and the one that reveals it), which fit.
- `MaxFaults`: restarts and broken connections in all; one, so that its effects can be
  told from those of another. Where a sensor rests (`MaxLoad = 0`) the commands of
  the user are what moves. The proofs have no bound on faults.
- `Workers`: threads a program may have at one time. Two suffice for the races of
  two packets. The proofs have no bound on it.
- `SendCap`: messages that fit in a send buffer. One in the run where the
  buffer can fill; in the others more than `MaxLoad` lets pile up.
- `MaxPending`: commands typed ahead of the replies. Two, so that order matters.
- `Spaced` is a timing assumption, not a bound: the next packet arrives after the
  thread of the last one has ended. The sensor thread sleeps one second after
  each sensor and a user types slowly, so this is the usual case, and what the
  programs promise they promise for it. `home_race` and two of the theorems go without it.
  Restarts are in `home_rooms`, where packets are spaced; without spacing the theorems
  have them.
- `StrSplit`: `MaxCalls` texts per thread one after the other (two, so that a text
  meets what an earlier one left in the buffer); texts of up to four elements.
- `MessageQueue`: `BufSz` of 14 bytes holds up to three messages, so that
  packets are refused, cleaned away from the front and moved. No bound on the
  number of operations: the state space is finite.
- `MqttClient`: `NPids` identifiers instead of 65535, as a cyclic order in place
  of the shift register; `QueueCap` messages instead of bytes; `MaxCalls` calls;
  `MaxTicks` half timeouts, two of which make an answer late; `KeepAlive` in half
  timeouts. `TimedOut` caps ages. Identifiers come round (`mqtt_wrap`) only where
  nothing times out: with 65535 of them an answer that is still on its way from the
  previous round is out of the question, with four it would be the rule.
  `Leftovers`: the identifier field of a packet without one is what the memory held.
  `OldLfsr`: what `mqtt_init_reconnect` finds in `pid_lfsr`; one value, since the
  model is the same for all of them but for the names of the identifiers.
  `Reconnect` has no bound. What a second answer after a timeout does to an exchange is
  therefore not in `mqtt_wrap` (`AnswersAreKnown` fails there, see above).
- `MqttStream`: with `LengthBase = 3` in place of 128 a length takes one to four digits
  in packets of up to 80 bytes, and five digits can be seen; with `WordBase = 16` an
  identifier of 18 has two digits that differ. `RecvCap` of 14 is the size of one of
  the packets, another has one byte more. `MaxTopics` of 3 in place of 8. `MaxPackets`
  of two: one that follows another in the same read. The theorems on the stream have
  none of these bounds.
- `MqttBroker`: `MaxOut` publishes, `MaxResends` repetitions, `BrokerPids` identifiers in
  rotation; at most one exchange of the broker per identifier. In `mqtt_deliver` three
  publishes over two identifiers: two exchanges may be open at once, and the third publish
  has the identifier of the first, so that it may be dropped. QoS 1, which is neither held
  back nor ever dropped, is left to the theorems.
- `Lssdp`: `MaxEvents` counts everything that goes wrong or changes. Two are enough
  for a move while a datagram of the old place is under way, an address that
  changes hands, a failure and the recovery from it. `Timeout` is three periods as in
  the daemon (15 s and 5 s), `IfCap` two instead of sixteen, so that the list overflows.
  Ages count periods and stop at `Timeout`. TIMING: a period is long enough to
  finish the tasks and read what has arrived, and an address changes hands only
  after what its last owner sent was read.

### Fairness

Home: weak fairness for each thread's next step: refresher threads call `mqtt_sync`
every 100 ms for ever; a worker waits for nothing but the mutex, which a callback
always releases; the sensor thread loops for ever. No fairness for the user, for
restarts and for `Disconnect`: a command need not be typed and a connection need not
break. `Subscribe` is fair together with `Send`, for both are `__mqtt_send`.
`home_rooms` needs only `SensorSpec`: the sensor thread goes on, and the callback of
its client gives the mutex back.

MQTT client: weak fairness for the refresher thread, which calls `mqtt_sync` for ever
(`mqtt_helper.h`) and, with a reconnect callback, the callback; and for a broker that
reads what arrives. None for the application, for time, or for a broken connection.
In `mqtt_packets` one turn of the receive loop is fair: `mqtt_sync` is called for ever
and TCP delivers what was sent; the broker owes nothing.

`lssdp`: weak fairness for each daemon, whose loop never blocks for more than half a
second, and for the passing of periods. None for moves, losses, failures, stops and
starts; they are finitely many, and `NeighborsConverge` is about what follows.

Deadlock is not checked where the system may stop for good: in `home_rooms` and
`home_race` after `Disconnect` or the end of a pi, or when the user has nothing
left to type; in the runs of `StrSplit`, where every call ends; in `mqtt_packets`
after the last packet or an error; in `mqtt_partial`, which only looks for one state.

## 4. Proofs

Eight modules hold theorems; each assumes only the named assumptions of the module
it is about, and what the theorem itself says.

`SmartHomeProofs`: tables without a common device, a room and a threshold and initial
texts per device, rooms whose topics are none of the programs' own, a nonempty table per
pi, well-formed lines. The number of
devices, workers, packets and commands is arbitrary, and so are losses, restarts and
broken connections.

- `TypeCorrect`: `Spec => []TypeOK`. `TypeOK` is inductive as it stands, because
  it says per program counter what the locals hold: a worker in its loop has a
  value to write unless the automation computes it, a controller thread
  at "read" holds a question with a device left to read, one at "apply" a
  `PropertyChanged`. The proof has a lemma per program and in it a step per
  action.
- `ReplicaShowsHeldValues`: `Spec => []DbValuesWereHeld`. Not inductive: a value
  enters the replica from a thread, the thread has it from `callback_packet`,
  that from a queue, the queue from a worker or the sensor thread, and those from
  a device or, after a restart, from the values compiled in, which `InitialHeld` says
  the devices had. `HeldInv` says of each of these places that what it holds about a
  device was held by that device. `held` only grows, so each step needs a look only
  at the place it writes. The crucial case is `Apply`: the device, the field
  and the value come from one copy of the text, and if that was split while others were
  in `str_split` too, the text is `Stray` and `mixed` is set (`Mingled`), which the
  property allows. Nothing else that a thread does with such a message enters the
  replica. (Were the value read from
  `callback_packet` again, as `Forward` does, the theorem would fail: that is the
  mutant of this property.)

Three more are about what the programs promise when each works on one message at a time.
They assume `Spaced`, without which a second packet overwrites `callback_packet` before
the thread of the first has read it and all three are false. `SpacedInv`, which all three
use, draws the consequences: one worker per program at most, whose text is the one in
`callback_packet`, and packets that only their topic's sender can have sent.

- `ReplicaConverges`: `Spec => []DbConverges`, with restarts, broken
  connections, full send buffers and `stale` as in the run. The question is whether the
  last report of a field is right. `DbInv` says, for each device and field of a running
  pi, that its change is about to be reported (`ToReport`), or the newest report on its
  way in the queue of the pi and that of the controller has the value the device has, or,
  with no report on its way, the replica shows it or a thread is about to write it
  (`Shows`). `Through` says this of any two queues in a row, and the lemmas on it serve
  the next theorem too: a packet that is sent moves from one queue to the other, one that
  is published becomes the newest, one that is consumed has its effect.
- `RoomsConverge`: `AutomationConverges`, for homes with one sensor per room
  (`OneSensorPerRoom`), whose users set no status of an actuator (`NoStatusSet`), and
  whose compiled statuses fit the compiled readings (`InitialAgrees`). The tables of
  `senzorski_pi.c:112-173` and `aktuatorski_pi.c:110-183` are such: no topic has two
  sensors, every reading is below 25 degrees and every status is `OFF`; so is the instance
  of `home_rooms`. Two sensors that disagree about a room, or a user who
  overrides the automation, leave no status to converge to. `AutomationInv` follows a
  reading from the sensor thread through both queues into the callback and the worker: a
  worker with the newest reading has the actuator still ahead in its loop or has left
  it right (`Following`). The loop works on one actuator after the other, so
  the status of one is wrong while its reading is already consumed; and a worker skips
  a device that has the status already, which is right only as no other worker of the
  pi can change it meanwhile.
- `RepliesAnswer`: `RepliesInOrder`, if the controller is not started again
  (`Kontroler \notin MayRestart`): a restart loses requests, and nothing in a reply says
  which one it answers. `ReplyInv` cuts the commands that are not answered into those
  whose reply has been sent, is queued at the controller, is being worked out by its
  thread, and those whose request has arrived or is still queued at the CLI, each part in
  order. `Fits` says that the packets of a queue match a stretch of the commands one by
  one, past other packets between them (reports of the pis among requests, forwarded
  commands among replies), by a function that counts; so a recursion over the queue is
  not needed. What makes it hold is that each branch of
  `distribute_pub_message` publishes to `ui_topic` exactly once, and that the
  reply about all devices has read one value per device, each of which the device has
  had (`AnswerSound`). A client error
  of the controller ends its replies for good and so leaves no gap.

TLC checks the three invariants too, in a module that extends `MCSmartHome` with their
definitions; they hold on instances like those of `home_rooms` and `home_user`.

`StrSplitProofs`: any threads, buffers, texts and number of calls.

- `TypeCorrect`: every access of every thread stays inside a buffer. It needs that
  each buffer keeps a null at its end (`Cut` writes only before it), and that
  `strtok` goes on from a pointer that someone has set.
- `AllTokensAreElements`: `TokensAreElements`, by `MixInv`. As long as no buffer is used
  twice, each still has its text but for delimiters that are null now (`Stands`);
  `strtok`'s pointer stands where an element begins, or where there is none left, in
  whatever text it is (`Begins`); so what any thread finds from there is an element
  (`Cuts`), also when another one has cut the same text in between.
- `SplitInverts`: `SplitInvertsJoin`, for every text and whatever an earlier one left in
  the buffer. The first step of every other thread makes it begin, so only the steps of
  the thread itself count, and `AloneInv` says where each leaves it (`Phase`): the buffer
  has the text, with a null for each delimiter that ended a token before the place `p`
  where `strtok` goes on (`Holds`), and `Tokens` has the tokens stored up to there. They
  are as many as the delimiters before `p` that follow another character (`Ends`), and
  join to what is before `p` as long as no element there is empty. At the end the second
  assert compares the number of all delimiters, which `str_split` counted, with that of
  `Ends`: they are equal exactly if no element is empty. `Join` is a recursive function; a
  sequence of partial results (`JoinsTo`) stands for it in the invariant and is extended
  by each `Store`.

`MessageQueueProofs`: any size of buffer and descriptor, any packets.

- `TypeCorrect`, `LayoutHolds`, `BytesAreKept`. Layout and bytes are not inductive
  each by itself. The proofs go through a predicate `Good` of a memory, a number of
  messages and a position, which says that messages follow each other from 0 to that
  position, each with its bytes, with room for the descriptors behind. `Good` is
  stated for any memory, because `TryPack` cleans and registers in one step:
  `CleanedGood` shows that the memory after cleaning is `Good`, and `RegisterKeeps`
  goes on from any `Good` memory with room for the packet. From `curr_sz` being exact
  follows that a packet that fits also leaves room for its descriptor (`RoomInside`),
  which is where an off-by-one would show.
- `QueueIsFifo`: `Spec => ImplementsFifo`, the refinement. In a `Good` memory the bytes are
  the packets as packed (`ReadAsPacked`), so the abstract queue can be read off the
  descriptors; cleaning is `Pending` (`CleanedIsPending`) and there is room exactly where
  the abstract queue has some (`FitsIsRoom`). The number of bytes that `MessageFifo` counts
  is a recursive function; it needs no induction over data, because the starts of the
  packets in the descriptors are its partial sums (`OccupiedIs`).

`MqttPacketProofs`: any base of the length digits and any length below its fourth power.

- `HeaderRoundTrip`: a header that `mqtt_pack_fixed_header` packs fits in its room with
  the body, is read back exactly whatever follows it, and with one byte of the packet
  missing `mqtt_unpack_fixed_header` waits. It joins what each side does: `LengthDigits`
  says which digits are written for a number, each but the last one marked,
  `HeaderIsRead` that those digits are read as that number. Both walk through the four
  possible counts of digits, since the code gives up after four.

`MqttStreamProofs`: any size of the receive buffer, any packets of the broker within the
standard (`IncomingAssumption`), any strays that the client cannot read
(`StrayAssumption`: it knows so when it has all of one or before).

- `TypeCorrect`: the buffer never holds more than its size, whatever is read in one go.
- `PacketsAreWhole`: `Spec => ImplementsPacketStream`, the refinement. `StreamInv`, the
  inductive invariant, says that there is one sequence of all bytes ever sent, cut where
  the packets end, and that the buffer followed by what is in the net is the part behind
  the packets received. That needs no history variable: the sequence is quantified. A
  step of the broker makes it longer (`StreamGrows`), a read moves bytes from the net to
  the buffer (`RestMoves`), and an unpacked packet takes its bytes from the front
  (`StreamRead`). What the client unpacks there is the packet that comes next
  (`ComingIsRead`): `PacketIsRead` computes it from the bytes of that packet alone, type
  by type, and `FirstBytesDecide` says that the bytes behind a packet do not change
  it, for any bytes at all.
- `PackingFits`: `Spec => []PackedFits`, for any requests within the types of `mqtt.h`
  (`RequestsAssumption`), any texts, any number of topics and any room. The code adds up
  a length first, checks the room against it, and writes afterwards without looking
  again, so what has to be shown is that each body is no longer than the length: `FlatFits`
  for the lists of topics and the texts of a CONNECT, `PublishFits` and the rest for each
  type. `Total` and `FlattenSeq` are recursive functions; that they exist at all
  (`Recursion`) is an induction up to their last index. The theorem assumes
  `PublishesMeasured`, that the topic and the message of no publish are longer than
  `uint16_t` counts. Without it the sum is not a bound, and the code states no such limit;
  the programs publish texts of at most 1400 bytes (`kontroler.c:291`).

`MqttSessionProofs`: any number of identifiers, calls, threads, repetitions and sessions,
any capacity of the queue below the number of identifiers, both kinds of platform, a
broker that refuses or not.

- `TypeCorrect`, `OneAwaitsAnswer`, `IdentifiersUnique`: by the inductive invariant `Inv`,
  which is about the queue as a value (`QueueOK`), because every step of the client does to
  the queue one of four things: it packs a message, behind the queue or behind what
  cleaning leaves of it (`Packed`), changes the state of one, starts with an
  empty one or leaves it alone. A lemma per
  thing then serves all actions. Of the QoS 2 publishes in the queue none waits for its
  answer behind another that is not complete (`OneAwaits`), whatever was sent, timed
  out or lost. `IdentifiersUnique` assumes `Threads = {}`, for a thread that calls
  `mqtt_unsubscribe` draws outside the mutex and may draw what another one draws.
- `PassedAtMostOnce`: `PassedOnce` (part of `PassedInOrder`), with no assumption on what
  the broker repeats and which identifiers it reuses. `OnceInv` speaks of everything that
  may still reach the client: what is on its way and what the broker may send again. A
  publish that was passed on and may come again is guarded by a PUBREC in the queue that
  is not complete, and only its PUBREL, which comes after the last copy, completes that
  PUBREC.
- `CompletedIsReceived`, `HeldFinishes`, `OneQos2IsSent`: `CompleteIsReceived`,
  `HeldIsFinished` and `OneInflightQos2`, by the common invariant `ReceivedInv`.
  (`OneInflightQos2` is about the client's queue: the publish behind one that has its
  PUBREC may be sent ahead of that one's PUBREL, and the broker then holds two.) It says
  of each packet under way in either direction what its message in the queue and the
  broker have reached. They assume `[][DrawsFree]_vars`: the client draws no identifier of
  an exchange of which a packet is still under way. `__mqtt_next_pid` looks at the queue
  and not at the network, but all 65535 identifiers are drawn before one comes round.
  Without the hypothesis all three are false, with any number of identifiers: after enough
  calls the late answer to a repeated packet completes a publish that was never sent. What
  TLC checks without the hypothesis it checks where identifiers do not come round.
- `AllReceivedInOrder`: `OrderedAtBroker`, also under `[][DrawsFree]_vars`, through
  timeouts, partial writes, cleanings and new connections. `OrderInv` follows the
  publishes through the four places where they are at a moment: the queue, the packets
  under way, what the broker holds and what it has taken over. Each QoS is kept in order
  by something else. QoS 0 never waits for an answer: what is not sent yet is later than
  all that is under way (`Zeros`). QoS 1 may be sent again, so only first copies are in
  order: whatever is under way, each earlier publish is at the broker or gets there before
  it, unless the broker closes the connection on the way (`Earlier`, `Ones`). QoS 2 is
  taken over at its PUBREL: of all the publishes that may still be taken over (`Live`), a
  PUBREL in the queue or under way comes behind those of all earlier ones (`Twos`), and
  the step that needs most is the one that packs a PUBREL: only one publish of QoS 2 is
  sent at a time (`OneSent` in `ReceivedInv`, the loop over `inflight_qos2`,
  `mqtt.c:504-515`).
- `AllPassedOn`: `PassedOn`, if the connection is not replaced, which loses what was under
  way, and under `[][BrokerDrawsFree]_vars`: the broker starts no QoS 2 exchange with an
  identifier of which a publish is still on its way or the client has a PUBREC in its
  queue. A broker that has seen its PUBCOMP cannot know of the second: the PUBREC stays in
  the queue, complete, until it is cleaned, and a publish with its identifier is dropped
  as a duplicate (`mqtt.c:722-725`), acknowledged by nothing. Without the hypothesis both
  `PassedOn` and `PassedInOrder` are false (section 3). `PassedInv` says that what would
  be dropped has been passed on.
- `AllPassedInOrder`: `PassedInOrder` under the same hypothesis, with reconnections too.
  For QoS 2 the invariant (`TwosInOrder`) says that what has not been passed on is later
  than all that was; that first copies are under way in the order of the publishes; and
  that while the connection is up none of them has been lost, so that a repetition comes
  behind its first copy.
- `AnswersFindRequests`: `AnswersAreKnown`, if the broker repeats nothing (`MaxResends = 0`)
  and the client sends no message a second time (`[][SentOnce]_vars`). Both are needed:
  the second answer to one request finds none. Identifiers may come round, and two
  threads may even draw the same one. `KnownInv` says that there is a function that gives
  each answer under way, and each request that will be answered, a message of its own in
  the queue that waits for it; every step is shown to leave such a function.

`LssdpProofs`: any number of hosts, networks, addresses and interfaces.

- `TypeCorrect`, with a list of interfaces that never outgrows its array, and
  `CallbackHearsAll` (`ShownIsCurrent`): every change of the neighbour list ends in
  `neighbor_list_changed_callback`, on every path through a task.
- `OneNeighborPerLocation` (`NoneTwice`): a neighbour is added only when its location is
  nowhere in the list, and what else changes the list takes some away or keeps locations.
- `NeverItsOwnNeighbor` (`NeverItself`): `lssdp_socket_read` compares the sender with a
  list of interfaces that may be out of date. `Inv` says that no two hosts have the same
  address but loopback, and that of what waits at a host, what it sent itself came from
  an address that it still lists: a host that loses an address it sent from has
  read what it sent, and renewing the list keeps the addresses in use.

`MinMaxProofs`: `Min` and `Max` of `FiniteSetsExt` return an element that bounds the
set, for nonempty sets of integers that are finite, and what holds of 0 and goes on
from each number to the next holds up to any bound (stated for a set, so that the
provers can use it).

Only model-checked:

- all liveness (`AllReceived`, `Reconnected`, `NeighborsConverge` and the rest), which is
  beyond the prover;
- `PackedIsRead`: it compares what one recursive definition builds with what another one
  reads from it.

## 5. Not modelled, with the reason

- `inspector_callback`, which the application sets and no program of the repository
  does; a reconnect callback that does not do what `mqtt.h` asks of it (one that
  returns without `mqtt_connect` leaves the mutex locked), and sessions that are not
  clean, in which the broker remembers what the client has dropped.
- The order in `exit_example` of closing the socket and cancelling the thread: the
  process ends right after.
- A publish of the broker whose topic is longer than the packet: the client reads behind
  the packet, and a broker that keeps to the standard does not send it.
- The parser of `lssdp` fields, byte by byte: `Lssdp` has what the fields mean.
- The BIO, TLS and Windows variants of the platform layer but for the half writes of
  mbedTLS, opening sockets, printing, the generated documentation, the unit tests,
  the C++ prototype that is not built: no state of the system, or code that is not
  part of the programs.
- Of IP multicast the model has what hosts in common networks see of each other; which
  interface a membership for `INADDR_ANY` picks on a host in several networks is the
  system's choice.
