-------------------------- MODULE SmartHomeProofs --------------------------
(***************************************************************************)
(* Proofs about the smart home, for every table of devices, every number   *)
(* of worker threads, every order of packets and every loss.               *)
(***************************************************************************)
EXTENDS SmartHome, SequenceTheorems, TLAPS

-----------------------------------------------------------------------------
(* Messages and packets.                                                   *)

\* What the constructors of messages build.
LEMMA MessageTypes ==
  /\ \A v \in Texts : SensorMes(v) \in Messages
  /\ \A d \in Devices, f \in Fields, v \in Texts : PropertyChanged(d, f, v) \in Messages
  /\ \A vs \in Seq(Texts \cup {OutOfBounds}), g \in BOOLEAN : Values(vs, g) \in Messages
  /\ \A f \in Fields : HasBeenSet(f) \in Messages
  /\ NonExistent \in Messages
  /\ Commands \subseteq Messages
  /\ \A t \in Topics, m \in Messages : [topic |-> t, mes |-> m] \in Packets
BY DEF SensorMes, PropertyChanged, Values, HasBeenSet, NonExistent, Messages, Changes,
       Replies, Commands, Packets

\* What the type token of a message says of its other tokens.
LEMMA MessageParts ==
  ASSUME NEW m \in Messages
  PROVE  /\ m.type = "Sensor_Mes" => m.value \in Texts
         /\ m.type = "Set_Dev" => m \in Sets /\ m.value \in Texts
         /\ m.type = "Get_Dev" => m \in Asks
         /\ m.type = "PropertyChanged" => m \in Changes
         /\ m # NoMessage
BY DEF Messages, Changes, Commands, Asks, Sets, Replies, NonExistent, Texts, NoMessage

\* A sequence lies over every set that holds its elements.
LEMMA ImageSeq ==
  ASSUME NEW S, NEW T, NEW s \in Seq(S), Image(s) \subseteq T
  PROVE  s \in Seq(T)
<1>1. Len(s) \in Nat /\ s \in [1..Len(s) -> S]
  BY LenProperties
<1>2. s \in [1..Len(s) -> T]
  BY <1>1 DEF Image
<1> QED BY <1>1, <1>2, SeqDef

\* Devices are the entries of the tables, and their rooms are topics.
LEMMA TableTypes ==
  /\ SensorTable \in Seq(Devices) /\ Len(SensorTable) \in Nat \ {0}
  /\ \A p \in Pis : Table(p) \in Seq(Devices) /\ Len(Table(p)) \in Nat \ {0}
  /\ \A d \in Devices : Place[d] \in Topics
  /\ KontrolerTable \in Seq(Targets) /\ KontrolerTable # <<>>
  /\ KontrolerTable \in Seq(Devices)
<1>1. SensorTable \in Seq(Devices) /\ ActuatorTable \in Seq(Devices)
  BY ImageSeq, TablesAssumption DEF Devices, Sensors, Actuators
<1>2. Len(SensorTable) \in Nat \ {0} /\ Len(ActuatorTable) \in Nat \ {0}
  BY <1>1, TablesAssumption, EmptySeq
<1>3. KontrolerTable \in Seq(Devices) /\ Len(KontrolerTable) # 0
  BY <1>1, <1>2, ConcatProperties DEF KontrolerTable
<1>4. Devices \subseteq Targets
  BY DEF Targets, Ids
<1>5. KontrolerTable \in Seq(Targets) /\ KontrolerTable # <<>>
  BY <1>3, <1>4, SeqMonotonic, EmptySeq
<1>6. \A d \in Devices : Place[d] \in Topics
  BY DEF Topics
<1> QED BY <1>1, <1>2, <1>3, <1>5, <1>6 DEF Table

-----------------------------------------------------------------------------
(* Type correctness, one lemma per program.                                *)

\* mqtt_publish keeps the types of queues and errors.
LEMMA PublishTypes ==
  ASSUME BusTypeOK, NEW c \in Clients, NEW t \in Topics, NEW m \in Messages,
         Publish(c, t, m), up' \in [Clients -> BOOLEAN]
  PROVE  BusTypeOK'
<1> DEFINE p == [topic |-> t, mes |-> m]
<1>1. Append(outbox[c], p) \in Seq(Packets)
  BY MessageTypes, AppendProperties DEF BusTypeOK
<1>2. outbox' \in [Clients -> Seq(Packets)]
  BY <1>1 DEF BusTypeOK, Publish
<1>3. error' \in [Clients -> Errors]
  BY DEF BusTypeOK, Publish, Errors
<1> QED BY <1>2, <1>3 DEF BusTypeOK, Publish

\* The same of a publish whose error ends the program.
LEMMA PublishOrExitTypes ==
  ASSUME BusTypeOK, NEW c \in Pis, NEW t \in Topics, NEW m \in Messages,
         PublishOrExit(c, t, m)
  PROVE  BusTypeOK'
<1>1. c \in Clients /\ up' \in [Clients -> BOOLEAN]
  BY DEF BusTypeOK, PublishOrExit, Clients
<1> QED BY <1>1, PublishTypes DEF PublishOrExit

\* The network keeps the types.
LEMMA BusStepTypes ==
  ASSUME BusTypeOK, NEW c \in Clients, BusStep(c)
  PROVE  BusTypeOK'
<1>1. CASE Send(c)
  <2> DEFINE p == Head(outbox[c])
  <2>1. p \in Packets /\ Tail(outbox[c]) \in Seq(Packets)
    BY <1>1, HeadTailProperties DEF BusTypeOK, Send
  <2>2. \A s \in Clients : Append(inbox[s], p) \in Seq(Packets) /\ inbox[s] \in Seq(Packets)
    BY <2>1, AppendProperties DEF BusTypeOK
  <2>3. inbox' \in [Clients -> Seq(Packets)]
    BY <1>1, <2>2 DEF Send
  <2>4. outbox' \in [Clients -> Seq(Packets)]
    BY <1>1, <2>1 DEF Send, BusTypeOK
  <2> QED BY <1>1, <2>3, <2>4 DEF Send, BusTypeOK
<1>2. CASE Subscribe(c)
  BY <1>2 DEF Subscribe, BusTypeOK
<1> QED BY <1>1, <1>2 DEF BusStep

\* A connection that breaks and a program that starts again keep the types.
LEMMA FaultBusTypes ==
  ASSUME BusTypeOK, NEW c \in Clients, Disconnect(c) \/ Reboot(c)
  PROVE  BusTypeOK'
<1>1. <<>> \in Seq(Packets) /\ "socket" \in Errors /\ "none" \in Errors
  BY EmptySeq DEF Errors
<1>2. CASE Disconnect(c)
  BY <1>1, <1>2 DEF Disconnect, BusTypeOK
<1>3. CASE Reboot(c)
  BY <1>1, <1>3 DEF Reboot, BusTypeOK
<1> QED BY <1>2, <1>3

\* A packet that has arrived leaves a queue of packets.
LEMMA ArrivedTypes ==
  ASSUME BusTypeOK, NEW c \in Clients, Arrived(c)
  PROVE  /\ Head(inbox[c]) \in Packets /\ Tail(inbox[c]) \in Seq(Packets)
         /\ Head(inbox[c]).mes \in Messages /\ Head(inbox[c]).topic \in Topics
<1>1. Head(inbox[c]) \in Packets /\ Tail(inbox[c]) \in Seq(Packets)
  BY HeadTailProperties DEF BusTypeOK, Arrived
<1> QED BY <1>1 DEF Packets

\* The loop of a worker stands at a device, and so does that of the sensors.
LEMMA VisitedTypes ==
  /\ \A p \in Pis : \A r \in WorkerStates(p) : Visited(p, r) \in Devices
  /\ PiTypeOK => Sensed \in Devices
<1>1. \A p \in Pis : \A i \in 1..Len(Table(p)) : Table(p)[i] \in Devices
  BY TableTypes, ElementOfSeq
<1>2. \A i \in 1..Len(SensorTable) : SensorTable[i] \in Devices
  BY TableTypes, ElementOfSeq
<1> QED BY <1>1, <1>2 DEF Visited, WorkerStates, Sensed, PiTypeOK

\* strcpy into a field keeps the types of the devices and of their history.
LEMMA WriteFieldTypes ==
  ASSUME PiTypeOK, NEW d \in Devices, NEW f \in Fields, NEW v \in Texts,
         WriteField(d, f, v)
  PROVE  /\ dev' \in [Devices -> [Fields -> Texts]]
         /\ held' \subseteq Devices \X Fields \X Texts
         /\ dev'[d][f] = v
BY DEF PiTypeOK, WriteField

\* One worker changes its state: the others keep theirs.
LEMMA WorkerChanges ==
  ASSUME PiTypeOK, NEW p \in Pis, NEW w \in Workers, NEW r, WorkerOK(p, r),
         worker' = [worker EXCEPT ![p][w] = r]
  PROVE  /\ DOMAIN worker' = Pis
         /\ \A q \in Pis : /\ DOMAIN worker'[q] = Workers
                           /\ \A v \in Workers : WorkerOK(q, worker'[q][v])
BY DEF PiTypeOK


\* A worker that starts has nothing left of an earlier message.
LEMMA IdleTypes ==
  ASSUME NEW p \in Pis
  PROVE  Idle \in WorkerStates(p) /\ WorkerOK(p, Idle)
<1>1. 1 \in 1..Len(Table(p)) /\ Len(Table(p)) \in Nat
  BY TableTypes
<1>2. Idle \in WorkerStates(p)
  BY <1>1 DEF Idle, WorkerStates, Fields
<1> QED BY <1>2 DEF Idle, WorkerOK

\* The next turn of the loop of a worker is at a device of the table.
LEMMA AdvanceTypes ==
  ASSUME NEW p \in Pis, NEW r \in WorkerStates(p), WorkerOK(p, r),
         r.pc \in {"loop", "publish"}
  PROVE  WorkerOK(p, Advance(p, r))
<1>1. CASE r.i = Len(Table(p))
  BY <1>1, IdleTypes DEF Advance
<1>2. CASE r.i # Len(Table(p))
  <2> DEFINE n == [r EXCEPT !.pc = "loop", !.i = @ + 1, !.out = NoText]
  <2>1. r.i + 1 \in 1..Len(Table(p))
    BY <1>2, TableTypes DEF WorkerStates
  <2>2. n \in WorkerStates(p) /\ n.pc = "loop" /\ n.auto = r.auto /\ n.arg = r.arg
    BY <2>1 DEF WorkerStates
  <2> QED BY <1>2, <2>2 DEF Advance, WorkerOK
<1> QED BY <1>1, <1>2

\* check_device_condition returns a status.
LEMMA WantedTypes ==
  \A d, v : Wanted(d, v) \in Texts
BY DEF Wanted, Texts, Statuses

\* publish_callback keeps the types.
LEMMA PiCallbackTypes ==
  ASSUME BusTypeOK, PiTypeOK, NEW p \in Pis,
         CallbackTopic(p) \/ \E w \in Workers : CallbackMes(p, w)
  PROVE  BusTypeOK' /\ PiTypeOK'
<1>0. p \in Clients
  BY DEF Clients
<1>1. CASE CallbackTopic(p)
  <2>1. /\ Head(inbox[p]) \in Packets /\ Tail(inbox[p]) \in Seq(Packets)
        /\ Head(inbox[p]).topic \in Topics
    BY <1>0, <1>1, ArrivedTypes DEF CallbackTopic
  <2>2. BusTypeOK'
    BY <1>1, <2>1 DEF CallbackTopic, BusTypeOK
  <2>3. callback' \in [Pis -> [topic : Topics \cup {"none"},
                               mes : Messages \cup {NoMessage}, whole : BOOLEAN]]
    BY <1>1, <2>1, ZenonT(60) DEF CallbackTopic, PiTypeOK
  <2>4. UNCHANGED <<dev, worker, sensing, held>>
    BY <1>1 DEF CallbackTopic
  <2> QED BY <2>2, <2>3, <2>4 DEF PiTypeOK
<1>2. ASSUME NEW w \in Workers, CallbackMes(p, w)
      PROVE  BusTypeOK' /\ PiTypeOK'
  <2>1. delivering[p].mes \in Messages
    BY <1>0, <1>2 DEF CallbackMes, BusTypeOK, Packets
  <2>2. BusTypeOK'
    BY <1>2 DEF CallbackMes, BusTypeOK
  <2> DEFINE c == [callback[p] EXCEPT !.mes = delivering[p].mes, !.whole = TRUE]
             r == [worker[p][w] EXCEPT !.pc = "start"]
  <2>3. callback' \in [Pis -> [topic : Topics \cup {"none"},
                               mes : Messages \cup {NoMessage}, whole : BOOLEAN]]
    <3>1. c \in [topic : Topics \cup {"none"}, mes : Messages \cup {NoMessage},
                 whole : BOOLEAN]
      BY <2>1, ZenonT(60) DEF PiTypeOK
    <3>2. callback' = [callback EXCEPT ![p] = c]
      BY <1>2 DEF CallbackMes, PiTypeOK
    <3> QED BY <3>1, <3>2 DEF PiTypeOK
  <2>4. WorkerOK(p, r)
    <3>1. worker[p][w] \in WorkerStates(p)
      BY DEF PiTypeOK, WorkerOK
    <3>2. r \in WorkerStates(p) /\ r.pc = "start"
      BY <3>1 DEF WorkerStates
    <3> QED BY <3>2 DEF WorkerOK
  <2>5. worker' = [worker EXCEPT ![p][w] = r]
    BY <1>2 DEF CallbackMes
  <2> QED BY <1>2, <2>2, <2>3, <2>4, <2>5, WorkerChanges DEF CallbackMes, PiTypeOK
<1> QED BY <1>1, <1>2

\* The branches of distribute_pub_message find the tokens they use.
LEMMA BranchTypes ==
  ASSUME NEW p \in Pis, NEW m \in Messages \cup {NoMessage}
  PROVE  WorkerOK(p, Branch(m)) /\ Branch(m).pc # "publish"
<1>1. CASE m.type = "Sensor_Mes"
  <2>1. m.value \in Texts
    BY <1>1, MessageParts DEF NoMessage
  <2> QED BY <1>1, <2>1, IdleTypes DEF Branch, Idle, WorkerOK, WorkerStates
<1>2. CASE m.type = "Set_Dev"
  <2>1. m.value \in Texts /\ m.field \in Fields /\ m.id \in Targets
    BY <1>2, MessageParts DEF NoMessage, Sets
  <2> QED BY <1>2, <2>1, IdleTypes DEF Branch, Idle, WorkerOK, WorkerStates
<1>3. CASE m.type \notin {"Sensor_Mes", "Set_Dev"}
  <2>1. Branch(m) = Idle
    BY <1>3 DEF Branch
  <2>2. Idle.pc = "idle"
    BY DEF Idle
  <2> QED BY <2>1, <2>2, IdleTypes
<1> QED BY <1>1, <1>2, <1>3

\* distribute_pub_message keeps the types.
LEMMA WorkTypes ==
  ASSUME BusTypeOK, PiTypeOK, NEW p \in Pis, NEW w \in Workers, Work(p, w)
  PROVE  BusTypeOK' /\ PiTypeOK'
<1> DEFINE r == worker[p][w]
<1>0. p \in Clients /\ WorkerOK(p, r) /\ r \in WorkerStates(p) /\ Visited(p, r) \in Devices
  BY VisitedTypes DEF Clients, PiTypeOK, WorkerOK
<1>1. CASE Split(p, w)
  <2>1. WorkerOK(p, Branch(callback[p].mes))
    BY BranchTypes DEF PiTypeOK
  <2>2. worker' = [worker EXCEPT ![p][w] = Branch(callback[p].mes)]
    BY <1>1 DEF Split
  <2>3. BusTypeOK'
    BY <1>1 DEF Split, busVars, BusTypeOK
  <2>4. callback' \in [Pis -> [topic : Topics \cup {"none"},
                               mes : Messages \cup {NoMessage}, whole : BOOLEAN]]
    BY <1>1, ZenonT(60) DEF Split, PiTypeOK
  <2> QED BY <1>1, <2>1, <2>2, <2>3, <2>4, WorkerChanges DEF Split, PiTypeOK
<1>2. CASE SplitAgain(p, w)
  <2> DEFINE n == [Idle EXCEPT !.pc = "topic", !.auto = TRUE]
  <2>1. WorkerOK(p, n)
    BY IdleTypes DEF Idle, WorkerOK, WorkerStates
  <2>2. BusTypeOK'
    BY <1>0, <1>2 DEF SplitAgain, BusTypeOK
  <2> HIDE DEF n
  <2>3. UNCHANGED worker \/ worker' = [worker EXCEPT ![p][w] = n]
    BY <1>2 DEF SplitAgain, n
  <2>4. UNCHANGED <<dev, callback, sensing, held>>
    BY <1>2 DEF SplitAgain
  <2>5. CASE UNCHANGED worker
    BY <2>2, <2>4, <2>5 DEF PiTypeOK
  <2>6. CASE worker' = [worker EXCEPT ![p][w] = n]
    <3>1. /\ DOMAIN worker' = Pis
          /\ \A q \in Pis : /\ DOMAIN worker'[q] = Workers
                              /\ \A v \in Workers : WorkerOK(q, worker'[q][v])
      BY <2>1, <2>6, WorkerChanges
    <3> QED BY <2>2, <2>4, <3>1 DEF PiTypeOK
  <2> QED BY <2>3, <2>5, <2>6
<1>3. CASE ReadTopic(p, w)
  <2> DEFINE n == [r EXCEPT !.topic = callback[p].topic, !.pc = "loop"]
  <2>1. WorkerOK(p, n)
    BY <1>0, <1>3 DEF PiTypeOK, WorkerOK, WorkerStates, ReadTopic, At
  <2>2. worker' = [worker EXCEPT ![p][w] = n]
    BY <1>3 DEF ReadTopic
  <2>3. BusTypeOK'
    BY <1>3 DEF ReadTopic, busVars, BusTypeOK
  <2> HIDE DEF n
  <2>4. /\ DOMAIN worker' = Pis
        /\ \A q \in Pis : /\ DOMAIN worker'[q] = Workers
                          /\ \A v \in Workers : WorkerOK(q, worker'[q][v])
    BY <2>1, <2>2, WorkerChanges
  <2>5. UNCHANGED <<dev, callback, sensing, held>>
    BY <1>3 DEF ReadTopic
  <2> QED BY <2>3, <2>4, <2>5 DEF PiTypeOK
<1>4. CASE Loop(p, w)
  <2>1. WorkerOK(p, [r EXCEPT !.pc = "write"]) /\ WorkerOK(p, Advance(p, r))
    BY <1>0, <1>4, AdvanceTypes DEF WorkerOK, WorkerStates, Loop, At
  <2>2. BusTypeOK'
    BY <1>4 DEF Loop, busVars, BusTypeOK
  <2>3. PICK n : WorkerOK(p, n) /\ worker' = [worker EXCEPT ![p][w] = n]
    BY <1>4, <2>1 DEF Loop
  <2> QED BY <1>4, <2>2, <2>3, WorkerChanges DEF Loop, PiTypeOK
<1>5. CASE Write(p, w)
  <2> DEFINE n == [r EXCEPT !.pc = "format"]
  <2>1. WorkerOK(p, n)
    BY <1>0, <1>5 DEF WorkerOK, WorkerStates, Write, At
  <2>2. worker' = [worker EXCEPT ![p][w] = n]
    BY <1>5 DEF Write
  <2>3. PICK v \in Texts : WriteField(Visited(p, r), r.field, v)
    BY <1>0, <1>5, WantedTypes DEF Write, At, WorkerOK
  <2>4. dev' \in [Devices -> [Fields -> Texts]] /\ held' \subseteq Devices \X Fields \X Texts
    BY <1>0, <2>3, WriteFieldTypes DEF WorkerStates
  <2>5. BusTypeOK'
    BY <1>5 DEF Write, busVars, BusTypeOK
  <2> HIDE DEF n
  <2> QED BY <1>5, <2>1, <2>2, <2>4, <2>5, WorkerChanges DEF Write, PiTypeOK
<1>6. CASE Format(p, w)
  <2> DEFINE n == [r EXCEPT !.out = dev[Visited(p, r)][r.field], !.pc = "publish"]
  <2>0. dev[Visited(p, r)][r.field] \in Texts
    BY <1>0 DEF PiTypeOK, WorkerStates
  <2>1. WorkerOK(p, n)
    BY <1>0, <1>6, <2>0 DEF WorkerOK, WorkerStates, Format, At
  <2>2. worker' = [worker EXCEPT ![p][w] = n]
    BY <1>6 DEF Format
  <2>3. BusTypeOK'
    BY <1>6 DEF Format, busVars, BusTypeOK
  <2> HIDE DEF n
  <2>4. /\ DOMAIN worker' = Pis
        /\ \A q \in Pis : /\ DOMAIN worker'[q] = Workers
                          /\ \A v \in Workers : WorkerOK(q, worker'[q][v])
    BY <2>1, <2>2, WorkerChanges
  <2>5. UNCHANGED <<dev, callback, sensing, held>>
    BY <1>6 DEF Format
  <2> QED BY <2>3, <2>4, <2>5 DEF PiTypeOK
<1>7. CASE Report(p, w)
  <2>1. WorkerOK(p, Advance(p, r))
    BY <1>0, <1>7, AdvanceTypes DEF Report, At
  <2>2. worker' = [worker EXCEPT ![p][w] = Advance(p, r)]
    BY <1>7 DEF Report
  <2>3. ControlerTopic \in Topics /\ PropertyChanged(Visited(p, r), r.field, r.out) \in Messages
    BY <1>0, <1>7, MessageTypes DEF Topics, OwnTopics, Report, At, WorkerOK, WorkerStates
  <2>4. BusTypeOK'
    BY <1>7, <2>3, PublishOrExitTypes DEF Report
  <2> QED BY <1>7, <2>1, <2>2, <2>4, WorkerChanges DEF Report, PiTypeOK
<1> QED BY <1>1, <1>2, <1>3, <1>4, <1>5, <1>6, <1>7 DEF Work

\* The sensor thread keeps the types.
LEMMA SensorTypes ==
  ASSUME BusTypeOK, PiTypeOK, SensorReport \/ SensorPublish \/ \E v \in Readings : Sense(v)
  PROVE  BusTypeOK' /\ PiTypeOK'
<1>0. Sensed \in Devices /\ dev[Sensed].Value \in Texts /\ "senzorski_pi" \in Pis
  BY VisitedTypes DEF PiTypeOK, Pis, Fields
<1>1. CASE SensorReport
  <2>1. /\ ControlerTopic \in Topics
        /\ PropertyChanged(Sensed, "Value", dev[Sensed].Value) \in Messages
    BY <1>0, MessageTypes DEF Topics, OwnTopics, Fields
  <2>2. BusTypeOK'
    BY <1>0, <1>1, <2>1, PublishOrExitTypes DEF SensorReport
  <2>3. sensing' \in [pc : {"read", "change", "mes"}, i : 1..Len(SensorTable)]
    BY <1>1 DEF SensorReport, PiTypeOK
  <2> QED BY <1>1, <2>2, <2>3 DEF SensorReport, PiTypeOK
<1>2. CASE SensorPublish
  <2>1. Place[Sensed] \in Topics /\ SensorMes(dev[Sensed].Value) \in Messages
    BY <1>0, MessageTypes, TableTypes
  <2>2. BusTypeOK'
    BY <1>0, <1>2, <2>1, PublishOrExitTypes DEF SensorPublish
  <2>3. sensing' \in [pc : {"read", "change", "mes"}, i : 1..Len(SensorTable)]
    BY <1>2, TableTypes DEF SensorPublish, PiTypeOK
  <2> QED BY <1>2, <2>2, <2>3 DEF SensorPublish, PiTypeOK
<1>3. ASSUME NEW v \in Readings, Sense(v)
      PROVE  BusTypeOK' /\ PiTypeOK'
  <2>1. BusTypeOK'
    BY <1>3 DEF Sense, busVars, BusTypeOK
  <2>2. sensing' \in [pc : {"read", "change", "mes"}, i : 1..Len(SensorTable)]
    BY <1>3 DEF Sense, PiTypeOK
  <2>3. v \in Texts /\ "Value" \in Fields
    BY DEF Texts, Fields
  <2>4. WriteField(Sensed, "Value", v) \/ UNCHANGED <<dev, held>>
    BY <1>3 DEF Sense
  <2>5. dev' \in [Devices -> [Fields -> Texts]] /\ held' \subseteq Devices \X Fields \X Texts
    BY <1>0, <2>3, <2>4, WriteFieldTypes DEF PiTypeOK
  <2> QED BY <1>3, <2>1, <2>2, <2>5 DEF Sense, PiTypeOK
<1> QED BY <1>1, <1>2, <1>3

\* One thread of the controller changes its state: the others keep theirs.
LEMMA ThreadChanges ==
  ASSUME KontrolerTypeOK, NEW w \in Workers, NEW t, ThreadOK(t),
         thread' = [thread EXCEPT ![w] = t],
         packet' \in Messages \/ (UNCHANGED packet /\ (thread[w].pc # "idle" \/ t.pc = "idle"))
  PROVE  /\ DOMAIN thread' = Workers
         /\ \A v \in Workers : ThreadOK(thread'[v])
         /\ packet' \in Messages \cup {NoMessage}
         /\ \A v \in Workers : thread'[v].pc # "idle" => packet' # NoMessage
         /\ splitting # {} => packet' # NoMessage
BY MessageParts DEF KontrolerTypeOK

\* publish_callback of the controller keeps the types.
LEMMA CallbackTypes ==
  ASSUME BusTypeOK, KontrolerTypeOK, NEW w \in Workers, Callback(w)
  PROVE  BusTypeOK' /\ KontrolerTypeOK'
<1> DEFINE m == Head(inbox[Kontroler]).mes
           t == [thread[w] EXCEPT !.pc = IF m.id = AllDevices \/ Found(m.id)
                                         THEN "start" ELSE "missing"]
<1>1. m \in Messages /\ Tail(inbox[Kontroler]) \in Seq(Packets)
  BY ArrivedTypes DEF Callback, Clients
<1>2. BusTypeOK'
  BY <1>1 DEF Callback, BusTypeOK
<1>3. ThreadOK(t)
  BY DEF KontrolerTypeOK, ThreadOK
<1>4. thread' = [thread EXCEPT ![w] = t] /\ packet' = m /\ UNCHANGED <<db, strtokVars>>
  BY DEF Callback
<1> HIDE DEF m, t
<1> QED BY <1>1, <1>2, <1>3, <1>4, ThreadChanges DEF KontrolerTypeOK, strtokVars

\* A thread that ends leaves nothing.
LEMMA NoThreadTypes ==
  ThreadOK(NoThread) /\ NoThread.pc = "idle"
BY EmptySeq DEF ThreadOK, NoThread

\* The branches of the controller's distribute_pub_message find their tokens.
LEMMA BeginTypes ==
  ASSUME NEW m \in Messages \cup {NoMessage}
  PROVE  /\ ThreadOK(Begin(m)) /\ Begin(m).mes \in {NoThread.mes, m}
         /\ Begin(m).pc # "forward"
<1>1. CASE m.type = "Get_Dev"
  <2>1. m \in Asks /\ m.id \in Targets
    BY <1>1, MessageParts DEF Asks, NoMessage
  <2>2. <<m.id>> \in Seq(Targets) /\ <<m.id>> # <<>>
    BY <2>1
  <2> QED BY <1>1, <2>1, <2>2, TableTypes, EmptySeq DEF Begin, ThreadOK, NoThread
<1>2. CASE m.type = "Set_Dev"
  <2>1. m \in Sets
    BY <1>2, MessageParts DEF NoMessage
  <2> QED BY <1>2, <2>1, EmptySeq
          DEF Begin, ThreadOK, NoThread, ForwardTopic, FuncTopic, InfoTopic
<1>3. CASE m.type = "PropertyChanged"
  <2>1. m \in Changes
    BY <1>3, MessageParts DEF NoMessage
  <2> QED BY <1>3, <2>1, EmptySeq DEF Begin, ThreadOK, NoThread
<1>4. CASE m.type \notin {"Get_Dev", "Set_Dev", "PropertyChanged"}
  <2>1. Begin(m) = NoThread
    BY <1>4 DEF Begin
  <2> QED BY <2>1, NoThreadTypes
<1> QED BY <1>1, <1>2, <1>3, <1>4

\* The threads of the controller keep the types.
LEMMA RunTypes ==
  ASSUME BusTypeOK, KontrolerTypeOK, NEW w \in Workers, Run(w)
  PROVE  BusTypeOK' /\ KontrolerTypeOK'
<1> DEFINE t == thread[w]
<1>0. ThreadOK(t) /\ packet \in Messages \cup {NoMessage} /\ Kontroler \in Clients
      /\ UiTopic \in Topics /\ FuncTopic \in Topics /\ InfoTopic \in Topics
      /\ up \in [Clients -> BOOLEAN]
  BY DEF KontrolerTypeOK, Clients, Topics, OwnTopics, BusTypeOK
<1>1. ASSUME Publish(Kontroler, UiTopic, NonExistent), UNCHANGED up
      PROVE  BusTypeOK'
  BY <1>0, <1>1, MessageTypes, PublishTypes
<1>2. ASSUME t.pc # "idle", UNCHANGED <<db, packet, strtokVars>>, NEW n, ThreadOK(n),
             thread' = [thread EXCEPT ![w] = n]
      PROVE  KontrolerTypeOK'
  BY <1>2, ThreadChanges DEF KontrolerTypeOK, strtokVars
<1>3. CASE NoDevice(w)
  BY <1>1, <1>2, <1>3, NoThreadTypes DEF NoDevice, In
<1>4. CASE Distribute(w)
  <2>1. packet \in Messages
    BY <1>4 DEF KontrolerTypeOK, Distribute, In
  <2>2. thread' = [thread EXCEPT ![w] = Begin(packet)] /\ t.pc # "idle"
        /\ UNCHANGED <<busVars, db, packet, strtokVars>>
    BY <1>4 DEF Distribute, In
  <2> QED BY <1>2, <2>1, <2>2, BeginTypes DEF busVars, BusTypeOK
<1>5. CASE ReadDevice(w)
  <2> DEFINE d == Head(t.todo)
             v == IF Found(d) THEN db[d][t.mes.field] ELSE OutOfBounds
             n == [t EXCEPT !.out = Append(@, v), !.todo = Tail(@),
                            !.pc = IF Len(t.todo) = 1 THEN "reply" ELSE "read"]
  <2>1. t.pc = "read" /\ t.mes \in Asks /\ t.todo \in Seq(Targets) /\ t.todo # <<>>
    BY <1>0, <1>5 DEF ThreadOK, ReadDevice, In
  <2>2. v \in Texts \cup {OutOfBounds}
    BY <2>1 DEF KontrolerTypeOK, Found, Asks
  <2>3. Append(t.out, v) \in Seq(Texts \cup {OutOfBounds})
    BY <1>0, <2>2, AppendProperties DEF ThreadOK
  <2>4. Tail(t.todo) \in Seq(Targets) /\ (Len(t.todo) # 1 => Tail(t.todo) # <<>>)
    <3>1. Len(t.todo) \in Nat \ {0}
      BY <2>1, EmptySeq
    <3>2. Tail(t.todo) \in Seq(Targets) /\ Len(Tail(t.todo)) = Len(t.todo) - 1
      BY <2>1, HeadTailProperties
    <3>3. Tail(t.todo) = <<>> => Len(Tail(t.todo)) = 0
      BY EmptySeq
    <3> QED BY <3>1, <3>2, <3>3
  <2> HIDE DEF v
  <2>5. ThreadOK(n)
    BY <1>0, <2>1, <2>3, <2>4 DEF ThreadOK
  <2>6. thread' = [thread EXCEPT ![w] = n] /\ UNCHANGED <<busVars, db, packet, strtokVars>>
    BY <1>5 DEF ReadDevice, v
  <2> HIDE DEF n
  <2> QED BY <1>2, <2>1, <2>5, <2>6 DEF busVars, BusTypeOK
<1>6. CASE Answer(w)
  <2>1. PICK g \in BOOLEAN : Publish(Kontroler, UiTopic, Values(t.out, g))
    BY <1>6 DEF Answer
  <2>2. Values(t.out, g) \in Messages
    BY <1>0, MessageTypes DEF ThreadOK
  <2>3. BusTypeOK'
    BY <1>0, <1>6, <2>1, <2>2, PublishTypes DEF Answer
  <2> QED BY <1>2, <1>6, <2>3, NoThreadTypes DEF Answer, In
<1>7. CASE Acknowledge(w)
  <2> DEFINE n == [t EXCEPT !.pc = "reread"]
  <2>1. t.pc = "ack" /\ t.mes \in Sets /\ t.topic # "none" /\ t.mes.field \in Fields
    BY <1>0, <1>7 DEF ThreadOK, Acknowledge, In, Sets
  <2>2. ThreadOK(n)
    BY <1>0, <2>1 DEF ThreadOK
  <2>3. BusTypeOK'
    BY <1>0, <1>7, <2>1, MessageTypes, PublishTypes DEF Acknowledge
  <2>4. thread' = [thread EXCEPT ![w] = n] /\ UNCHANGED <<db, packet, strtokVars>>
    BY <1>7 DEF Acknowledge
  <2> HIDE DEF n
  <2> QED BY <1>2, <2>1, <2>2, <2>3, <2>4
<1>8. CASE Reread(w)
  <2> DEFINE n == [t EXCEPT !.pc = "forward", !.mes = packet]
  <2>1. t.pc = "reread" /\ t.topic # "none" /\ packet \in Messages
    BY <1>0, <1>8 DEF ThreadOK, Reread, In, KontrolerTypeOK
  <2>2. ThreadOK(n)
    BY <1>0, <2>1, MessageParts DEF ThreadOK
  <2>3. thread' = [thread EXCEPT ![w] = n] /\ UNCHANGED <<busVars, db, packet, strtokVars>>
    BY <1>8 DEF Reread
  <2> HIDE DEF n
  <2> QED BY <1>2, <2>1, <2>2, <2>3 DEF busVars, BusTypeOK
<1>9. CASE Forward(w)
  <2>1. t.pc = "forward" /\ t.topic \in Topics /\ t.mes \in Messages
    BY <1>0, <1>9 DEF ThreadOK, Forward, In
  <2>2. BusTypeOK'
    BY <1>0, <1>9, <2>1, PublishTypes DEF Forward
  <2> QED BY <1>2, <1>9, <2>1, <2>2, NoThreadTypes DEF Forward
<1>10. CASE Apply(w)
  <2>1. t.pc = "apply" /\ t.mes \in Changes
    BY <1>0, <1>10 DEF ThreadOK, Apply, In
  <2>2. t.mes.id \in Devices /\ t.mes.field \in Fields /\ t.mes.value \in Texts
    BY <2>1 DEF Changes
  <2>3. db' \in [Devices -> [Fields -> Texts]]
    BY <1>10, <2>2 DEF Apply, KontrolerTypeOK
  <2>4. thread' = [thread EXCEPT ![w] = NoThread] /\ UNCHANGED <<busVars, packet, strtokVars>>
    BY <1>10 DEF Apply
  <2> QED BY <2>1, <2>3, <2>4, NoThreadTypes, ThreadChanges
          DEF busVars, BusTypeOK, KontrolerTypeOK, strtokVars
<1> QED BY <1>3, <1>4, <1>5, <1>6, <1>7, <1>8, <1>9, <1>10 DEF Run

\* A str_split that begins, and one that ends, keep the set of those inside.
LEMMA SplitTypes ==
  ASSUME KontrolerTypeOK, NEW c \in Workers \cup {Kontroler}, EnterSplit(c) \/ LeaveSplit(c)
  PROVE  /\ splitting' \subseteq Workers \cup {Kontroler} /\ crossed' \subseteq splitting'
         /\ mixed' \in BOOLEAN /\ (crossed' # {} => mixed') /\ (mixed => mixed')
BY DEF KontrolerTypeOK, EnterSplit, LeaveSplit

\* The tokens that overlapping str_splits can give are those of a message.
LEMMA MixtureTypes ==
  ASSUME NEW m \in Messages
  PROVE  Mixtures(m) \subseteq Messages \cup {NoMessage}
<1>1. CASE m.type = "Get_Dev"
  <2>1. m.field \in Fields
    BY <1>1, MessageParts DEF Asks
  <2> QED BY <1>1, <2>1 DEF Mixtures, Messages, Commands, Asks
<1>2. CASE m.type = "PropertyChanged"
  <2>1. Stray \in Texts
    BY DEF Texts
  <2> QED BY <1>2, <2>1, MessageTypes DEF Mixtures
<1>3. CASE m.type \notin {"Get_Dev", "PropertyChanged"}
  BY <1>3 DEF Mixtures
<1> QED BY <1>1, <1>2, <1>3

\* So does what the controller does where packets follow each other closely.
LEMMA OverlapTypes ==
  ASSUME BusTypeOK, KontrolerTypeOK, Overlap
  PROVE  BusTypeOK' /\ KontrolerTypeOK'
<1>0. Kontroler \in Clients
  BY DEF Clients
<1>1. ASSUME EndProcess, UNCHANGED <<outbox, inbox, error, subscribed, db, packet>>
      PROVE  BusTypeOK' /\ KontrolerTypeOK'
  <2>1. BusTypeOK'
    BY <1>1 DEF EndProcess, BusTypeOK
  <2>2. DOMAIN thread' = Workers /\ \A w \in Workers : thread'[w] = NoThread
    BY <1>1 DEF EndProcess
  <2>3. splitting' = {} /\ crossed' = {} /\ mixed' = mixed
    BY <1>1 DEF EndProcess
  <2> QED BY <1>1, <2>1, <2>2, <2>3, NoThreadTypes DEF KontrolerTypeOK
<1>2. CASE TakeIn
  <2> DEFINE m == Head(inbox[Kontroler]).mes
  <2>1. /\ m \in Messages /\ Head(inbox[Kontroler]) \in Packets
        /\ Tail(inbox[Kontroler]) \in Seq(Packets)
    BY <1>0, <1>2, ArrivedTypes DEF TakeIn
  <2>2. BusTypeOK'
    BY <1>2, <2>1 DEF TakeIn, BusTypeOK
  <2>3. packet' = m /\ UNCHANGED <<db, thread>>
    BY <1>2 DEF TakeIn
  <2>4. /\ splitting' \subseteq Workers \cup {Kontroler} /\ crossed' \subseteq splitting'
        /\ mixed' \in BOOLEAN /\ (crossed' # {} => mixed')
    BY <1>2, SplitTypes DEF TakeIn
  <2> HIDE DEF m
  <2>5. packet' # NoMessage
    BY <2>1, <2>3, MessageParts
  <2> QED BY <2>1, <2>2, <2>3, <2>4, <2>5 DEF KontrolerTypeOK
<1>3. ASSUME NEW w \in Workers, LookUp(w)
      PROVE  BusTypeOK' /\ KontrolerTypeOK'
  <2>1. CASE EndProcess
    BY <1>1, <1>3, <2>1 DEF LookUp
  <2>2. CASE ~EndProcess
    <3>1. PICK known :
            thread' = [thread EXCEPT ![w].pc = IF known THEN "start" ELSE "missing"]
      BY <1>3, <2>2 DEF LookUp
    <3> DEFINE t == [thread[w] EXCEPT !.pc = IF known THEN "start" ELSE "missing"]
    <3>2. /\ thread' = [thread EXCEPT ![w] = t] /\ UNCHANGED <<db, packet>>
          /\ LeaveSplit(Kontroler) /\ packet # NoMessage
      BY <1>3, <2>2, <3>1 DEF LookUp, KontrolerTypeOK
    <3>3. ThreadOK(t)
      BY DEF KontrolerTypeOK, ThreadOK
    <3>4. BusTypeOK'
      BY <1>3, <2>2 DEF LookUp, BusTypeOK
    <3> HIDE DEF t
    <3>5. packet' \in Messages
      BY <3>2 DEF KontrolerTypeOK
    <3> QED BY <3>2, <3>3, <3>4, <3>5, SplitTypes, ThreadChanges, MessageParts DEF KontrolerTypeOK
  <2> QED BY <2>1, <2>2
<1>4. ASSUME NEW w \in Workers, BeginSplit(w)
      PROVE  BusTypeOK' /\ KontrolerTypeOK'
  <2> DEFINE t == [thread[w] EXCEPT !.pc = "split", !.mes = packet]
  <2>1. packet \in Messages /\ packet # NoMessage /\ thread[w].pc = "start"
    BY <1>4 DEF BeginSplit, In, KontrolerTypeOK
  <2>2. ThreadOK(t)
    BY <2>1 DEF KontrolerTypeOK, ThreadOK
  <2>3. thread' = [thread EXCEPT ![w] = t] /\ UNCHANGED <<busVars, db, packet>> /\ EnterSplit(w)
    BY <1>4 DEF BeginSplit, KontrolerTypeOK
  <2> HIDE DEF t
  <2> QED BY <2>1, <2>2, <2>3, SplitTypes, ThreadChanges DEF KontrolerTypeOK, busVars, BusTypeOK
<1>5. ASSUME NEW w \in Workers, EndSplit(w)
      PROVE  BusTypeOK' /\ KontrolerTypeOK'
  <2>1. CASE EndProcess
    BY <1>1, <1>5, <2>1 DEF EndSplit
  <2>2. CASE ~EndProcess
    <3>1. thread[w].mes \in Messages /\ thread[w].pc = "split" /\ packet \in Messages
      BY <1>5 DEF EndSplit, In, KontrolerTypeOK, ThreadOK
    <3>2. PICK m \in Mixtures(thread[w].mes) \cup {thread[w].mes} :
            thread' = [thread EXCEPT ![w] = Begin(m)]
      BY <1>5, <2>2 DEF EndSplit
    <3>3. ThreadOK(Begin(m))
      BY <3>1, <3>2, MixtureTypes, BeginTypes
    <3>4. UNCHANGED <<busVars, db, packet>> /\ LeaveSplit(w)
      BY <1>5, <2>2 DEF EndSplit, busVars
    <3> QED BY <3>1, <3>2, <3>3, <3>4, SplitTypes, ThreadChanges, MessageParts
            DEF KontrolerTypeOK, busVars, BusTypeOK
  <2> QED BY <2>1, <2>2
<1> QED BY <1>2, <1>3, <1>4, <1>5 DEF Overlap

\* The command line interface keeps the types.
LEMMA CliTypes ==
  ASSUME BusTypeOK, CliTypeOK, Display \/ \E l \in Lines : Command(l)
  PROVE  BusTypeOK' /\ CliTypeOK'
<1>0. Cli \in Clients
  BY DEF Clients
<1>1. CASE Display
  <2>1. BusTypeOK'
    BY <1>0, <1>1, ArrivedTypes DEF Display, BusTypeOK
  <2> QED BY <1>1, <2>1, HeadTailProperties DEF Display, CliTypeOK
<1>2. ASSUME NEW l \in Lines, Command(l)
      PROVE  BusTypeOK' /\ CliTypeOK'
  <2>1. CASE l.mes \in Commands
    <3>1. BusTypeOK'
      BY <1>0, <1>2, <2>1, MessageTypes, PublishTypes DEF Command, Topics, OwnTopics, BusTypeOK
    <3>2. Append(pending, l.mes) \in Seq(Commands)
      BY <2>1, AppendProperties DEF CliTypeOK
    <3> QED BY <1>2, <3>1, <3>2 DEF Command, CliTypeOK
  <2>2. l.mes \in Commands
    BY <1>2, LinesAssumption DEF Command
  <2> QED BY <2>1, <2>2
<1> QED BY <1>1, <1>2

\* A pi, and the controller, start again with the right types.
LEMMA RestartTypes ==
  ASSUME TypeOK, NEW c \in Clients, Restart(c)
  PROVE  BusTypeOK' /\ PiTypeOK' /\ KontrolerTypeOK'
<1>1. CASE c \in Pis /\ RestartPi(c) /\ UNCHANGED <<kontrolerVars, pending>>
  <2>1. BusTypeOK' /\ KontrolerTypeOK'
    BY <1>1, FaultBusTypes DEF TypeOK, RestartPi, kontrolerVars, strtokVars, KontrolerTypeOK
  <2>2. Owned(c) \subseteq Devices
    BY <1>1 DEF Owned, Table, Devices, Sensors, Actuators, Pis
  <2>3. dev' \in [Devices -> [Fields -> Texts]] /\ held' \subseteq Devices \X Fields \X Texts
    BY <1>1, <2>2, DataAssumption DEF RestartPi, TypeOK, PiTypeOK
  <2>4. /\ callback' \in [Pis -> [topic : Topics \cup {"none"},
                                  mes : Messages \cup {NoMessage}, whole : BOOLEAN]]
        /\ sensing' \in [pc : {"read", "change", "mes"}, i : 1..Len(SensorTable)]
    BY <1>1, TableTypes DEF RestartPi, TypeOK, PiTypeOK, NoCallback, FirstSensor
  <2>5. \A p \in Pis : WorkerOK(p, Idle)
    BY IdleTypes
  <2>6. /\ DOMAIN worker' = Pis
        /\ \A p \in Pis : worker'[p] = worker[p] \/ worker'[p] = [w \in Workers |-> Idle]
    BY <1>1 DEF RestartPi, TypeOK, PiTypeOK
  <2>7. \A p \in Pis : /\ DOMAIN worker'[p] = Workers
                       /\ \A w \in Workers : WorkerOK(p, worker'[p][w])
    BY <2>5, <2>6 DEF TypeOK, PiTypeOK
  <2> QED BY <2>1, <2>3, <2>4, <2>6, <2>7 DEF PiTypeOK
<1>2. CASE c = Kontroler /\ RestartKontroler /\ UNCHANGED <<piVars, pending>>
  <2>1. BusTypeOK' /\ PiTypeOK'
    BY <1>2, FaultBusTypes DEF TypeOK, RestartKontroler, piVars, PiTypeOK
  <2>2. KontrolerTypeOK'
    BY <1>2, NoThreadTypes, DataAssumption DEF RestartKontroler, KontrolerTypeOK, NoThread
  <2> QED BY <2>1, <2>2
<1> QED BY <1>1, <1>2 DEF Restart

\* The history of restarts keeps its types.
LEMMA HistoryTypes ==
  ASSUME TypeOK, (Step /\ Follow) \/ Fault
  PROVE  HistoryTypeOK'
<1>1. CASE Step /\ Follow
  <2>1. Told \subseteq Devices \X Fields /\ Heard \subseteq Actuators
    BY DEF Told, Heard
  <2> QED BY <1>1, <2>1 DEF Follow, TypeOK, HistoryTypeOK
<1>2. CASE Fault
  <2>1. \A c \in Pis : Owned(c) \subseteq Devices
    BY DEF Owned, Table, Devices, Sensors, Actuators, Pis
  <2>2. faults' \in Nat
    BY <1>2 DEF Fault, TypeOK, HistoryTypeOK
  <2>3. ASSUME NEW c \in Clients, Restart(c)
        PROVE  stale' \subseteq Devices \X Fields /\ unaware' \subseteq Actuators
    BY <2>1, <2>3 DEF Restart, TypeOK, HistoryTypeOK
  <2>4. ASSUME NEW c \in Clients, Break(c)
        PROVE  UNCHANGED <<stale, unaware>>
    BY <2>4 DEF Break
  <2> QED BY <1>2, <2>2, <2>3, <2>4 DEF Fault, TypeOK, HistoryTypeOK
<1> QED BY <1>1, <1>2

\* The home starts with the right types.
LEMMA InitTypes ==
  Init => TypeOK
<1> SUFFICES ASSUME Init PROVE TypeOK
  OBVIOUS
<1>1. <<>> \in Seq(Packets) /\ <<>> \in Seq(Commands)
  BY EmptySeq
<1>2. BusTypeOK
  BY <1>1 DEF Init, BusInit, BusTypeOK, Errors
<1>3. held \subseteq Devices \X Fields \X Texts
  BY DataAssumption DEF Init, PiInit
<1>4. \A p \in Pis : WorkerOK(p, Idle)
  BY IdleTypes
<1>5. sensing \in [pc : {"read", "change", "mes"}, i : 1..Len(SensorTable)]
  BY TableTypes DEF Init, PiInit, FirstSensor
<1>6. PiTypeOK
  BY <1>3, <1>4, <1>5, DataAssumption DEF Init, PiInit, PiTypeOK, NoCallback
<1>7. KontrolerTypeOK
  BY NoThreadTypes, DataAssumption DEF Init, KontrolerInit, KontrolerTypeOK
<1>8. HistoryTypeOK
  BY DEF Init, HistoryTypeOK
<1> QED BY <1>1, <1>2, <1>6, <1>7, <1>8 DEF TypeOK, Init, CliInit, CliTypeOK

\* Every step of the home keeps the types.
LEMMA NextTypes ==
  TypeOK /\ [Next]_vars => TypeOK'
<1> SUFFICES ASSUME TypeOK, [Next]_vars PROVE TypeOK'
  OBVIOUS
<1>1. CASE UNCHANGED vars
  BY <1>1 DEF TypeOK, vars, busVars, piVars, kontrolerVars, strtokVars, history, BusTypeOK,
              PiTypeOK, KontrolerTypeOK, CliTypeOK, HistoryTypeOK
<1>2. CASE Step /\ Follow
  <2>0. BusTypeOK /\ PiTypeOK /\ KontrolerTypeOK /\ CliTypeOK
    BY DEF TypeOK
  <2> DEFINE Kept == BusTypeOK' /\ PiTypeOK' /\ KontrolerTypeOK' /\ CliTypeOK'
  <2>1. ASSUME NEW c \in Clients, BusStep(c), UNCHANGED <<piVars, kontrolerVars, pending>>
        PROVE  Kept
    BY <2>0, <2>1, BusStepTypes DEF piVars, kontrolerVars, strtokVars, PiTypeOK,
                                    KontrolerTypeOK, CliTypeOK
  <2>2. ASSUME (PiStep \/ NewReading), UNCHANGED <<kontrolerVars, pending>>
        PROVE  Kept
    <3>1. BusTypeOK' /\ PiTypeOK'
      BY <2>0, <2>2, PiCallbackTypes, WorkTypes, SensorTypes DEF PiStep, NewReading
    <3> QED BY <2>0, <2>2, <3>1 DEF kontrolerVars, strtokVars, KontrolerTypeOK, CliTypeOK
  <2>3. ASSUME KontrolerNext, UNCHANGED <<piVars, pending>>
        PROVE  Kept
    <3>1. BusTypeOK' /\ KontrolerTypeOK'
      BY <2>0, <2>3, CallbackTypes, RunTypes, OverlapTypes DEF KontrolerNext
    <3> QED BY <2>0, <2>3, <3>1 DEF piVars, PiTypeOK, CliTypeOK
  <2>4. ASSUME (NewCommand \/ Display), UNCHANGED <<piVars, kontrolerVars>>
        PROVE  Kept
    <3>1. BusTypeOK' /\ CliTypeOK'
      BY <2>0, <2>4, CliTypes DEF NewCommand
    <3> QED BY <2>0, <2>4, <3>1 DEF piVars, PiTypeOK, kontrolerVars, strtokVars, KontrolerTypeOK
  <2>5. Kept
    BY <1>2, <2>1, <2>2, <2>3, <2>4 DEF Step
  <2>6. HistoryTypeOK'
    BY <1>2, HistoryTypes
  <2> QED BY <2>5, <2>6 DEF TypeOK
<1>3. CASE Fault
  <2>1. HistoryTypeOK'
    BY <1>3, HistoryTypes
  <2>2. ASSUME NEW c \in Clients, Restart(c)
        PROVE  BusTypeOK' /\ PiTypeOK' /\ KontrolerTypeOK' /\ CliTypeOK'
    BY <2>2, RestartTypes DEF TypeOK, Restart, CliTypeOK
  <2>3. ASSUME NEW c \in Clients, Break(c)
        PROVE  BusTypeOK' /\ PiTypeOK' /\ KontrolerTypeOK' /\ CliTypeOK'
    BY <2>3, FaultBusTypes DEF Break, TypeOK, piVars, kontrolerVars, strtokVars, PiTypeOK,
                               KontrolerTypeOK, CliTypeOK
  <2> QED BY <1>3, <2>1, <2>2, <2>3 DEF Fault, TypeOK
<1> QED BY <1>1, <1>2, <1>3 DEF Next

\* The home keeps its types: the loops of sensors and workers stay inside the
\* tables of devices, and a thread acts on the message its branch is for.
THEOREM TypeCorrect ==
  Spec => []TypeOK
<1>1. Init => TypeOK
  BY InitTypes
<1>2. TypeOK /\ [Next]_vars => TypeOK'
  BY NextTypes
<1> QED BY <1>1, <1>2, PTL DEF Spec

-----------------------------------------------------------------------------
(* DbValuesWereHeld.  The history held only grows, so it is enough to look *)
(* at what a step newly writes into a device, a queue, a thread, the       *)
(* replica.                                                                *)

\* A publish of something held keeps the queues so.
LEMMA PublishHeld ==
  ASSUME BusTypeOK, QueuesHeld, held \subseteq held', NEW c \in Clients, NEW t \in Topics,
         NEW m \in Messages, WasHeld(m), Publish(c, t, m)
  PROVE  QueuesHeld'
<1> DEFINE p == [topic |-> t, mes |-> m]
<1>1. p \in Packets /\ p.mes = m
  BY MessageTypes
<1>2. outbox[c] \in Seq(Packets) /\ Len(outbox[c]) \in Nat
  BY LenProperties DEF BusTypeOK
<1>3. /\ Len(Append(outbox[c], p)) = Len(outbox[c]) + 1
      /\ \A i \in 1..Len(outbox[c]) : Append(outbox[c], p)[i] = outbox[c][i]
      /\ Append(outbox[c], p)[Len(outbox[c]) + 1] = p
  BY <1>1, <1>2, AppendProperties
<1>4. \A i \in 1..Len(Append(outbox[c], p)) :
        i \in 1..Len(outbox[c]) \/ Append(outbox[c], p)[i].mes = m
  BY <1>1, <1>2, <1>3
<1>5. UNCHANGED outbox \/ outbox' = [outbox EXCEPT ![c] = Append(outbox[c], p)]
  BY DEF Publish
<1>6. outbox \in [Clients -> Seq(Packets)] /\ UNCHANGED inbox
  BY DEF BusTypeOK, Publish
<1> HIDE DEF p
<1> QED BY <1>3, <1>4, <1>5, <1>6, ZenonT(60) DEF QueuesHeld, WasHeld

\* The network brings along only what was sent.
LEMMA BusStepHeld ==
  ASSUME BusTypeOK, QueuesHeld, NEW c \in Clients, BusStep(c), UNCHANGED held
  PROVE  QueuesHeld'
<1>1. CASE Send(c)
  <2> DEFINE p == Head(outbox[c])
  <2>1. /\ p \in Packets /\ Tail(outbox[c]) \in Seq(Packets)
        /\ Len(Tail(outbox[c])) = Len(outbox[c]) - 1
        /\ \A i \in 1..Len(Tail(outbox[c])) : Tail(outbox[c])[i] = outbox[c][i + 1]
    BY <1>1, HeadTailProperties DEF BusTypeOK, Send
  <2>2. Len(outbox[c]) \in Nat \ {0} /\ p = outbox[c][1]
    BY <1>1, EmptySeq DEF BusTypeOK, Send
  <2>3. WasHeld(p.mes)
    BY <2>2 DEF QueuesHeld
  <2>4. \A s \in Clients : /\ Len(inbox[s]) \in Nat
                           /\ Len(Append(inbox[s], p)) = Len(inbox[s]) + 1
                           /\ \A i \in 1..Len(inbox[s]) : Append(inbox[s], p)[i] = inbox[s][i]
                           /\ Append(inbox[s], p)[Len(inbox[s]) + 1] = p
    BY <2>1, AppendProperties, LenProperties DEF BusTypeOK
  <2>5. \A s \in Clients : inbox'[s] = inbox[s] \/ inbox'[s] = Append(inbox[s], p)
    BY <1>1 DEF Send
  <2>6. ASSUME NEW s \in Clients, NEW i \in 1..Len(inbox'[s])
        PROVE  WasHeld(inbox'[s][i].mes)
    <3>1. CASE inbox'[s] = inbox[s]
      BY <3>1 DEF QueuesHeld
    <3>2. CASE inbox'[s] = Append(inbox[s], p)
      <4>1. i \in 1..Len(inbox[s]) \/ i = Len(inbox[s]) + 1
        BY <2>4, <3>2
      <4> QED BY <2>3, <2>4, <3>2, <4>1 DEF QueuesHeld
    <3> QED BY <2>5, <3>1, <3>2
  <2>7. ASSUME NEW s \in Clients, NEW i \in 1..Len(outbox'[s])
        PROVE  WasHeld(outbox'[s][i].mes)
    <3>1. CASE s = c
      <4>1. outbox'[s] = Tail(outbox[c])
        BY <1>1, <3>1 DEF Send, BusTypeOK
      <4>2. outbox'[s][i] = outbox[c][i + 1] /\ i + 1 \in 1..Len(outbox[c])
        BY <2>1, <2>2, <4>1
      <4> QED BY <4>2 DEF QueuesHeld
    <3>2. CASE s # c
      BY <1>1, <3>2 DEF Send, BusTypeOK, QueuesHeld
    <3> QED BY <3>1, <3>2
  <2> QED BY <2>6, <2>7 DEF QueuesHeld, WasHeld
<1>2. CASE Subscribe(c)
  BY <1>2 DEF Subscribe, QueuesHeld, WasHeld
<1> QED BY <1>1, <1>2 DEF BusStep

\* What arrives was held, and so is what waits behind it.
LEMMA ArrivedHeld ==
  ASSUME BusTypeOK, QueuesHeld, NEW c \in Clients, Arrived(c),
         inbox' = [inbox EXCEPT ![c] = Tail(@)], UNCHANGED outbox, held \subseteq held'
  PROVE  WasHeld(Head(inbox[c]).mes) /\ QueuesHeld'
<1>1. /\ Len(Tail(inbox[c])) = Len(inbox[c]) - 1
      /\ \A i \in 1..Len(Tail(inbox[c])) : Tail(inbox[c])[i] = inbox[c][i + 1]
  BY HeadTailProperties DEF BusTypeOK, Arrived
<1>2. Len(inbox[c]) \in Nat \ {0} /\ Head(inbox[c]) = inbox[c][1]
  BY EmptySeq DEF BusTypeOK, Arrived
<1>3. \A s \in Clients : inbox'[s] = IF s = c THEN Tail(inbox[c]) ELSE inbox[s]
  BY DEF BusTypeOK
<1>4. \A i \in 1..Len(Tail(inbox[c])) : i + 1 \in 1..Len(inbox[c])
  BY <1>1, <1>2
<1>5. WasHeld(Head(inbox[c]).mes)
  <2>1. 1 \in 1..Len(inbox[c])
    BY <1>2
  <2> QED BY <1>2, <2>1 DEF QueuesHeld
<1>6. ASSUME NEW s \in Clients, NEW i \in 1..Len(inbox'[s])
      PROVE  WasHeld(inbox'[s][i].mes)
  <2>1. CASE s = c
    <3>1. i \in 1..Len(Tail(inbox[c])) /\ inbox'[s][i] = inbox[c][i + 1]
      BY <1>1, <1>3, <2>1
    <3> QED BY <1>4, <3>1 DEF QueuesHeld
  <2>2. CASE s # c
    <3>1. inbox'[s] = inbox[s]
      BY <1>3, <2>2
    <3> QED BY <3>1 DEF QueuesHeld
  <2> QED BY <2>1, <2>2
<1>7. \A m : WasHeld(m) => (m.type = "PropertyChanged" => <<m.id, m.field, m.value>> \in held')
  BY DEF WasHeld
<1>8. ASSUME NEW s \in Clients, NEW i \in 1..Len(outbox'[s])
      PROVE  WasHeld(outbox'[s][i].mes)
  BY DEF QueuesHeld
<1> QED BY <1>5, <1>6, <1>7, <1>8 DEF QueuesHeld, WasHeld

\* Only strcpy into a field adds to the history, and it adds what it writes.
LEMMA WriteFieldHeld ==
  ASSUME PiTypeOK, DevicesHeld, NEW d \in Devices, NEW f \in Fields, NEW v \in Texts,
         WriteField(d, f, v)
  PROVE  held \subseteq held' /\ DevicesHeld'
BY DEF PiTypeOK, WriteField, DevicesHeld

\* What does not touch a program of the home leaves what it holds held.
LEMMA UntouchedHeld ==
  ASSUME held \subseteq held'
  PROVE  /\ DevicesHeld /\ UNCHANGED dev => DevicesHeld'
         /\ QueuesHeld /\ UNCHANGED <<outbox, inbox>> => QueuesHeld'
         /\ WorkersHeld /\ UNCHANGED worker => WorkersHeld'
         /\ ThreadsHeld /\ DbValuesWereHeld /\ UNCHANGED kontrolerVars
              => ThreadsHeld' /\ DbValuesWereHeld'
BY DEF DevicesHeld, QueuesHeld, WorkersHeld, ThreadsHeld, DbValuesWereHeld, WasHeld,
       Mingled, kontrolerVars, strtokVars, Visited

\* A worker that is not about to publish claims nothing.
LEMMA WorkerChangesHeld ==
  ASSUME PiTypeOK, WorkersHeld, held \subseteq held', NEW p \in Pis, NEW w \in Workers, NEW r,
         r.pc = "publish" => <<Visited(p, r), r.field, r.out>> \in held',
         worker' = [worker EXCEPT ![p][w] = r]
  PROVE  WorkersHeld'
BY DEF PiTypeOK, WorkersHeld, Visited

\* The threads of the pis publish what their device holds.
LEMMA WorkHeld ==
  ASSUME BusTypeOK, PiTypeOK, DevicesHeld, QueuesHeld, WorkersHeld,
         NEW p \in Pis, NEW w \in Workers, Work(p, w)
  PROVE  held \subseteq held' /\ DevicesHeld' /\ QueuesHeld' /\ WorkersHeld'
<1> DEFINE r == worker[p][w]
<1>0. p \in Clients /\ WorkerOK(p, r) /\ r \in WorkerStates(p) /\ Visited(p, r) \in Devices
  BY VisitedTypes DEF Clients, PiTypeOK, WorkerOK
<1>1. CASE Split(p, w)
  <2>1. PICK n : n.pc # "publish" /\ worker' = [worker EXCEPT ![p][w] = n]
    BY <1>1, BranchTypes DEF Split, PiTypeOK
  <2>2. UNCHANGED <<dev, held, outbox, inbox>>
    BY <1>1 DEF Split, busVars
  <2> QED BY <2>1, <2>2, UntouchedHeld, WorkerChangesHeld
<1>2. CASE SplitAgain(p, w)
  <2> DEFINE n == [Idle EXCEPT !.pc = "topic", !.auto = TRUE]
  <2>1. n.pc # "publish"
    BY DEF Idle
  <2> HIDE DEF n
  <2>2. UNCHANGED worker \/ worker' = [worker EXCEPT ![p][w] = n]
    BY <1>2 DEF SplitAgain, n
  <2>3. UNCHANGED <<dev, held, outbox, inbox>>
    BY <1>2 DEF SplitAgain
  <2> QED BY <2>1, <2>2, <2>3, UntouchedHeld, WorkerChangesHeld
<1>3. CASE ReadTopic(p, w)
  <2> DEFINE n == [r EXCEPT !.topic = callback[p].topic, !.pc = "loop"]
  <2>1. n.pc # "publish" /\ worker' = [worker EXCEPT ![p][w] = n]
    BY <1>0, <1>3, ZenonT(60) DEF ReadTopic, WorkerStates
  <2>2. UNCHANGED <<dev, held, outbox, inbox>>
    BY <1>3 DEF ReadTopic, busVars
  <2> HIDE DEF n
  <2> QED BY <2>1, <2>2, UntouchedHeld, WorkerChangesHeld
<1>4. CASE Loop(p, w)
  <2>1. [r EXCEPT !.pc = "write"].pc # "publish" /\ Advance(p, r).pc # "publish"
    BY <1>0 DEF WorkerStates, Advance, Idle
  <2>2. PICK n : n.pc # "publish" /\ worker' = [worker EXCEPT ![p][w] = n]
    BY <1>4, <2>1 DEF Loop
  <2>3. UNCHANGED <<dev, held, outbox, inbox>>
    BY <1>4 DEF Loop, busVars
  <2> QED BY <2>2, <2>3, UntouchedHeld, WorkerChangesHeld
<1>5. CASE Write(p, w)
  <2> DEFINE n == [r EXCEPT !.pc = "format"]
  <2>1. n.pc # "publish" /\ worker' = [worker EXCEPT ![p][w] = n]
    BY <1>0, <1>5 DEF Write, WorkerStates
  <2>2. PICK v \in Texts : WriteField(Visited(p, r), r.field, v)
    BY <1>0, <1>5, WantedTypes DEF Write, At, WorkerOK
  <2>3. held \subseteq held' /\ DevicesHeld'
    BY <1>0, <2>2, WriteFieldHeld DEF WorkerStates
  <2>4. UNCHANGED <<outbox, inbox>>
    BY <1>5 DEF Write, busVars
  <2> HIDE DEF n
  <2> QED BY <2>1, <2>3, <2>4, UntouchedHeld, WorkerChangesHeld
<1>6. CASE Format(p, w)
  <2> DEFINE n == [r EXCEPT !.out = dev[Visited(p, r)][r.field], !.pc = "publish"]
  <2>1. /\ worker' = [worker EXCEPT ![p][w] = n]
        /\ UNCHANGED <<dev, held, outbox, inbox>>
    BY <1>6 DEF Format, busVars
  <2>2. <<Visited(p, n), n.field, n.out>> \in held
    BY <1>0 DEF DevicesHeld, WorkerStates, Visited
  <2> HIDE DEF n
  <2> QED BY <2>1, <2>2, UntouchedHeld, WorkerChangesHeld
<1>7. CASE Report(p, w)
  <2> DEFINE m == PropertyChanged(Visited(p, r), r.field, r.out)
  <2>1. /\ worker' = [worker EXCEPT ![p][w] = Advance(p, r)]
        /\ UNCHANGED <<dev, held>> /\ r.pc = "publish"
    BY <1>7 DEF Report, At
  <2>2. Advance(p, r).pc # "publish"
    BY <1>0 DEF WorkerStates, Advance, Idle
  <2>3. WasHeld(m)
    BY <2>1 DEF WorkersHeld, WasHeld, PropertyChanged
  <2>4. ControlerTopic \in Topics /\ m \in Messages
    BY <1>0, <2>1, MessageTypes DEF Topics, OwnTopics, WorkerOK, WorkerStates
  <2>5. Publish(p, ControlerTopic, m)
    BY <1>7 DEF Report, PublishOrExit
  <2> HIDE DEF m
  <2>6. QueuesHeld'
    BY <1>0, <2>1, <2>3, <2>4, <2>5, PublishHeld
  <2> QED BY <2>1, <2>2, <2>6, UntouchedHeld, WorkerChangesHeld
<1> QED BY <1>1, <1>2, <1>3, <1>4, <1>5, <1>6, <1>7 DEF Work

\* Everything the pis do keeps it.
LEMMA PiHeld ==
  ASSUME BusTypeOK, PiTypeOK, DevicesHeld, QueuesHeld, WorkersHeld, PiStep \/ NewReading
  PROVE  held \subseteq held' /\ DevicesHeld' /\ QueuesHeld' /\ WorkersHeld'
<1>0. Sensed \in Devices /\ dev[Sensed].Value \in Texts /\ "Value" \in Fields
      /\ "senzorski_pi" \in Clients
  BY VisitedTypes DEF PiTypeOK, Fields, Clients, Pis
<1>1. ASSUME NEW p \in Pis, CallbackTopic(p)
      PROVE  held \subseteq held' /\ DevicesHeld' /\ QueuesHeld' /\ WorkersHeld'
  <2>1. /\ Arrived(p) /\ inbox' = [inbox EXCEPT ![p] = Tail(@)]
        /\ UNCHANGED <<outbox, dev, worker, held>> /\ p \in Clients
    BY <1>1 DEF CallbackTopic, Clients
  <2> QED BY <2>1, ArrivedHeld, UntouchedHeld
<1>2. ASSUME NEW p \in Pis, NEW w \in Workers, CallbackMes(p, w)
      PROVE  held \subseteq held' /\ DevicesHeld' /\ QueuesHeld' /\ WorkersHeld'
  <2> DEFINE n == [worker[p][w] EXCEPT !.pc = "start"]
  <2>1. n.pc # "publish" /\ worker' = [worker EXCEPT ![p][w] = n]
    BY <1>2 DEF CallbackMes, PiTypeOK, WorkerOK, WorkerStates
  <2>2. UNCHANGED <<dev, held, outbox, inbox>>
    BY <1>2 DEF CallbackMes
  <2> HIDE DEF n
  <2> QED BY <2>1, <2>2, UntouchedHeld, WorkerChangesHeld
<1>3. CASE SensorReport
  <2> DEFINE m == PropertyChanged(Sensed, "Value", dev[Sensed].Value)
  <2>1. WasHeld(m) /\ m \in Messages /\ ControlerTopic \in Topics
    BY <1>0, MessageTypes DEF DevicesHeld, WasHeld, PropertyChanged, Topics, OwnTopics
  <2>2. Publish("senzorski_pi", ControlerTopic, m) /\ UNCHANGED <<dev, worker, held>>
    BY <1>3 DEF SensorReport, PublishOrExit
  <2> HIDE DEF m
  <2> QED BY <1>0, <2>1, <2>2, PublishHeld, UntouchedHeld
<1>4. CASE SensorPublish
  <2> DEFINE m == SensorMes(dev[Sensed].Value)
  <2>1. WasHeld(m) /\ m \in Messages /\ Place[Sensed] \in Topics
    BY <1>0, MessageTypes, TableTypes DEF WasHeld, SensorMes
  <2>2. Publish("senzorski_pi", Place[Sensed], m) /\ UNCHANGED <<dev, worker, held>>
    BY <1>4 DEF SensorPublish, PublishOrExit
  <2> HIDE DEF m
  <2> QED BY <1>0, <2>1, <2>2, PublishHeld, UntouchedHeld
<1>5. ASSUME NEW v \in Readings, Sense(v)
      PROVE  held \subseteq held' /\ DevicesHeld' /\ QueuesHeld' /\ WorkersHeld'
  <2>1. v \in Texts /\ UNCHANGED <<outbox, inbox, worker>>
    BY <1>5 DEF Texts, Sense, busVars
  <2>2. WriteField(Sensed, "Value", v) \/ UNCHANGED <<dev, held>>
    BY <1>5 DEF Sense
  <2> QED BY <1>0, <2>1, <2>2, WriteFieldHeld, UntouchedHeld
<1> QED BY <1>1, <1>2, <1>3, <1>4, <1>5, WorkHeld DEF PiStep, NewReading

\* What a thread has, or gets from overlapping str_splits, keeps it.
LEMMA ThreadGoesOnHeld ==
  ASSUME KontrolerTypeOK, ThreadsHeld, UNCHANGED held, UNCHANGED packet, mixed => mixed',
         NEW w \in Workers, NEW n, thread' = [thread EXCEPT ![w] = n],
         \/ WasHeld(n.mes)
         \/ n.pc # "forward" /\ (n.mes = thread[w].mes \/ Mingled(n.mes))
  PROVE  ThreadsHeld'
<1>1. \A m : (WasHeld(m) => WasHeld(m)') /\ (Mingled(m) => Mingled(m)')
  BY DEF WasHeld, Mingled
<1>2. ASSUME NEW v \in Workers
      PROVE  /\ WasHeld(thread'[v].mes) \/ Mingled(thread'[v].mes)
             /\ thread'[v].pc = "forward" => WasHeld(thread'[v].mes)
  <2>1. CASE v = w
    <3>1. thread'[v] = n
      BY <2>1 DEF KontrolerTypeOK
    <3> QED BY <3>1 DEF ThreadsHeld
  <2>2. CASE v # w
    <3>1. thread'[v] = thread[v]
      BY <2>2 DEF KontrolerTypeOK
    <3> QED BY <3>1 DEF ThreadsHeld
  <2> QED BY <2>1, <2>2
<1>3. WasHeld(packet')
  BY DEF ThreadsHeld
<1> QED BY <1>2, <1>3 DEF ThreadsHeld, WasHeld, Mingled

\* The threads of the controller keep it: a thread takes the value of a
\* PropertyChanged with the device and the field it came with.
LEMMA RunHeld ==
  ASSUME BusTypeOK, KontrolerTypeOK, QueuesHeld, ThreadsHeld, DbValuesWereHeld,
         NEW w \in Workers, Run(w), UNCHANGED held
  PROVE  QueuesHeld' /\ ThreadsHeld' /\ DbValuesWereHeld'
<1> DEFINE t == thread[w]
<1>0. /\ Kontroler \in Clients /\ UiTopic \in Topics /\ WasHeld(NoThread.mes)
      /\ UNCHANGED mixed
  BY DEF Clients, Topics, OwnTopics, NoThread, NoMessage, WasHeld, Run, NoDevice, Distribute,
         ReadDevice, Answer, Acknowledge, Reread, Forward, Apply, strtokVars
<1>1. ASSUME thread' = [thread EXCEPT ![w] = NoThread], UNCHANGED packet
      PROVE  ThreadsHeld'
  BY <1>0, <1>1, ThreadGoesOnHeld
<1>2. ASSUME NEW topic \in Topics, NEW m \in Messages, WasHeld(m), Publish(Kontroler, topic, m)
      PROVE  QueuesHeld'
  BY <1>0, <1>2, PublishHeld
<1>3. UNCHANGED <<outbox, inbox>> => QueuesHeld'
  BY UntouchedHeld
<1>4. UNCHANGED db => DbValuesWereHeld'
  BY <1>0 DEF DbValuesWereHeld
<1>5. CASE NoDevice(w)
  <2>1. WasHeld(NonExistent) /\ NonExistent \in Messages
    BY MessageTypes DEF WasHeld, NonExistent
  <2> QED BY <1>0, <1>1, <1>2, <1>4, <1>5, <2>1 DEF NoDevice
<1>6. CASE Answer(w)
  <2>1. PICK g \in BOOLEAN : Publish(Kontroler, UiTopic, Values(t.out, g))
    BY <1>6 DEF Answer
  <2>2. WasHeld(Values(t.out, g)) /\ Values(t.out, g) \in Messages
    BY MessageTypes DEF WasHeld, Values, KontrolerTypeOK, ThreadOK
  <2> QED BY <1>0, <1>1, <1>2, <1>4, <1>6, <2>1, <2>2 DEF Answer
<1>7. CASE Acknowledge(w)
  <2> DEFINE n == [t EXCEPT !.pc = "reread"]
  <2>1. WasHeld(HasBeenSet(t.mes.field)) /\ HasBeenSet(t.mes.field) \in Messages
    BY <1>7, MessageTypes DEF WasHeld, HasBeenSet, KontrolerTypeOK, ThreadOK, Sets, Acknowledge, In
  <2>2. n.pc # "forward" /\ n.mes = t.mes /\ thread' = [thread EXCEPT ![w] = n]
        /\ Publish(Kontroler, UiTopic, HasBeenSet(t.mes.field)) /\ UNCHANGED <<db, packet>>
    BY <1>7 DEF Acknowledge, KontrolerTypeOK, ThreadOK
  <2> HIDE DEF n
  <2> QED BY <1>0, <1>2, <1>4, <2>1, <2>2, ThreadGoesOnHeld
<1>8. CASE Distribute(w)
  <2>1. WasHeld(Begin(packet).mes)
    BY <1>0, BeginTypes DEF KontrolerTypeOK, ThreadsHeld
  <2>2. thread' = [thread EXCEPT ![w] = Begin(packet)] /\ UNCHANGED <<outbox, inbox, db, packet>>
    BY <1>8 DEF Distribute, busVars
  <2> QED BY <1>0, <1>3, <1>4, <2>1, <2>2, ThreadGoesOnHeld
<1>9. CASE ReadDevice(w)
  <2> DEFINE d == Head(t.todo)
             n == [t EXCEPT !.out = Append(@, IF Found(d) THEN db[d][t.mes.field] ELSE OutOfBounds),
                            !.todo = Tail(@),
                            !.pc = IF Len(t.todo) = 1 THEN "reply" ELSE "read"]
  <2>1. n.pc # "forward" /\ n.mes = t.mes
    BY DEF KontrolerTypeOK, ThreadOK
  <2>2. thread' = [thread EXCEPT ![w] = n] /\ UNCHANGED <<outbox, inbox, db, packet>>
    BY <1>9 DEF ReadDevice, busVars
  <2> HIDE DEF n
  <2> QED BY <1>0, <1>3, <1>4, <2>1, <2>2, ThreadGoesOnHeld
<1>10. CASE Reread(w)
  <2> DEFINE n == [t EXCEPT !.pc = "forward", !.mes = packet]
  <2>1. WasHeld(n.mes) /\ thread' = [thread EXCEPT ![w] = n] /\ UNCHANGED <<outbox, inbox, db, packet>>
    BY <1>10 DEF Reread, busVars, KontrolerTypeOK, ThreadOK, ThreadsHeld
  <2> HIDE DEF n
  <2> QED BY <1>0, <1>3, <1>4, <2>1, ThreadGoesOnHeld
<1>11. CASE Forward(w)
  <2>1. t.topic \in Topics /\ t.mes \in Messages /\ WasHeld(t.mes)
    BY <1>11 DEF Forward, In, KontrolerTypeOK, ThreadOK, Topics, OwnTopics, ThreadsHeld
  <2> QED BY <1>1, <1>2, <1>4, <1>11, <2>1 DEF Forward
<1>12. CASE Apply(w)
  <2> DEFINE m == t.mes
  <2>1. m \in Changes /\ (WasHeld(m) \/ Mingled(m))
    BY <1>12 DEF Apply, In, KontrolerTypeOK, ThreadOK, ThreadsHeld
  <2>2. <<m.id, m.field, m.value>> \in held \/ (mixed /\ m.value = Stray)
    BY <2>1 DEF WasHeld, Mingled, Changes
  <2>3. /\ db' = [db EXCEPT ![m.id][m.field] = m.value]
        /\ thread' = [thread EXCEPT ![w] = NoThread] /\ UNCHANGED <<outbox, inbox, packet>>
    BY <1>12 DEF Apply, busVars
  <2>4. DbValuesWereHeld'
    BY <1>0, <2>2, <2>3 DEF DbValuesWereHeld, KontrolerTypeOK
  <2> QED BY <1>1, <1>3, <2>3, <2>4
<1> QED BY <1>5, <1>6, <1>7, <1>8, <1>9, <1>10, <1>11, <1>12 DEF Run

\* So do str_splits that may overlap: only they make a thread say anything else.
LEMMA OverlapHeld ==
  ASSUME BusTypeOK, KontrolerTypeOK, QueuesHeld, ThreadsHeld, DbValuesWereHeld,
         Overlap, UNCHANGED held
  PROVE  QueuesHeld' /\ ThreadsHeld' /\ DbValuesWereHeld'
<1>0. Kontroler \in Clients /\ UNCHANGED db /\ WasHeld(NoThread.mes) /\ NoThread.pc # "forward"
  BY DEF Clients, Overlap, TakeIn, LookUp, BeginSplit, EndSplit, NoThread, NoMessage, WasHeld
<1>1. UNCHANGED <<outbox, inbox>> => QueuesHeld'
  BY UntouchedHeld
<1>2. (mixed => mixed') => DbValuesWereHeld'
  BY <1>0 DEF DbValuesWereHeld
<1>3. ASSUME EndProcess, UNCHANGED packet
      PROVE  ThreadsHeld' /\ (mixed => mixed')
  <2>1. UNCHANGED mixed /\ \A v \in Workers : thread'[v] = NoThread
    BY <1>3 DEF EndProcess
  <2> QED BY <1>0, <1>3, <2>1 DEF ThreadsHeld, WasHeld
<1>4. CASE TakeIn
  <2>1. /\ Arrived(Kontroler) /\ inbox' = [inbox EXCEPT ![Kontroler] = Tail(@)]
        /\ UNCHANGED <<outbox, db, thread>> /\ packet' = Head(inbox[Kontroler]).mes
        /\ (mixed => mixed')
    BY <1>4 DEF TakeIn, EnterSplit
  <2>2. WasHeld(Head(inbox[Kontroler]).mes) /\ QueuesHeld'
    BY <1>0, <2>1, ArrivedHeld
  <2>3. ThreadsHeld'
    BY <2>1, <2>2 DEF ThreadsHeld, WasHeld, Mingled
  <2> QED BY <1>2, <2>1, <2>2, <2>3
<1>5. ASSUME NEW w \in Workers, LookUp(w)
      PROVE  QueuesHeld' /\ ThreadsHeld' /\ DbValuesWereHeld'
  <2>1. CASE EndProcess
    BY <1>1, <1>2, <1>3, <1>5, <2>1 DEF LookUp
  <2>2. CASE ~EndProcess
    <3>1. PICK known :
            thread' = [thread EXCEPT ![w].pc = IF known THEN "start" ELSE "missing"]
      BY <1>5, <2>2 DEF LookUp
    <3> DEFINE n == [thread[w] EXCEPT !.pc = IF known THEN "start" ELSE "missing"]
    <3>2. n.pc # "forward" /\ n.mes = thread[w].mes /\ thread' = [thread EXCEPT ![w] = n]
      BY <3>1 DEF KontrolerTypeOK, ThreadOK
    <3>3. UNCHANGED <<outbox, inbox, packet, mixed>>
      BY <1>5, <2>2 DEF LookUp, LeaveSplit
    <3> HIDE DEF n
    <3> QED BY <1>1, <1>2, <3>2, <3>3, ThreadGoesOnHeld
  <2> QED BY <2>1, <2>2
<1>6. ASSUME NEW w \in Workers, BeginSplit(w)
      PROVE  QueuesHeld' /\ ThreadsHeld' /\ DbValuesWereHeld'
  <2> DEFINE n == [thread[w] EXCEPT !.pc = "split", !.mes = packet]
  <2>1. WasHeld(n.mes) /\ thread' = [thread EXCEPT ![w] = n]
        /\ UNCHANGED <<outbox, inbox, packet>> /\ (mixed => mixed')
    BY <1>6 DEF BeginSplit, EnterSplit, busVars, KontrolerTypeOK, ThreadOK, ThreadsHeld
  <2> HIDE DEF n
  <2> QED BY <1>1, <1>2, <2>1, ThreadGoesOnHeld
<1>7. ASSUME NEW w \in Workers, EndSplit(w)
      PROVE  QueuesHeld' /\ ThreadsHeld' /\ DbValuesWereHeld'
  <2>1. CASE EndProcess
    BY <1>1, <1>2, <1>3, <1>7, <2>1 DEF EndSplit
  <2>2. CASE ~EndProcess
    <3>1. thread[w].mes \in Messages
      BY <1>7 DEF EndSplit, In, KontrolerTypeOK, ThreadOK
    <3>2. PICK m \in Mixtures(thread[w].mes) \cup {thread[w].mes} :
            /\ thread' = [thread EXCEPT ![w] = Begin(m)]
            /\ m = thread[w].mes \/ w \in crossed
      BY <1>7, <2>2 DEF EndSplit
    <3>3. WasHeld(m) \/ Mingled(m)
      <4>1. CASE m = thread[w].mes
        BY <4>1 DEF ThreadsHeld
      <4>2. CASE m # thread[w].mes
        <5>1. mixed
          BY <3>2, <4>2 DEF KontrolerTypeOK
        <5> QED BY <3>2, <4>2, <5>1 DEF Mixtures, WasHeld, Mingled, NoMessage, PropertyChanged
      <4> QED BY <4>1, <4>2
    <3>4. m \in Messages \cup {NoMessage}
      BY <3>1, <3>2, MixtureTypes
    <3>5. Begin(m).pc # "forward" /\ (WasHeld(Begin(m).mes) \/ Mingled(Begin(m).mes))
      BY <1>0, <3>3, <3>4, BeginTypes
    <3>6. UNCHANGED <<outbox, inbox, packet, mixed>>
      BY <1>7, <2>2 DEF EndSplit, LeaveSplit
    <3> QED BY <1>1, <1>2, <3>2, <3>5, <3>6, ThreadGoesOnHeld
  <2> QED BY <2>1, <2>2
<1> QED BY <1>4, <1>5, <1>6, <1>7 DEF Overlap

\* So does everything the controller does.
LEMMA KontrolerHeld ==
  ASSUME BusTypeOK, KontrolerTypeOK, QueuesHeld, ThreadsHeld, DbValuesWereHeld,
         KontrolerNext, UNCHANGED held
  PROVE  QueuesHeld' /\ ThreadsHeld' /\ DbValuesWereHeld'
<1>1. ASSUME NEW w \in Workers, Callback(w)
      PROVE  QueuesHeld' /\ ThreadsHeld' /\ DbValuesWereHeld'
  <2>1. /\ Arrived(Kontroler) /\ inbox' = [inbox EXCEPT ![Kontroler] = Tail(@)]
        /\ UNCHANGED <<outbox, db, mixed>> /\ packet' = Head(inbox[Kontroler]).mes
        /\ \A v \in Workers : thread'[v].mes = thread[v].mes
        /\ \A v \in Workers : thread'[v].pc = "forward" => thread[v].pc = "forward"
        /\ Kontroler \in Clients
    BY <1>1 DEF Callback, KontrolerTypeOK, ThreadOK, strtokVars, Clients
  <2>2. WasHeld(Head(inbox[Kontroler]).mes) /\ QueuesHeld'
    BY <2>1, ArrivedHeld
  <2>3. DbValuesWereHeld'
    BY <2>1 DEF DbValuesWereHeld
  <2>4. ThreadsHeld'
    BY <2>1, <2>2 DEF ThreadsHeld, WasHeld, Mingled
  <2> QED BY <2>2, <2>3, <2>4
<1> QED BY <1>1, RunHeld, OverlapHeld DEF KontrolerNext

\* A command is not about a value that a device has.
LEMMA CliHeld ==
  ASSUME BusTypeOK, QueuesHeld, Display \/ NewCommand, UNCHANGED held
  PROVE  QueuesHeld'
<1>0. Cli \in Clients /\ ControlerTopic \in Topics
  BY DEF Clients, Topics, OwnTopics
<1>1. CASE Display
  BY <1>0, <1>1, ArrivedHeld DEF Display
<1>2. ASSUME NEW l \in Lines, Command(l)
      PROVE  QueuesHeld'
  <2>1. l.mes \in Commands
    BY <1>2, LinesAssumption DEF Command
  <2>2. WasHeld(l.mes) /\ l.mes \in Messages
    BY <2>1, MessageTypes DEF WasHeld, Commands, Asks, Sets
  <2> QED BY <1>0, <1>2, <2>2, PublishHeld DEF Command
<1> QED BY <1>1, <1>2 DEF NewCommand

\* In the beginning nothing is under way.
LEMMA InitHeld ==
  Init => HeldInv
<1> SUFFICES ASSUME Init PROVE HeldInv
  OBVIOUS
<1>1. InitialHeld /\ DevicesHeld /\ DbValuesWereHeld
  BY DEF Init, PiInit, KontrolerInit, InitialHeld, DevicesHeld, DbValuesWereHeld
<1>2. \A c \in Clients : Len(outbox[c]) = 0 /\ Len(inbox[c]) = 0
  BY EmptySeq DEF Init, BusInit
<1>3. QueuesHeld
  BY <1>2 DEF QueuesHeld
<1>4. WorkersHeld
  BY DEF Init, PiInit, WorkersHeld, Idle
<1>5. ThreadsHeld
  BY DEF Init, KontrolerInit, ThreadsHeld, NoThread, NoMessage, WasHeld
<1> QED BY <1>1, <1>3, <1>4, <1>5 DEF HeldInv

\* What a program starts with again was held from the beginning.
LEMMA FaultHeld ==
  ASSUME TypeOK, HeldInv, Fault
  PROVE  HeldInv'
<1> USE DEF TypeOK, HeldInv
<1>1. ASSUME NEW c \in Clients, Disconnect(c) \/ Reboot(c), held \subseteq held'
      PROVE  QueuesHeld'
  <2>1. \A d \in Clients : outbox'[d] \in {outbox[d], <<>>} /\ inbox'[d] \in {inbox[d], <<>>}
    BY <1>1 DEF Disconnect, Reboot, BusTypeOK
  <2>2. Len(<<>>) = 0
    BY EmptySeq
  <2> QED BY <1>1, <2>1, <2>2 DEF QueuesHeld, WasHeld
<1>2. ASSUME NEW c \in Clients, Break(c)
      PROVE  HeldInv'
  <2>1. UNCHANGED <<dev, worker, held, kontrolerVars>>
    BY <1>2 DEF Break, piVars
  <2> QED BY <1>1, <1>2, <2>1, UntouchedHeld DEF Break, InitialHeld
<1>3. ASSUME NEW c \in Pis, RestartPi(c), UNCHANGED kontrolerVars
      PROVE  HeldInv'
  <2>1. c \in Clients /\ held \subseteq held' /\ InitialHeld'
    BY <1>3 DEF RestartPi, InitialHeld, Clients
  <2>2. QueuesHeld'
    BY <1>1, <1>3, <2>1 DEF RestartPi
  <2>3. DevicesHeld'
    BY <1>3, <2>1 DEF RestartPi, DevicesHeld, InitialHeld, PiTypeOK
  <2>4. \A p \in Pis, w \in Workers : worker'[p][w] = worker[p][w] \/ worker'[p][w].pc = "idle"
    BY <1>3 DEF RestartPi, PiTypeOK, Idle
  <2>5. WorkersHeld'
    BY <2>1, <2>4 DEF WorkersHeld, Visited
  <2> QED BY <1>3, <2>1, <2>2, <2>3, <2>5, UntouchedHeld
<1>4. ASSUME RestartKontroler, UNCHANGED piVars
      PROVE  HeldInv'
  <2>1. UNCHANGED <<dev, worker, held>> /\ Kontroler \in Clients
    BY <1>4 DEF piVars, Clients
  <2>2. QueuesHeld' /\ DevicesHeld' /\ WorkersHeld' /\ InitialHeld'
    BY <1>1, <1>4, <2>1, UntouchedHeld DEF RestartKontroler, InitialHeld
  <2>3. DbValuesWereHeld'
    BY <1>4, <2>1 DEF RestartKontroler, InitialHeld, DbValuesWereHeld
  <2>4. ThreadsHeld'
    BY <1>4 DEF RestartKontroler, ThreadsHeld, NoThread, NoMessage, WasHeld
  <2> QED BY <2>2, <2>3, <2>4
<1> QED BY <1>2, <1>3, <1>4 DEF Fault, Restart

\* Every step of the home keeps the strengthened invariant.
LEMMA NextHeld ==
  TypeOK /\ HeldInv /\ [Next]_vars => HeldInv'
<1> SUFFICES ASSUME TypeOK, HeldInv, [Next]_vars PROVE HeldInv'
  OBVIOUS
<1> USE DEF TypeOK, HeldInv
<1>0. held \subseteq held' => InitialHeld'
  BY DEF InitialHeld
<1>1. CASE UNCHANGED vars
  BY <1>0, <1>1, UntouchedHeld DEF vars, busVars, piVars, kontrolerVars
<1>2. ASSUME NEW c \in Clients, BusStep(c), UNCHANGED <<piVars, kontrolerVars, pending>>
      PROVE  HeldInv'
  <2>1. UNCHANGED <<dev, worker, held, kontrolerVars>>
    BY <1>2 DEF piVars
  <2> QED BY <1>0, <1>2, <2>1, BusStepHeld, UntouchedHeld
<1>3. CASE (PiStep \/ NewReading) /\ UNCHANGED <<kontrolerVars, pending>>
  BY <1>0, <1>3, PiHeld, UntouchedHeld
<1>4. CASE KontrolerNext /\ UNCHANGED <<piVars, pending>>
  <2>1. UNCHANGED <<dev, worker, held>>
    BY <1>4 DEF piVars
  <2> QED BY <1>0, <1>4, <2>1, KontrolerHeld, UntouchedHeld
<1>5. CASE (NewCommand \/ Display) /\ UNCHANGED <<piVars, kontrolerVars>>
  <2>1. UNCHANGED <<dev, worker, held>>
    BY <1>5 DEF piVars
  <2> QED BY <1>0, <1>5, <2>1, CliHeld, UntouchedHeld
<1>6. CASE Fault
  BY <1>6, FaultHeld
<1> QED BY <1>1, <1>2, <1>3, <1>4, <1>5, <1>6 DEF Next, Step

\* The controller never shows a value or an info text that the device it names
\* never had, unless str_splits of its threads and its callback have overlapped
\* since it was started: for every table of devices, any number of worker threads,
\* every interleaving of their string operations, and whatever the network loses.
\* Texts that overlapping str_splits put together (Stray) are the only others it
\* ever shows.
THEOREM ReplicaShowsHeldValues ==
  Spec => []DbValuesWereHeld
<1>1. Init => TypeOK /\ HeldInv
  BY InitTypes, InitHeld
<1>2. (TypeOK /\ HeldInv) /\ [Next]_vars => (TypeOK /\ HeldInv)'
  BY NextTypes, NextHeld
<1>3. TypeOK /\ HeldInv => DbValuesWereHeld
  BY DEF HeldInv
<1> QED BY <1>1, <1>2, <1>3, PTL DEF Spec

-----------------------------------------------------------------------------
(* Spaced: each program works on one message at a time.                    *)

UserCommands == {l.mes : l \in {k \in Lines : WellFormed(k)}}

\* What the topic of a packet says of its message.
Sound(pk) ==
  /\ pk.topic = ControlerTopic => pk.mes \in Changes \cup UserCommands
  /\ pk.topic = UiTopic => pk.mes \in Replies
  /\ pk.topic = InfoTopic => pk.mes \in UserCommands \cap Sets /\ pk.mes.field = "Info"
  /\ pk.topic = FuncTopic => pk.mes \in UserCommands \cap Sets /\ pk.mes.field = "Value"
  /\ pk.topic \notin OwnTopics => pk.mes.type = "Sensor_Mes"

\* A pi reports on its own devices, and only sensors have readings.
SentBy(c, pk) ==
  /\ Sound(pk)
  /\ c = Kontroler => pk.topic \in {UiTopic, InfoTopic, FuncTopic}
  /\ c = Cli => pk.topic = ControlerTopic /\ pk.mes \in UserCommands
  /\ c \in Pis => \/ pk.topic = ControlerTopic /\ pk.mes \in Changes /\ pk.mes.id \in Owned(c)
                  \/ c = "senzorski_pi" /\ pk.topic \notin OwnTopics
Received(c, pk) == pk.topic \in Subscriptions(c) /\ Sound(pk)
PacketsSound ==
  /\ \A c \in Clients : \A k \in DOMAIN outbox[c] : SentBy(c, outbox[c][k])
  /\ \A c \in Clients : \A k \in DOMAIN inbox[c] : Received(c, inbox[c][k])

\* What a worker does is what one packet says: a status for the devices of a room, or
\* a field of the device that a command names.  The text it publishes is still true.
WorkerSound(p, r) ==
  /\ r.pc = "topic" => p = "aktuatorski_pi" /\ r.auto /\ r.field = "Value"
  /\ r.pc \in {"loop", "write", "format", "publish"} =>
       IF r.auto THEN p = "aktuatorski_pi" /\ r.field = "Value" /\ r.topic \notin OwnTopics
       ELSE /\ p = "senzorski_pi" => r.field = "Info"
            /\ \E m \in UserCommands \cap Sets : m.field = r.field /\ m.id = r.id
  /\ r.pc \in {"write", "format", "publish"} =>
       IF r.auto THEN Place[Visited(p, r)] = r.topic ELSE Visited(p, r) = r.id
  /\ r.pc = "publish" => r.out = dev[Visited(p, r)][r.field]
OneWorker(p) ==
  /\ \A v, w \in Workers : worker[p][v].pc # "idle" /\ worker[p][w].pc # "idle" => v = w
  /\ delivering[p] # NoPacket =>
       /\ Received(p, delivering[p]) /\ callback[p].topic = delivering[p].topic
       /\ \A w \in Workers : worker[p][w].pc = "idle"
  /\ \A w \in Workers :
       /\ WorkerSound(p, worker[p][w])
       /\ worker[p][w].pc = "start" =>
            /\ callback[p].whole
            /\ Received(p, [topic |-> callback[p].topic, mes |-> callback[p].mes])
       /\ worker[p][w].pc = "topic" => callback[p].topic \notin OwnTopics

\* A thread of the controller works on the text that is in callback_packet.
ThreadSound(t) ==
  /\ t.pc = "start" => packet.id \in Devices \cup {AllDevices}
  /\ t.pc = "missing" => packet.id \notin Devices \cup {AllDevices}
  /\ t.pc \in {"start", "missing"} => packet \in Changes \cup UserCommands
  /\ t.pc \in {"read", "reply", "ack", "reread", "forward", "apply"} =>
       t.mes = packet /\ packet.id \in Devices \cup {AllDevices}
  /\ t.pc \in {"read", "reply"} => packet \in UserCommands \cap Asks
  /\ t.pc \in {"ack", "reread", "forward"} =>
       packet \in UserCommands \cap Sets /\ t.topic = ForwardTopic(packet.field)
OneThread ==
  /\ \A v, w \in Workers : thread[v].pc # "idle" /\ thread[w].pc # "idle" => v = w
  /\ \A w \in Workers : ThreadSound(thread[w])

SpacedInv == /\ PacketsSound /\ (\A p \in Pis : OneWorker(p)) /\ OneThread
             /\ up[Kontroler] /\ up[Cli] /\ ~mixed

-----------------------------------------------------------------------------
(* The packets.                                                            *)

\* The rest of a sequence, and what is put behind one.
LEMMA TailAt ==
  ASSUME NEW T, NEW s \in Seq(T), s # <<>>
  PROVE  /\ Len(s) \in Nat \ {0} /\ DOMAIN s = 1..Len(s) /\ s[1] = Head(s) /\ Head(s) \in T
         /\ Tail(s) \in Seq(T) /\ Len(Tail(s)) = Len(s) - 1 /\ DOMAIN Tail(s) = 1..(Len(s) - 1)
         /\ \A k \in 1..(Len(s) - 1) : Tail(s)[k] = s[k + 1]
<1>1. Len(s) \in Nat \ {0} /\ DOMAIN s = 1..Len(s)
  BY EmptySeq, LenProperties
<1>2. Tail(s) \in Seq(T) /\ Len(Tail(s)) = Len(s) - 1 /\ Head(s) \in T
  BY HeadTailProperties
<1> QED BY <1>1, <1>2, LenProperties

LEMMA AppendAt ==
  ASSUME NEW T, NEW s \in Seq(T), NEW x \in T
  PROVE  /\ Len(s) \in Nat /\ DOMAIN s = 1..Len(s)
         /\ Append(s, x) \in Seq(T) /\ Len(Append(s, x)) = Len(s) + 1
         /\ DOMAIN Append(s, x) = 1..(Len(s) + 1)
         /\ Append(s, x)[Len(s) + 1] = x /\ \A k \in 1..Len(s) : Append(s, x)[k] = s[k]
<1>1. Len(s) \in Nat /\ DOMAIN s = 1..Len(s)
  BY LenProperties
<1>2. Append(s, x) \in Seq(T) /\ Len(Append(s, x)) = Len(s) + 1
  BY AppendProperties
<1> QED BY <1>1, <1>2, LenProperties, AppendProperties

\* What mqtt_publish queues, and that it queues nothing with an error.
LEMMA PublishQueues ==
  ASSUME BusTypeOK, NEW c \in Clients, NEW t, NEW m, Publish(c, t, m)
  PROVE  /\ \A d \in Clients : d # c => outbox'[d] = outbox[d] /\ error'[d] = error[d]
         /\ inbox' = inbox /\ subscribed' = subscribed /\ delivering' = delivering
         /\ delivering[c] = NoPacket
         /\ \/ /\ error[c] = "none" /\ error'[c] = "none"
               /\ outbox'[c] = Append(outbox[c], [topic |-> t, mes |-> m])
            \/ /\ error'[c] # "none" /\ (error[c] = "none" => error'[c] = "full")
               /\ (error[c] # "none" => error'[c] = error[c]) /\ outbox'[c] = outbox[c]
BY DEF Publish, BusTypeOK, Unlocked

LEMMA PublishSound ==
  ASSUME BusTypeOK, PacketsSound, NEW c \in Clients, NEW t \in Topics, NEW m \in Messages,
         Publish(c, t, m), SentBy(c, [topic |-> t, mes |-> m])
  PROVE  PacketsSound'
<1>1. PICK x \in Packets : x = [topic |-> t, mes |-> m]
  BY MessageTypes
<1>2. \A d \in Clients : \/ outbox'[d] = outbox[d]
                         \/ d = c /\ outbox'[d] = Append(outbox[d], x)
  BY <1>1, PublishQueues
<1>3. ASSUME NEW d \in Clients, NEW k \in DOMAIN outbox'[d]
      PROVE  SentBy(d, outbox'[d][k])
  <2>1. CASE outbox'[d] = outbox[d]
    BY <2>1, <1>3 DEF PacketsSound
  <2>2. CASE d = c /\ outbox'[d] = Append(outbox[d], x)
    <3>1. outbox[d] \in Seq(Packets)
      BY DEF BusTypeOK
    <3>2. k \in 1..Len(outbox[d]) \/ k = Len(outbox[d]) + 1
      BY <1>3, <2>2, <3>1, AppendAt
    <3>3. CASE k \in 1..Len(outbox[d])
      BY <2>2, <3>1, <3>3, AppendAt DEF PacketsSound
    <3>4. CASE k = Len(outbox[d]) + 1
      BY <1>1, <2>2, <3>1, <3>4, AppendAt
    <3> QED BY <3>2, <3>3, <3>4
  <2> QED BY <1>2, <2>1, <2>2
<1>4. inbox' = inbox
  BY DEF Publish
<1> QED BY <1>3, <1>4 DEF PacketsSound

\* Taking the first packet of a queue.
LEMMA TakenSound ==
  ASSUME BusTypeOK, PacketsSound, NEW d \in Clients, inbox[d] # <<>>,
         outbox' = outbox, inbox' = [inbox EXCEPT ![d] = Tail(@)]
  PROVE  PacketsSound'
<1>1. ASSUME NEW c \in Clients, NEW k \in DOMAIN inbox'[c]
      PROVE  \E j \in DOMAIN inbox[c] : inbox'[c][k] = inbox[c][j]
  <2>1. CASE c = d
    <3>1. inbox[d] \in Seq(Packets) /\ inbox'[d] = Tail(inbox[d])
      BY DEF BusTypeOK
    <3>2. k \in 1..(Len(inbox[d]) - 1) /\ k + 1 \in DOMAIN inbox[d]
      <4>1. k \in DOMAIN Tail(inbox[d])
        BY <1>1, <2>1, <3>1
      <4> QED BY <3>1, <4>1, TailAt
    <3> QED BY <2>1, <3>1, <3>2, TailAt
  <2>2. CASE c # d
    BY <1>1, <2>2 DEF BusTypeOK
  <2> QED BY <2>1, <2>2
<1> QED BY <1>1 DEF PacketsSound

\* What the broker passes on was published with its topic.
LEMMA SendSound ==
  ASSUME BusTypeOK, PacketsSound, NEW c \in Clients, Send(c)
  PROVE  PacketsSound'
<1>1. PICK x : x = Head(outbox[c])
  OBVIOUS
<1>2. /\ outbox[c] \in Seq(Packets) /\ outbox[c] # <<>> /\ outbox' = [outbox EXCEPT ![c] = Tail(@)]
      /\ \A d \in Clients : inbox[d] \in Seq(Packets)
  BY DEF Send, BusTypeOK
<1>3. x \in Packets /\ SentBy(c, x)
  BY <1>1, <1>2, TailAt DEF PacketsSound
<1>4. \A d \in Clients : \/ inbox'[d] = inbox[d]
                         \/ inbox'[d] = Append(inbox[d], x) /\ x.topic \in Subscriptions(d)
  BY <1>1 DEF Send
<1>5. ASSUME NEW d \in Clients, NEW k \in DOMAIN inbox'[d]
      PROVE  Received(d, inbox'[d][k])
  <2>1. CASE inbox'[d] = inbox[d]
    BY <1>5, <2>1 DEF PacketsSound
  <2>2. CASE inbox'[d] = Append(inbox[d], x) /\ x.topic \in Subscriptions(d)
    <3>1. k \in 1..Len(inbox[d]) \/ k = Len(inbox[d]) + 1
      BY <1>2, <1>3, <1>5, <2>2, AppendAt
    <3>2. CASE k \in 1..Len(inbox[d])
      BY <1>2, <1>3, <2>2, <3>2, AppendAt DEF PacketsSound
    <3>3. CASE k = Len(inbox[d]) + 1
      BY <1>2, <1>3, <2>2, <3>3, AppendAt DEF Received, SentBy
    <3> QED BY <3>1, <3>2, <3>3
  <2> QED BY <1>4, <2>1, <2>2
<1>6. ASSUME NEW d \in Clients, NEW k \in DOMAIN outbox'[d]
      PROVE  SentBy(d, outbox'[d][k])
  <2>1. CASE d # c
    BY <1>2, <1>6, <2>1 DEF PacketsSound
  <2>2. CASE d = c
    <3>1. outbox'[d] = Tail(outbox[c])
      BY <1>2, <2>2 DEF BusTypeOK
    <3>2. k \in 1..(Len(outbox[c]) - 1) /\ k + 1 \in DOMAIN outbox[c]
      <4>1. k \in DOMAIN Tail(outbox[c])
        BY <1>6, <3>1
      <4> QED BY <1>2, <4>1, TailAt
    <3>3. outbox'[d][k] = outbox[c][k + 1]
      <4>1. \A l \in 1..(Len(outbox[c]) - 1) : Tail(outbox[c])[l] = outbox[c][l + 1]
        BY <1>2, TailAt
      <4> QED BY <3>1, <3>2, <4>1
    <3>4. SentBy(c, outbox[c][k + 1])
      BY <3>2 DEF PacketsSound
    <3> QED BY <2>2, <3>3, <3>4
  <2> QED BY <2>1, <2>2
<1> QED BY <1>5, <1>6 DEF PacketsSound

-----------------------------------------------------------------------------
(* The worker threads of the pis.                                          *)

\* What the subscriptions of a program let through.
LEMMA ReceivedParts ==
  ASSUME NEW pk
  PROVE  /\ Received("senzorski_pi", pk) =>
              pk.topic = InfoTopic /\ pk.mes \in UserCommands \cap Sets /\ pk.mes.field = "Info"
         /\ Received("aktuatorski_pi", pk) =>
              IF pk.topic \in OwnTopics THEN pk.mes \in UserCommands \cap Sets
                                        ELSE pk.mes.type = "Sensor_Mes"
         /\ Received(Kontroler, pk) => pk.topic = ControlerTopic /\ pk.mes \in Changes \cup UserCommands
         /\ Received(Cli, pk) => pk.topic = UiTopic /\ pk.mes \in Replies
<1>1. /\ InfoTopic # UiTopic /\ InfoTopic # FuncTopic /\ InfoTopic # ControlerTopic
      /\ {InfoTopic, FuncTopic, UiTopic, ControlerTopic} \subseteq OwnTopics
      /\ UiTopic # ControlerTopic /\ FuncTopic # ControlerTopic
  BY DEF InfoTopic, UiTopic, FuncTopic, ControlerTopic, OwnTopics
<1>2. /\ Subscriptions("senzorski_pi") = {InfoTopic} /\ Subscriptions(Cli) = {UiTopic}
      /\ Subscriptions("aktuatorski_pi") = {Place[d] : d \in Actuators} \cup {InfoTopic, FuncTopic}
      /\ Subscriptions(Kontroler) = {ControlerTopic}
  BY DEF Subscriptions, Kontroler, Cli
<1>3. \A d \in Actuators : Place[d] \notin OwnTopics
  BY RoomsAssumption DEF Devices
<1> QED BY <1>1, <1>2, <1>3 DEF Received, Sound

\* What says nothing of a worker leaves it as it is.
LEMMA WorkersKept ==
  ASSUME NEW p \in Pis, OneWorker(p), worker'[p] = worker[p], delivering'[p] = delivering[p],
         callback'[p] = callback[p],
         \A w \in Workers : worker[p][w].pc = "publish" =>
            LET r == worker[p][w] IN dev'[Visited(p, r)][r.field] = dev[Visited(p, r)][r.field]
  PROVE  OneWorker(p)'
<1>1. \A w \in Workers : WorkerSound(p, worker[p][w])'
  <2>1. SUFFICES ASSUME NEW w \in Workers PROVE WorkerSound(p, worker[p][w])'
    OBVIOUS
  <2>2. WorkerSound(p, worker[p][w]) /\ worker'[p][w] = worker[p][w]
    BY DEF OneWorker
  <2>3. worker[p][w].pc = "publish" =>
          dev'[Visited(p, worker[p][w])][worker[p][w].field] = dev[Visited(p, worker[p][w])][worker[p][w].field]
    OBVIOUS
  <2> QED BY <2>2, <2>3 DEF WorkerSound, Visited
<1>2. \A v, w \in Workers : worker'[p][v].pc # "idle" /\ worker'[p][w].pc # "idle" => v = w
  BY DEF OneWorker
<1>3. delivering'[p] # NoPacket =>
        /\ Received(p, delivering'[p]) /\ callback'[p].topic = delivering'[p].topic
        /\ \A w \in Workers : worker'[p][w].pc = "idle"
  BY DEF OneWorker
<1>4. \A w \in Workers :
        /\ worker'[p][w].pc = "start" =>
             /\ callback'[p].whole
             /\ Received(p, [topic |-> callback'[p].topic, mes |-> callback'[p].mes])
        /\ worker'[p][w].pc = "topic" => callback'[p].topic \notin OwnTopics
  BY DEF OneWorker
<1> QED BY <1>1, <1>2, <1>3, <1>4 DEF OneWorker

\* A worker goes on.
LEMMA WorkerGoesOn ==
  ASSUME PiTypeOK, NEW p \in Pis, OneWorker(p), NEW w \in Workers, worker[p][w].pc # "idle",
         NEW n, worker' = [worker EXCEPT ![p][w] = n], WorkerSound(p, n)', n.pc # "start",
         delivering'[p] = delivering[p], n.pc = "topic" => callback'[p].topic \notin OwnTopics
  PROVE  OneWorker(p)'
<1>1. /\ worker'[p][w] = n
      /\ \A v \in Workers : v # w => worker'[p][v] = worker[p][v] /\ worker[p][v].pc = "idle"
  BY DEF PiTypeOK, OneWorker
<1>2. delivering'[p] = NoPacket
  BY DEF OneWorker
<1>3. \A v \in Workers : v # w => WorkerSound(p, worker[p][v])'
  BY <1>1 DEF WorkerSound
<1> QED BY <1>1, <1>2, <1>3 DEF OneWorker

\* It takes nothing of another pi.
LEMMA OtherPi ==
  ASSUME PiTypeOK, NEW p \in Pis, NEW q \in Pis, p # q, NEW w \in Workers, NEW n,
         worker' = [worker EXCEPT ![p][w] = n]
  PROVE  worker'[q] = worker[q]
BY DEF PiTypeOK

\* No table has a device of another one.
LEMMA TablesApart ==
  /\ \A p, q \in Pis : p # q => Owned(p) \cap Owned(q) = {}
  /\ Owned("senzorski_pi") = Sensors /\ Owned("aktuatorski_pi") = Actuators
  /\ \A p \in Pis : Owned(p) \subseteq Devices
  /\ \A p \in Pis : \A r \in WorkerStates(p) : Visited(p, r) \in Owned(p)
  /\ PiTypeOK => Sensed \in Sensors
<1>1. Owned("senzorski_pi") = Sensors /\ Owned("aktuatorski_pi") = Actuators
  BY DEF Owned, Table, Sensors, Actuators
<1>2. \A p \in Pis : \A r \in WorkerStates(p) : Visited(p, r) \in Owned(p)
  BY DEF Visited, WorkerStates, Owned, Image
<1>3. PiTypeOK => Sensed \in Sensors
  BY DEF PiTypeOK, Sensed, Sensors, Image
<1> QED BY <1>1, <1>2, <1>3, TablesAssumption DEF Pis, Devices

LEMMA BranchSound ==
  ASSUME NEW p \in Pis, NEW pk, Received(p, pk), pk.mes \in Messages
  PROVE  /\ Branch(pk.mes).pc \in {"topic", "loop"} /\ WorkerSound(p, Branch(pk.mes))
         /\ Branch(pk.mes).pc = "topic" => pk.topic \notin OwnTopics
<1>1. CASE pk.topic \in OwnTopics
  <2>1. pk.mes \in UserCommands \cap Sets /\ (p = "senzorski_pi" => pk.mes.field = "Info")
    BY <1>1, ReceivedParts DEF Pis
  <2>2. Branch(pk.mes) = [Idle EXCEPT !.pc = "loop", !.field = pk.mes.field, !.id = pk.mes.id,
                                      !.arg = pk.mes.value]
    BY <2>1 DEF Branch, Sets
  <2> QED BY <2>1, <2>2 DEF Idle, WorkerSound
<1>2. CASE pk.topic \notin OwnTopics
  <2>1. pk.mes.type = "Sensor_Mes" /\ p = "aktuatorski_pi"
    <3>1. InfoTopic \in OwnTopics
      BY DEF OwnTopics
    <3> QED BY <1>2, <3>1, ReceivedParts DEF Pis
  <2>2. Branch(pk.mes) = [Idle EXCEPT !.pc = "topic", !.auto = TRUE, !.arg = pk.mes.value]
    BY <2>1 DEF Branch
  <2> QED BY <1>2, <2>1, <2>2 DEF Idle, WorkerSound
<1> QED BY <1>1, <1>2

LEMMA AdvanceSound ==
  ASSUME NEW p \in Pis, NEW r \in WorkerStates(p), WorkerSound(p, r), r.pc \in {"loop", "publish"}
  PROVE  WorkerSound(p, Advance(p, r)) /\ Advance(p, r).pc \in {"idle", "loop"}
BY DEF WorkerStates, WorkerSound, Advance, Idle

\* The steps of a worker.
LEMMA WorkOnce ==
  ASSUME PiTypeOK, NEW p \in Pis, NEW w \in Workers, Work(p, w), \A q \in Pis : OneWorker(q)
  PROVE  \A q \in Pis : OneWorker(q)'
<1> DEFINE r == worker[p][w]
<1>1. r \in WorkerStates(p) /\ WorkerSound(p, r) /\ OneWorker(p) /\ Visited(p, r) \in Owned(p)
  BY TablesApart DEF PiTypeOK, WorkerOK, OneWorker
<1>2. ASSUME NEW n, worker' = [worker EXCEPT ![p][w] = n], r.pc # "idle", WorkerSound(p, n)',
             n.pc # "start", n.pc = "topic" => callback[p].topic \notin OwnTopics, delivering' = delivering,
             \A q \in Pis : callback'[q].topic = callback[q].topic /\ (q # p => callback'[q] = callback[q]),
             \A d \in Devices, f \in Fields : d \notin Owned(p) => dev'[d][f] = dev[d][f]
      PROVE  \A q \in Pis : OneWorker(q)'
  <2>1. OneWorker(p)'
    BY <1>1, <1>2, WorkerGoesOn
  <2>2. ASSUME NEW q \in Pis, q # p
        PROVE  OneWorker(q)'
    <3>1. worker'[q] = worker[q]
      BY <1>2, <2>2, OtherPi
    <3>2. \A v \in Workers : worker[q][v] \in WorkerStates(q)
      BY DEF PiTypeOK, WorkerOK
    <3>3. \A v \in Workers : LET u == worker[q][v] IN Visited(q, u) \in Owned(q) /\ u.field \in Fields
      BY <3>2, TablesApart DEF WorkerStates
    <3>4. \A v \in Workers : LET u == worker[q][v] IN dev'[Visited(q, u)][u.field] = dev[Visited(q, u)][u.field]
      BY <1>2, <2>2, <3>3, TablesApart
    <3> QED BY <1>2, <2>2, <3>1, <3>4, WorkersKept
  <2> QED BY <2>1, <2>2
<1>3. CASE Split(p, w)
  <2>1. PICK pk : pk = [topic |-> callback[p].topic, mes |-> callback[p].mes]
    OBVIOUS
  <2>2. PICK n : n = Branch(pk.mes)
    OBVIOUS
  <2>3. r.pc = "start" /\ Received(p, pk) /\ UNCHANGED <<delivering, dev>>
    BY <1>1, <1>3, <2>1 DEF Split, At, OneWorker, busVars
  <2>4. pk.mes \in Messages
    <3>1. NoMessage \notin Sets /\ NoMessage.type # "Sensor_Mes" /\ callback[p].mes \in Messages \cup {NoMessage}
      BY DEF NoMessage, Sets, PiTypeOK
    <3> QED BY <2>1, <2>3, <3>1, ReceivedParts DEF Pis
  <2>5. n.pc \in {"topic", "loop"} /\ WorkerSound(p, n) /\ (n.pc = "topic" => pk.topic \notin OwnTopics)
    BY <2>2, <2>3, <2>4, BranchSound
  <2>6. WorkerSound(p, n)'
    BY <2>5 DEF WorkerSound, Visited
  <2>7. worker' = [worker EXCEPT ![p][w] = n]
    BY <1>3, <2>1, <2>2 DEF Split
  <2>8. \A q \in Pis : callback'[q].topic = callback[q].topic /\ (q # p => callback'[q] = callback[q])
    BY <1>3 DEF Split, PiTypeOK
  <2> QED BY <1>2, <2>1, <2>3, <2>5, <2>6, <2>7, <2>8
<1>4. CASE SplitAgain(p, w)
  BY <1>1, <1>4 DEF SplitAgain, At, OneWorker
<1>5. CASE ReadTopic(p, w)
  <2>1. PICK n : n = [r EXCEPT !.topic = callback[p].topic, !.pc = "loop"]
    OBVIOUS
  <2>2. r.pc = "topic" /\ worker' = [worker EXCEPT ![p][w] = n] /\ UNCHANGED <<delivering, dev, callback>>
    BY <1>5, <2>1 DEF ReadTopic, At, busVars, PiTypeOK, WorkerStates
  <2>3. n.pc = "loop" /\ WorkerSound(p, n)'
    BY <1>1, <2>1, <2>2 DEF WorkerSound, WorkerStates, OneWorker
  <2> QED BY <1>2, <2>2, <2>3
<1>6. CASE Loop(p, w)
  <2>1. PICK n : n = IF Concerns(r, Visited(p, r)) THEN [r EXCEPT !.pc = "write"] ELSE Advance(p, r)
    OBVIOUS
  <2>2. r.pc = "loop" /\ worker' = [worker EXCEPT ![p][w] = n] /\ UNCHANGED <<delivering, dev, callback>>
    BY <1>6, <2>1 DEF Loop, At, busVars
  <2>3. CASE Concerns(r, Visited(p, r))
    <3>1. n.pc = "write" /\ n.auto = r.auto /\ n.field = r.field /\ n.topic = r.topic /\ n.id = r.id /\ n.i = r.i
      BY <1>1, <2>1, <2>3 DEF WorkerStates
    <3>2. WorkerSound(p, n)'
      BY <1>1, <2>2, <2>3, <3>1 DEF WorkerSound, Concerns, Visited
    <3> QED BY <1>2, <2>2, <3>1, <3>2
  <2>4. CASE ~Concerns(r, Visited(p, r))
    <3>1. WorkerSound(p, n) /\ n.pc \in {"idle", "loop"}
      BY <1>1, <2>1, <2>2, <2>4, AdvanceSound
    <3>2. WorkerSound(p, n)'
      BY <3>1 DEF WorkerSound
    <3> QED BY <1>2, <2>2, <3>1, <3>2
  <2> QED BY <2>3, <2>4
<1>7. CASE Write(p, w)
  <2>1. PICK n : n = [r EXCEPT !.pc = "format"]
    OBVIOUS
  <2>2. r.pc = "write" /\ worker' = [worker EXCEPT ![p][w] = n] /\ UNCHANGED <<delivering, callback>>
    BY <1>7, <2>1 DEF Write, At, busVars
  <2>3. n.pc = "format" /\ n.auto = r.auto /\ n.field = r.field /\ n.topic = r.topic /\ n.id = r.id /\ n.i = r.i
    BY <1>1, <2>1 DEF WorkerStates
  <2>4. WorkerSound(p, n)'
    BY <1>1, <2>2, <2>3 DEF WorkerSound, Visited
  <2>5. \A d \in Devices, f \in Fields : d \notin Owned(p) => dev'[d][f] = dev[d][f]
    BY <1>1, <1>7 DEF Write, WriteField, PiTypeOK
  <2> QED BY <1>2, <2>2, <2>3, <2>4, <2>5
<1>8. CASE Format(p, w)
  <2>1. PICK n : n = [r EXCEPT !.out = dev[Visited(p, r)][r.field], !.pc = "publish"]
    OBVIOUS
  <2>2. r.pc = "format" /\ worker' = [worker EXCEPT ![p][w] = n] /\ UNCHANGED <<delivering, callback, dev>>
    BY <1>8, <2>1 DEF Format, At, busVars
  <2>3. /\ n.pc = "publish" /\ n.auto = r.auto /\ n.field = r.field /\ n.topic = r.topic /\ n.id = r.id
        /\ n.i = r.i /\ n.out = dev[Visited(p, n)][n.field]
    BY <1>1, <2>1 DEF WorkerStates, Visited
  <2>4. WorkerSound(p, n)'
    BY <1>1, <2>2, <2>3 DEF WorkerSound, Visited
  <2> QED BY <1>2, <2>2, <2>3, <2>4
<1>9. CASE Report(p, w)
  <2>1. PICK n : n = Advance(p, r)
    OBVIOUS
  <2>2. /\ r.pc = "publish" /\ worker' = [worker EXCEPT ![p][w] = n]
        /\ UNCHANGED <<delivering, callback, dev>>
    BY <1>9, <2>1 DEF Report, At, PublishOrExit, Publish
  <2>3. WorkerSound(p, n) /\ n.pc \in {"idle", "loop"}
    BY <1>1, <2>1, <2>2, AdvanceSound
  <2>4. WorkerSound(p, n)'
    BY <2>3 DEF WorkerSound
  <2> QED BY <1>2, <2>2, <2>3, <2>4
<1> QED BY <1>3, <1>4, <1>5, <1>6, <1>7, <1>8, <1>9 DEF Work

\* publish_callback of a pi, which waits for the worker of the packet before.
LEMMA PiCallbackOnce ==
  ASSUME Spaced, BusTypeOK, PiTypeOK, PacketsSound, \A q \in Pis : OneWorker(q), NEW p \in Pis,
         CallbackTopic(p) \/ \E w \in Workers : CallbackMes(p, w)
  PROVE  PacketsSound' /\ \A q \in Pis : OneWorker(q)'
<1>0. p \in Clients /\ inbox[p] \in Seq(Packets)
  BY DEF Clients, BusTypeOK
<1>1. CASE CallbackTopic(p)
  <2>1. /\ Arrived(p) /\ inbox[p] # <<>> /\ inbox' = [inbox EXCEPT ![p] = Tail(@)]
        /\ UNCHANGED <<outbox, worker, dev>>
        /\ \A w \in Workers : worker[p][w].pc = "idle"
    BY <1>1 DEF CallbackTopic, Arrived, WorkersIdle, Busy, Unlocked
  <2>2. PICK pk : pk = Head(inbox[p])
    OBVIOUS
  <2>3. Received(p, pk)
    BY <1>0, <2>1, <2>2, TailAt DEF PacketsSound
  <2>4. /\ delivering'[p] = pk /\ callback'[p].topic = pk.topic
        /\ \A q \in Pis : q # p => delivering'[q] = delivering[q] /\ callback'[q] = callback[q]
    BY <1>0, <1>1, <2>2 DEF CallbackTopic, BusTypeOK, PiTypeOK, Clients
  <2>5. PacketsSound'
    BY <1>0, <2>1, TakenSound
  <2>6. OneWorker(p)'
    BY <2>1, <2>3, <2>4 DEF OneWorker, WorkerSound
  <2>7. \A q \in Pis : q # p => OneWorker(q)'
    BY <2>1, <2>4, WorkersKept
  <2> QED BY <2>5, <2>6, <2>7
<1>2. ASSUME NEW w \in Workers, CallbackMes(p, w)
      PROVE  PacketsSound' /\ \A q \in Pis : OneWorker(q)'
  <2>1. /\ UNCHANGED <<outbox, inbox, dev>> /\ delivering[p] # NoPacket
        /\ Received(p, delivering[p]) /\ callback[p].topic = delivering[p].topic
        /\ \A v \in Workers : worker[p][v].pc = "idle"
    BY <1>2 DEF CallbackMes, OneWorker
  <2>2. PICK n : n = [worker[p][w] EXCEPT !.pc = "start"]
    OBVIOUS
  <2>3. n.pc = "start" /\ worker' = [worker EXCEPT ![p][w] = n]
    BY <1>2, <2>2 DEF CallbackMes, PiTypeOK, WorkerOK, WorkerStates
  <2>4. worker'[p][w] = n /\ \A v \in Workers : v # w => worker'[p][v] = worker[p][v]
    BY <2>3 DEF PiTypeOK
  <2>5. /\ delivering'[p] = NoPacket /\ callback'[p].whole /\ callback'[p].topic = callback[p].topic
        /\ callback'[p].mes = delivering[p].mes
        /\ \A q \in Pis : q # p => delivering'[q] = delivering[q] /\ callback'[q] = callback[q]
    BY <1>0, <1>2 DEF CallbackMes, BusTypeOK, PiTypeOK
  <2>6. OneWorker(p)'
    <3>1. \A v \in Workers : WorkerSound(p, worker[p][v])' /\ WorkerSound(p, n)'
      BY <2>1, <2>3 DEF WorkerSound
    <3>2. Received(p, [topic |-> callback'[p].topic, mes |-> callback'[p].mes])
      BY <2>1, <2>5 DEF Received, Sound
    <3> QED BY <2>1, <2>3, <2>4, <2>5, <3>1, <3>2 DEF OneWorker
  <2>7. \A q \in Pis : q # p => OneWorker(q)'
    <3>1. \A q \in Pis : q # p => worker'[q] = worker[q]
      BY <2>3, OtherPi
    <3> QED BY <2>1, <2>5, <3>1, WorkersKept
  <2> QED BY <2>1, <2>6, <2>7 DEF PacketsSound
<1> QED BY <1>1, <1>2

\* The sensor thread writes values, and no worker of its pi does.
LEMMA SensingOnce ==
  ASSUME BusTypeOK, PiTypeOK, PacketsSound, \A q \in Pis : OneWorker(q),
         SensorReport \/ SensorPublish \/ NewReading
  PROVE  PacketsSound' /\ \A q \in Pis : OneWorker(q)'
<1>0. /\ Sensed \in Sensors /\ Sensed \in Devices /\ dev[Sensed].Value \in Texts /\ "Value" \in Fields
      /\ "senzorski_pi" \in Clients /\ "senzorski_pi" \in Pis /\ Place[Sensed] \in Topics
  BY TablesApart, VisitedTypes, TableTypes DEF PiTypeOK, Fields, Clients, Pis
<1>1. CASE SensorReport
  <2>1. PICK m : m = PropertyChanged(Sensed, "Value", dev[Sensed].Value)
    OBVIOUS
  <2>2. /\ Publish("senzorski_pi", ControlerTopic, m) /\ UNCHANGED <<dev, worker, callback>>
        /\ delivering' = delivering
    BY <1>1, <2>1 DEF SensorReport, PublishOrExit, Publish
  <2>3. m \in Messages /\ m \in Changes /\ m.id = Sensed /\ ControlerTopic \in Topics
    BY <1>0, <2>1, MessageTypes DEF PropertyChanged, Changes, Topics, OwnTopics
  <2>4. SentBy("senzorski_pi", [topic |-> ControlerTopic, mes |-> m])
    BY <1>0, <2>3, TablesApart
       DEF SentBy, Sound, ControlerTopic, UiTopic, InfoTopic, FuncTopic, OwnTopics, Pis, Kontroler, Cli
  <2> QED BY <1>0, <2>2, <2>3, <2>4, PublishSound, WorkersKept
<1>2. CASE SensorPublish
  <2>1. PICK m : m = SensorMes(dev[Sensed].Value)
    OBVIOUS
  <2>2. /\ Publish("senzorski_pi", Place[Sensed], m) /\ UNCHANGED <<dev, worker, callback>>
        /\ delivering' = delivering
    BY <1>2, <2>1 DEF SensorPublish, PublishOrExit, Publish
  <2>3. m \in Messages /\ m.type = "Sensor_Mes" /\ Place[Sensed] \notin OwnTopics
    BY <1>0, <2>1, MessageTypes, RoomsAssumption DEF SensorMes
  <2>4. SentBy("senzorski_pi", [topic |-> Place[Sensed], mes |-> m])
    BY <1>0, <2>3 DEF SentBy, Sound, OwnTopics, Kontroler, Cli
  <2> QED BY <1>0, <2>2, <2>3, <2>4, PublishSound, WorkersKept
<1>3. ASSUME NEW v \in Readings, Sense(v)
      PROVE  PacketsSound' /\ \A q \in Pis : OneWorker(q)'
  <2>1. UNCHANGED <<outbox, inbox, worker, callback, delivering>>
    BY <1>3 DEF Sense, busVars
  <2>2. \A d \in Devices, f \in Fields : d # Sensed \/ f # "Value" => dev'[d][f] = dev[d][f]
    BY <1>0, <1>3 DEF Sense, WriteField, PiTypeOK
  <2>3. ASSUME NEW q \in Pis, NEW w \in Workers, worker[q][w].pc = "publish"
        PROVE  LET r == worker[q][w] IN dev'[Visited(q, r)][r.field] = dev[Visited(q, r)][r.field]
    <3>1. worker[q][w] \in WorkerStates(q) /\ WorkerSound(q, worker[q][w])
      BY DEF OneWorker, PiTypeOK, WorkerOK
    <3>2. Visited(q, worker[q][w]) \in Owned(q) /\ worker[q][w].field \in Fields
      BY <3>1, TablesApart DEF WorkerStates
    <3>3. Visited(q, worker[q][w]) \in Devices
      BY <3>2, TablesApart
    <3>4. q = "senzorski_pi" => worker[q][w].field = "Info"
      BY <2>3, <3>1 DEF WorkerSound
    <3>5. q # "senzorski_pi" => Visited(q, worker[q][w]) # Sensed
      BY <1>0, <3>2, TablesApart
    <3> QED BY <2>2, <3>2, <3>3, <3>4, <3>5
  <2>4. \A q \in Pis : OneWorker(q)'
    BY <2>1, <2>3, WorkersKept
  <2> QED BY <2>1, <2>4 DEF PacketsSound
<1> QED BY <1>1, <1>2, <1>3 DEF NewReading

\* What a worker publishes is about a device of its pi.
LEMMA WorkSends ==
  ASSUME BusTypeOK, PiTypeOK, PacketsSound, NEW p \in Pis, NEW w \in Workers, Work(p, w)
  PROVE  PacketsSound'
<1> DEFINE r == worker[p][w]
<1>1. r \in WorkerStates(p) /\ WorkerOK(p, r) /\ Visited(p, r) \in Owned(p) /\ Visited(p, r) \in Devices
  BY TablesApart DEF PiTypeOK, WorkerOK
<1>2. CASE Report(p, w)
  <2>1. PICK m : m = PropertyChanged(Visited(p, r), r.field, r.out)
    OBVIOUS
  <2>2. Publish(p, ControlerTopic, m) /\ p \in Clients /\ r.pc = "publish"
    BY <1>2, <2>1 DEF Report, At, PublishOrExit, Clients
  <2>3. /\ m \in Messages /\ m \in Changes /\ m.id = Visited(p, r) /\ ControlerTopic \in Topics
    BY <1>1, <2>1, <2>2, MessageTypes DEF PropertyChanged, Changes, Topics, OwnTopics, WorkerStates, WorkerOK
  <2>4. SentBy(p, [topic |-> ControlerTopic, mes |-> m])
    BY <1>1, <2>3 DEF SentBy, Sound, ControlerTopic, UiTopic, InfoTopic, FuncTopic, OwnTopics, Pis, Kontroler, Cli
  <2> QED BY <2>2, <2>3, <2>4, PublishSound
<1>3. CASE ~Report(p, w)
  <2>1. UNCHANGED <<outbox, inbox>>
    BY <1>3 DEF Work, Split, SplitAgain, ReadTopic, Loop, Write, Format, busVars
  <2> QED BY <2>1 DEF PacketsSound
<1> QED BY <1>2, <1>3

-----------------------------------------------------------------------------
(* The threads of the controller.                                          *)

LEMMA ThreadGoesOn ==
  ASSUME KontrolerTypeOK, OneThread, NEW w \in Workers, thread[w].pc # "idle",
         NEW n, thread' = [thread EXCEPT ![w] = n], ThreadSound(n), packet' = packet
  PROVE  OneThread'
<1>1. /\ thread'[w] = n
      /\ \A v \in Workers : v # w => thread'[v] = thread[v] /\ thread[v].pc = "idle"
  BY DEF KontrolerTypeOK, OneThread
<1>2. \A v \in Workers : v # w => ThreadSound(thread[v])'
  BY <1>1 DEF ThreadSound
<1>3. ThreadSound(n)'
  BY DEF ThreadSound
<1> QED BY <1>1, <1>2, <1>3 DEF OneThread

LEMMA NoThreadSound == ThreadSound(NoThread)
BY DEF ThreadSound, NoThread

LEMMA BeginSound ==
  ASSUME packet \in Changes \cup UserCommands, packet.id \in Devices \cup {AllDevices}
  PROVE  ThreadSound(Begin(packet))
<1>1. packet \in Changes \cup Asks \cup Sets
  BY LinesAssumption DEF UserCommands, Commands
<1>2. CASE packet \in Changes
  BY <1>2 DEF Changes, Begin, ThreadSound, NoThread
<1>3. CASE packet \in Asks
  <2>1. packet \in UserCommands
    BY <1>3 DEF Changes, Asks
  <2>2. Begin(packet) = [NoThread EXCEPT !.pc = "read", !.mes = packet,
                           !.todo = IF packet.id = AllDevices THEN KontrolerTable ELSE <<packet.id>>]
    BY <1>3 DEF Asks, Begin
  <2> QED BY <1>3, <2>1, <2>2 DEF ThreadSound, NoThread
<1>4. CASE packet \in Sets
  <2>1. packet \in UserCommands
    BY <1>4 DEF Changes, Sets
  <2>2. Begin(packet) = [NoThread EXCEPT !.pc = "ack", !.mes = packet, !.topic = ForwardTopic(packet.field)]
    BY <1>4 DEF Sets, Begin
  <2> QED BY <1>4, <2>1, <2>2 DEF ThreadSound, NoThread
<1> QED BY <1>1, <1>2, <1>3, <1>4

\* The steps of a thread.
LEMMA RunOnce ==
  ASSUME BusTypeOK, KontrolerTypeOK, PacketsSound, OneThread, NEW w \in Workers, Run(w)
  PROVE  PacketsSound' /\ OneThread'
<1> DEFINE t == thread[w]
<1>0. /\ ThreadSound(t) /\ ThreadOK(t) /\ Kontroler \in Clients /\ t.pc # "idle"
      /\ UiTopic \in Topics /\ InfoTopic \in Topics /\ FuncTopic \in Topics
  BY DEF OneThread, KontrolerTypeOK, Clients, Topics, OwnTopics, Run, NoDevice, Distribute, ReadDevice, Answer,
         Acknowledge, Reread, Forward, Apply, In
<1>1. ASSUME NEW m \in Messages, m \in Replies, Publish(Kontroler, UiTopic, m)
      PROVE  PacketsSound'
  <2>1. SentBy(Kontroler, [topic |-> UiTopic, mes |-> m])
    BY <1>1 DEF SentBy, Sound, ControlerTopic, UiTopic, InfoTopic, FuncTopic, OwnTopics, Pis, Kontroler, Cli
  <2> QED BY <1>0, <1>1, <2>1, PublishSound
<1>2. UNCHANGED <<outbox, inbox>> => PacketsSound'
  BY DEF PacketsSound
<1>3. thread' = [thread EXCEPT ![w] = NoThread] /\ UNCHANGED packet => OneThread'
  BY <1>0, NoThreadSound, ThreadGoesOn
<1>4. CASE NoDevice(w)
  <2>1. NonExistent \in Messages /\ NonExistent \in Replies
    BY MessageTypes DEF Replies
  <2> QED BY <1>1, <1>3, <1>4, <2>1 DEF NoDevice
<1>5. CASE Distribute(w)
  <2>1. ThreadSound(Begin(packet))
    BY <1>0, <1>5, BeginSound DEF Distribute, In, ThreadSound
  <2> QED BY <1>0, <1>2, <1>5, <2>1, ThreadGoesOn DEF Distribute, busVars
<1>6. CASE ReadDevice(w)
  <2>1. PICK n : n = [t EXCEPT !.out = Append(@, IF Found(Head(t.todo)) THEN db[Head(t.todo)][t.mes.field]
                                                                        ELSE OutOfBounds),
                               !.todo = Tail(@),
                               !.pc = IF Len(t.todo) = 1 THEN "reply" ELSE "read"]
    OBVIOUS
  <2>2. n.pc \in {"read", "reply"} /\ n.mes = t.mes /\ n.topic = t.topic
    BY <1>0, <2>1 DEF ThreadOK
  <2>3. ThreadSound(n)
    BY <1>0, <1>6, <2>2 DEF ThreadSound, ReadDevice, In
  <2> QED BY <1>0, <1>2, <1>6, <2>1, <2>3, ThreadGoesOn DEF ReadDevice, busVars
<1>7. CASE Answer(w)
  <2>1. PICK g \in BOOLEAN : Publish(Kontroler, UiTopic, Values(t.out, g))
    BY <1>7 DEF Answer
  <2>2. t.out \in Seq(Texts \cup {OutOfBounds})
    BY <1>0 DEF ThreadOK
  <2>3. PICK m : m = Values(t.out, g)
    OBVIOUS
  <2>4. m \in Messages /\ m \in Replies
    BY <2>2, <2>3, MessageTypes DEF Values, Replies
  <2> QED BY <1>1, <1>3, <1>7, <2>1, <2>3, <2>4 DEF Answer
<1>8. CASE Acknowledge(w)
  <2>1. PICK m : m = HasBeenSet(t.mes.field)
    OBVIOUS
  <2>2. t.pc = "ack" /\ t.mes.field \in Fields
    BY <1>0, <1>8 DEF Acknowledge, In, ThreadOK, Sets
  <2>3. m \in Messages /\ m \in Replies
    BY <2>1, <2>2, MessageTypes DEF HasBeenSet, Replies
  <2>4. PICK n : n = [t EXCEPT !.pc = "reread"]
    OBVIOUS
  <2>5. n.pc = "reread" /\ n.mes = t.mes /\ n.topic = t.topic
    BY <1>0, <2>4 DEF ThreadOK
  <2>6. ThreadSound(n)
    BY <1>0, <2>2, <2>5 DEF ThreadSound
  <2>7. OneThread'
    BY <1>0, <1>8, <2>4, <2>6, ThreadGoesOn DEF Acknowledge
  <2> QED BY <1>1, <1>8, <2>1, <2>3, <2>7 DEF Acknowledge
<1>9. CASE Reread(w)
  <2>1. PICK n : n = [t EXCEPT !.pc = "forward", !.mes = packet]
    OBVIOUS
  <2>2. n.pc = "forward" /\ n.mes = packet /\ n.topic = t.topic
    BY <1>0, <2>1 DEF ThreadOK
  <2>3. ThreadSound(n)
    BY <1>0, <1>9, <2>2 DEF ThreadSound, Reread, In
  <2>4. thread' = [thread EXCEPT ![w] = n]
    BY <1>9, <2>1 DEF Reread
  <2> QED BY <1>0, <1>2, <1>9, <2>3, <2>4, ThreadGoesOn DEF Reread, busVars
<1>10. CASE Forward(w)
  <2>1. t.mes = packet /\ packet \in UserCommands \cap Sets /\ t.topic = ForwardTopic(packet.field)
    BY <1>0, <1>10 DEF ThreadSound, Forward, In
  <2>2. packet.field \in Fields /\ packet \in Messages
    BY <2>1, MessageTypes DEF Sets, Commands
  <2>3. SentBy(Kontroler, [topic |-> t.topic, mes |-> t.mes])
    BY <2>1, <2>2 DEF SentBy, Sound, ForwardTopic, Fields, ControlerTopic, UiTopic, InfoTopic, FuncTopic,
                      OwnTopics, Pis, Kontroler, Cli
  <2>4. t.topic \in Topics
    BY <1>0, <2>1 DEF ForwardTopic
  <2>5. PacketsSound'
    BY <1>0, <1>10, <2>1, <2>2, <2>3, <2>4, PublishSound DEF Forward
  <2> QED BY <1>3, <1>10, <2>5 DEF Forward
<1>11. CASE Apply(w)
  BY <1>2, <1>3, <1>11 DEF Apply, busVars
<1> QED BY <1>4, <1>5, <1>6, <1>7, <1>8, <1>9, <1>10, <1>11 DEF Run

\* No two str_splits overlap: each of them is one step.
LEMMA Apart ==
  ASSUME Spaced
  PROVE  ~Overlap
BY DEF Overlap, TakeIn, LookUp, BeginSplit, EndSplit

\* publish_callback of the controller, which waits for the thread of the packet before.
LEMMA CallbackOnce ==
  ASSUME Spaced, BusTypeOK, KontrolerTypeOK, PacketsSound, NEW w \in Workers, Callback(w)
  PROVE  PacketsSound' /\ OneThread'
<1>1. /\ Arrived(Kontroler) /\ inbox[Kontroler] # <<>> /\ Kontroler \in Clients
      /\ inbox' = [inbox EXCEPT ![Kontroler] = Tail(@)] /\ UNCHANGED outbox
      /\ inbox[Kontroler] \in Seq(Packets) /\ \A v \in Workers : thread[v].pc = "idle"
  BY DEF Callback, Arrived, ThreadsIdle, BusyThreads, Clients, BusTypeOK
<1>2. PICK pk : pk = Head(inbox[Kontroler])
  OBVIOUS
<1>3. pk.mes \in Changes \cup UserCommands /\ packet' = pk.mes
  <2>1. Received(Kontroler, pk)
    BY <1>1, <1>2, TailAt DEF PacketsSound
  <2> QED BY <1>2, <2>1, ReceivedParts DEF Callback
<1>4. PICK n : n = [thread[w] EXCEPT !.pc = IF pk.mes.id = AllDevices \/ Found(pk.mes.id)
                                            THEN "start" ELSE "missing"]
  OBVIOUS
<1>5. /\ n.pc = IF pk.mes.id \in Devices \cup {AllDevices} THEN "start" ELSE "missing"
      /\ thread'[w] = n /\ \A v \in Workers : v # w => thread'[v] = thread[v]
  BY <1>2, <1>4 DEF Callback, KontrolerTypeOK, ThreadOK, Found
<1>6. ThreadSound(n)'
  BY <1>3, <1>5 DEF ThreadSound
<1>7. \A v \in Workers : v # w => ThreadSound(thread[v])'
  BY <1>1, <1>5 DEF ThreadSound
<1>8. PacketsSound'
  BY <1>1, TakenSound
<1> QED BY <1>1, <1>5, <1>6, <1>7, <1>8 DEF OneThread

\* Programs that start again have no threads; the others keep theirs.
LEMMA FaultOnce ==
  ASSUME TypeOK, SpacedInv, Fault
  PROVE  SpacedInv'
<1> USE DEF TypeOK, SpacedInv
<1>0. Kontroler \in Clients /\ Cli \in Clients /\ \A p \in Pis : p \in Clients
  BY DEF Clients
<1>1. ASSUME NEW c \in Clients, Disconnect(c) \/ Reboot(c)
      PROVE  PacketsSound' /\ up'[Kontroler] /\ up'[Cli]
  <2>1. \A d \in Clients : outbox'[d] \in {outbox[d], <<>>} /\ inbox'[d] \in {inbox[d], <<>>}
    BY <1>1 DEF Disconnect, Reboot, BusTypeOK
  <2>2. up'[Kontroler] /\ up'[Cli]
    BY <1>0, <1>1 DEF Disconnect, Reboot, BusTypeOK
  <2>3. PacketsSound'
    <3>1. DOMAIN <<>> = {}
      OBVIOUS
    <3> QED BY <2>1, <3>1 DEF PacketsSound
  <2> QED BY <2>2, <2>3
<1>2. ASSUME NEW c \in Clients, Break(c)
      PROVE  SpacedInv'
  <2>1. Disconnect(c) /\ UNCHANGED <<dev, worker, callback, thread, packet, delivering, mixed>>
    BY <1>2 DEF Break, Disconnect, piVars, kontrolerVars, strtokVars
  <2>2. \A p \in Pis : OneWorker(p)'
    BY <2>1, WorkersKept
  <2>3. OneThread' /\ ~mixed'
    BY <2>1 DEF OneThread, ThreadSound
  <2> QED BY <1>1, <2>1, <2>2, <2>3
<1>3. ASSUME NEW c \in Pis, RestartPi(c), UNCHANGED kontrolerVars
      PROVE  SpacedInv'
  <2>1. OneWorker(c)'
    <3>1. delivering'[c] = NoPacket /\ \A w \in Workers : worker'[c][w] = Idle
      BY <1>0, <1>3 DEF RestartPi, Reboot, BusTypeOK, PiTypeOK
    <3> QED BY <3>1 DEF OneWorker, WorkerSound, Idle
  <2>2. ASSUME NEW q \in Pis, q # c
        PROVE  OneWorker(q)'
    <3>1. delivering'[q] = delivering[q] /\ worker'[q] = worker[q] /\ callback'[q] = callback[q]
      BY <1>0, <1>3, <2>2 DEF RestartPi, Reboot, BusTypeOK, PiTypeOK
    <3>2. \A d \in Devices : d \notin Owned(c) => dev'[d] = dev[d]
      BY <1>3 DEF RestartPi
    <3>3. \A w \in Workers : Visited(q, worker[q][w]) \in Owned(q)
      BY TablesApart DEF PiTypeOK, WorkerOK
    <3>4. \A w \in Workers : dev'[Visited(q, worker[q][w])] = dev[Visited(q, worker[q][w])]
      BY <2>2, <3>2, <3>3, TablesApart
    <3> QED BY <3>1, <3>4, WorkersKept
  <2>3. OneThread' /\ ~mixed'
    BY <1>3 DEF OneThread, ThreadSound, kontrolerVars, strtokVars
  <2> QED BY <1>0, <1>1, <1>3, <2>1, <2>2, <2>3 DEF RestartPi
<1>4. ASSUME RestartKontroler, UNCHANGED piVars
      PROVE  SpacedInv'
  <2>1. \A p \in Pis : delivering'[p] = delivering[p]
    BY <1>4 DEF RestartKontroler, Reboot, BusTypeOK, Pis, Kontroler
  <2>2. \A p \in Pis : OneWorker(p)'
    BY <1>4, <2>1, WorkersKept DEF piVars
  <2>3. OneThread' /\ ~mixed'
    BY <1>4, NoThreadSound DEF RestartKontroler, OneThread, ThreadSound, NoThread
  <2> QED BY <1>0, <1>1, <1>4, <2>2, <2>3 DEF RestartKontroler
<1> QED BY <1>2, <1>3, <1>4 DEF Fault, Restart

\* Every step keeps it that each program works on one message at a time.
LEMMA NextOnce ==
  Spaced /\ TypeOK /\ SpacedInv /\ [Next]_vars => SpacedInv'
<1> SUFFICES ASSUME Spaced, TypeOK, SpacedInv, [Next]_vars PROVE SpacedInv'
  OBVIOUS
<1> USE DEF TypeOK, SpacedInv
<1>0. Kontroler \notin Pis /\ Cli \notin Pis /\ Kontroler \in Clients /\ Cli \in Clients /\ ControlerTopic \in Topics
  BY DEF Kontroler, Cli, Pis, Clients, Topics, OwnTopics
<1>1. CASE UNCHANGED vars
  <2>1. \A p \in Pis : OneWorker(p)'
    BY <1>1, WorkersKept DEF vars, busVars, piVars
  <2>2. OneThread' /\ PacketsSound'
    BY <1>1 DEF OneThread, ThreadSound, PacketsSound, vars, busVars, kontrolerVars
  <2> QED BY <1>1, <2>1, <2>2 DEF vars, busVars, kontrolerVars, strtokVars
<1>2. ASSUME UNCHANGED piVars, \A p \in Pis : delivering'[p] = delivering[p]
      PROVE  \A p \in Pis : OneWorker(p)'
  BY <1>2, WorkersKept DEF piVars
<1>3. ASSUME UNCHANGED kontrolerVars
      PROVE  OneThread' /\ ~mixed'
  BY <1>3 DEF OneThread, ThreadSound, kontrolerVars, strtokVars
<1>4. ASSUME NEW c \in Clients, BusStep(c), UNCHANGED <<piVars, kontrolerVars, pending>>
      PROVE  SpacedInv'
  <2>1. UNCHANGED <<delivering, up>>
    BY <1>4 DEF BusStep, Send, Subscribe
  <2>2. PacketsSound'
    <3>1. CASE Send(c)
      BY <3>1, SendSound
    <3>2. CASE Subscribe(c)
      BY <3>2 DEF Subscribe, PacketsSound
    <3> QED BY <1>4, <3>1, <3>2 DEF BusStep
  <2> QED BY <1>2, <1>3, <1>4, <2>1, <2>2
<1>5. ASSUME PiStep \/ NewReading, UNCHANGED <<kontrolerVars, pending>>
      PROVE  SpacedInv'
  <2>1. PacketsSound' /\ \A p \in Pis : OneWorker(p)'
    BY <1>5, PiCallbackOnce, WorkOnce, WorkSends, SensingOnce DEF PiStep
  <2>2. up'[Kontroler] /\ up'[Cli]
    <3>1. ASSUME NEW p \in Pis, NEW t, NEW m, PublishOrExit(p, t, m)
          PROVE  up'[Kontroler] /\ up'[Cli]
      BY <1>0, <3>1 DEF PublishOrExit, BusTypeOK
    <3>2. ASSUME NEW p \in Pis, CallbackTopic(p) \/ \E w \in Workers : CallbackMes(p, w)
          PROVE  up'[Kontroler] /\ up'[Cli]
      BY <3>2 DEF CallbackTopic, CallbackMes
    <3>3. ASSUME NEW p \in Pis, NEW w \in Workers, Work(p, w)
          PROVE  up'[Kontroler] /\ up'[Cli]
      <4>1. CASE Report(p, w)
        BY <3>1, <4>1 DEF Report
      <4>2. CASE SplitAgain(p, w)
        <5>1. up' = up \/ up' = [up EXCEPT ![p] = FALSE]
          BY <4>2 DEF SplitAgain
        <5>2. up \in [Clients -> BOOLEAN] /\ up[Kontroler] /\ up[Cli]
          BY DEF BusTypeOK
        <5> HIDE DEF TypeOK, SpacedInv
        <5> QED BY <1>0, <5>1, <5>2
      <4>3. CASE ~Report(p, w) /\ ~SplitAgain(p, w)
        BY <3>3, <4>3 DEF Work, Split, ReadTopic, Loop, Write, Format, busVars
      <4> QED BY <4>1, <4>2, <4>3
    <3>4. SensorReport \/ SensorPublish \/ NewReading => up'[Kontroler] /\ up'[Cli]
      BY <3>1 DEF SensorReport, SensorPublish, NewReading, Sense, busVars, Pis
    <3> QED BY <1>5, <3>2, <3>3, <3>4 DEF PiStep
  <2> QED BY <1>3, <1>5, <2>1, <2>2
<1>6. ASSUME KontrolerNext, UNCHANGED <<piVars, pending>>
      PROVE  SpacedInv'
  <2>1. PICK w \in Workers : Callback(w) \/ Run(w)
    BY <1>6, Apart DEF KontrolerNext
  <2>2. UNCHANGED <<delivering, up, mixed>>
    BY <2>1 DEF Callback, Run, NoDevice, Distribute, ReadDevice, Answer, Acknowledge, Reread,
                Forward, Apply, Publish, busVars, strtokVars
  <2>3. PacketsSound' /\ OneThread'
    BY <2>1, CallbackOnce, RunOnce
  <2> QED BY <1>2, <1>6, <2>2, <2>3
<1>7. ASSUME NewCommand \/ Display, UNCHANGED <<piVars, kontrolerVars>>
      PROVE  SpacedInv'
  <2>1. UNCHANGED <<delivering, up>>
    BY <1>7 DEF NewCommand, Command, Publish, Display
  <2>2. PacketsSound'
    <3>1. CASE Display
      BY <1>0, <3>1, TakenSound DEF Display, Arrived
    <3>2. ASSUME NEW l \in Lines, Command(l)
          PROVE  PacketsSound'
      <4>1. l.mes \in UserCommands /\ l.mes \in Commands /\ l.mes \in Messages
        BY <3>2, LinesAssumption, MessageTypes DEF Command, UserCommands
      <4>2. SentBy(Cli, [topic |-> ControlerTopic, mes |-> l.mes])
        BY <1>0, <4>1 DEF SentBy, Sound, ControlerTopic, UiTopic, InfoTopic, FuncTopic, OwnTopics, Kontroler, Cli
      <4> QED BY <1>0, <3>2, <4>1, <4>2, PublishSound DEF Command
    <3> QED BY <1>7, <3>1, <3>2 DEF NewCommand
  <2> QED BY <1>2, <1>3, <1>7, <2>1, <2>2
<1>8. CASE Fault
  BY <1>8, FaultOnce
<1> QED BY <1>1, <1>4, <1>5, <1>6, <1>7, <1>8 DEF Next, Step

LEMMA InitOnce == Init => SpacedInv
<1> SUFFICES ASSUME Init PROVE SpacedInv
  OBVIOUS
<1>1. DOMAIN <<>> = {} /\ Kontroler \in Clients /\ Cli \in Clients /\ \A p \in Pis : p \in Clients
  BY DEF Clients
<1>2. PacketsSound /\ up[Kontroler] /\ up[Cli] /\ \A p \in Pis : delivering[p] = NoPacket
  BY <1>1 DEF Init, BusInit, PacketsSound
<1>3. \A p \in Pis : OneWorker(p)
  BY <1>2 DEF Init, PiInit, OneWorker, WorkerSound, Idle
<1>4. OneThread /\ ~mixed
  BY DEF Init, KontrolerInit, OneThread, ThreadSound, NoThread
<1> QED BY <1>2, <1>3, <1>4 DEF SpacedInv

LEMMA SpacedInvariant ==
  ASSUME Spaced
  PROVE  Spec => [](TypeOK /\ SpacedInv)
<1>1. Init => TypeOK /\ SpacedInv
  BY InitTypes, InitOnce
<1>2. (TypeOK /\ SpacedInv) /\ [Next]_vars => (TypeOK /\ SpacedInv)'
  BY NextTypes, NextOnce
<1> QED BY <1>1, <1>2, PTL DEF Spec

-----------------------------------------------------------------------------
(* What is on its way through two queues, s and then t, to what is behind  *)
(* them.                                                                   *)

\* No packet of the queue is in R; the newest of those that are says v.
NoneOf(s, R) == \A k \in DOMAIN s : s[k] \notin R
Newest(s, R, v) ==
  \A k \in DOMAIN s : (s[k] \in R /\ \A j \in DOMAIN s : k < j => s[j] \notin R)
                         => s[k].mes.value = v

\* The newest packet of R on the way says v; behind the last one, so does b.
Through(s, t, R, v, b) ==
  /\ Newest(s, R, v)
  /\ NoneOf(s, R) => Newest(t, R, v)
  /\ NoneOf(s, R) /\ NoneOf(t, R) => b

LEMMA QueueEmpty ==
  ASSUME NEW R, NEW v
  PROVE  NoneOf(<<>>, R) /\ Newest(<<>>, R, v)
<1>1. DOMAIN <<>> = {}
  OBVIOUS
<1> QED BY <1>1 DEF NoneOf, Newest

LEMMA QueuePut ==
  ASSUME NEW T, NEW s \in Seq(T), NEW x \in T, NEW R
  PROVE  /\ NoneOf(Append(s, x), R) <=> NoneOf(s, R) /\ x \notin R
         /\ \A v : x \in R => (Newest(Append(s, x), R, v) <=> x.mes.value = v)
         /\ \A v : x \notin R => (Newest(Append(s, x), R, v) <=> Newest(s, R, v))
<1> DEFINE n == Len(s)
           u == Append(s, x)
<1>1. n \in Nat /\ DOMAIN s = 1..n /\ DOMAIN u = 1..(n + 1) /\ u[n + 1] = x
      /\ \A k \in 1..n : u[k] = s[k]
  BY AppendAt
<1>2. 1..(n + 1) = (1..n) \cup {n + 1}
  BY <1>1
<1> HIDE DEF n, u
<1>3. NoneOf(u, R) <=> NoneOf(s, R) /\ x \notin R
  BY <1>1, <1>2 DEF NoneOf
<1>4. ASSUME NEW v, x \in R
      PROVE  Newest(u, R, v) <=> x.mes.value = v
  <2>1. \A k \in 1..(n + 1) : (u[k] \in R /\ \A j \in 1..(n + 1) : k < j => u[j] \notin R) <=> k = n + 1
    BY <1>1, <1>4
  <2> QED BY <1>1, <2>1 DEF Newest
<1>5. ASSUME NEW v, x \notin R
      PROVE  Newest(u, R, v) <=> Newest(s, R, v)
  <2>1. \A k \in 1..n : (\A j \in 1..(n + 1) : k < j => u[j] \notin R) <=> (\A j \in 1..n : k < j => s[j] \notin R)
    BY <1>1, <1>2, <1>5
  <2> QED BY <1>1, <1>2, <1>5, <2>1 DEF Newest
<1> QED BY <1>3, <1>4, <1>5 DEF u

LEMMA QueueTake ==
  ASSUME NEW T, NEW s \in Seq(T), s # <<>>, NEW R
  PROVE  /\ NoneOf(s, R) <=> Head(s) \notin R /\ NoneOf(Tail(s), R)
         /\ \A v : Newest(s, R, v) =>
              /\ Newest(Tail(s), R, v)
              /\ NoneOf(Tail(s), R) /\ Head(s) \in R => Head(s).mes.value = v
<1> DEFINE n == Len(s)
<1>0. PICK u : u = Tail(s)
  OBVIOUS
<1>1. n \in Nat \ {0} /\ DOMAIN s = 1..n /\ DOMAIN u = 1..(n - 1) /\ s[1] = Head(s)
      /\ \A k \in 1..(n - 1) : u[k] = s[k + 1]
  BY <1>0, TailAt
<1>2. \A k \in 1..(n - 1) : k + 1 \in 1..n
  BY <1>1
<1>3. \A k \in 1..n : k # 1 => k - 1 \in 1..(n - 1) /\ s[k] = u[k - 1]
  BY <1>1
<1>4. 1 \in 1..n
  BY <1>1
<1> HIDE DEF n
<1>5. NoneOf(s, R) <=> Head(s) \notin R /\ NoneOf(u, R)
  BY <1>1, <1>2, <1>3, <1>4 DEF NoneOf
<1>6. ASSUME NEW v, Newest(s, R, v)
      PROVE  Newest(u, R, v)
  <2>1. SUFFICES ASSUME NEW k \in 1..(n - 1), u[k] \in R,
                        \A j \in 1..(n - 1) : k < j => u[j] \notin R
                 PROVE  u[k].mes.value = v
    BY <1>1 DEF Newest
  <2>2. \A j \in 1..n : k + 1 < j => s[j] \notin R
    BY <1>1, <1>3, <2>1
  <2>3. k + 1 \in 1..n /\ s[k + 1] = u[k]
    BY <1>1, <1>2, <2>1
  <2> QED BY <1>1, <1>6, <2>1, <2>2, <2>3 DEF Newest
<1>7. ASSUME NEW v, Newest(s, R, v), NoneOf(u, R), Head(s) \in R
      PROVE  Head(s).mes.value = v
  <2>1. \A j \in 1..n : 1 < j => s[j] \notin R
    <3>1. \A j \in 1..n : 1 < j => s[j] \in {u[k] : k \in 1..(n - 1)}
      BY <1>1, <1>3
    <3> QED BY <1>1, <1>7, <3>1 DEF NoneOf
  <2>2. s[1].mes.value = v
    BY <1>1, <1>4, <1>7, <2>1 DEF Newest
  <2> QED BY <1>1, <2>2
<1> QED BY <1>0, <1>5, <1>6, <1>7

\* The broker moves the first packet of s to t.
LEMMA ThroughSend ==
  ASSUME NEW T, NEW s \in Seq(T), s # <<>>, NEW t \in Seq(T), NEW R, NEW v, NEW b \in BOOLEAN,
         Through(s, t, R, v, b)
  PROVE  Through(Tail(s), Append(t, Head(s)), R, v, b)
<1>1. Head(s) \in T
  BY TailAt
<1> QED BY <1>1, QueuePut, QueueTake DEF Through

\* A packet that is in R and says v is put into s; one that is not, into s or t.
LEMMA ThroughPut ==
  ASSUME NEW T, NEW s \in Seq(T), NEW t \in Seq(T), NEW x \in T, NEW R, NEW v, NEW b \in BOOLEAN
  PROVE  /\ x \in R /\ x.mes.value = v => Through(Append(s, x), t, R, v, b)
         /\ x \notin R /\ Through(s, t, R, v, b) => /\ Through(Append(s, x), t, R, v, b)
                                                    /\ Through(s, Append(t, x), R, v, b)
BY QueuePut DEF Through

\* What is behind takes the first packet of t.
LEMMA ThroughTake ==
  ASSUME NEW T, NEW s, NEW t \in Seq(T), t # <<>>, NEW R, NEW v, NEW b \in BOOLEAN, NEW c \in BOOLEAN,
         Through(s, t, R, v, b), Head(t) \in R /\ Head(t).mes.value = v => c, Head(t) \notin R /\ b => c
  PROVE  Through(s, Tail(t), R, v, c)
BY QueueTake DEF Through

\* What is not in R leaves s for elsewhere.
LEMMA ThroughDrop ==
  ASSUME NEW T, NEW s \in Seq(T), s # <<>>, NEW t, NEW R, NEW v, NEW b \in BOOLEAN,
         Through(s, t, R, v, b), Head(s) \notin R
  PROVE  Through(Tail(s), t, R, v, b)
BY QueueTake DEF Through

-----------------------------------------------------------------------------
(* DbConverges: what a device has is what its last report says, or a       *)
(* report is due.                                                          *)

Reports(d, f) == {pk \in Packets : /\ pk.topic = ControlerTopic /\ pk.mes.type = "PropertyChanged"
                                   /\ pk.mes.id = d /\ pk.mes.field = f}

\* A thread of the controller is about to write the field; then it shows v.
Bringing(d, f) == /\ \E w \in Workers : thread[w].pc \in {"start", "apply"}
                  /\ packet.type = "PropertyChanged" /\ packet.id = d /\ packet.field = f
Shows(d, f, v) == IF Bringing(d, f) THEN packet.value = v ELSE db[d][f] = v

\* A thread of p has written the field and is about to report it.
ToReport(p, d, f) ==
  \/ \E w \in Workers : /\ worker[p][w].pc \in {"format", "publish"}
                        /\ Visited(p, worker[p][w]) = d /\ worker[p][w].field = f
  \/ p = "senzorski_pi" /\ sensing.pc = "change" /\ Sensed = d /\ f = "Value"

Replicated(p, d, f) ==
  \/ <<d, f>> \in stale
  \/ ToReport(p, d, f)
  \/ Through(outbox[p], inbox[Kontroler], Reports(d, f), dev[d][f], Shows(d, f, dev[d][f]))

DbInv ==
  /\ ~subscribed[Kontroler] => error[Kontroler] = "socket" \/ stale = Devices \X Fields
  /\ error[Kontroler] # "socket" =>
       \A p \in Pis : Running(p) => \A d \in Owned(p), f \in Fields : Replicated(p, d, f)

LEMMA ShowsBoolean ==
  \A d, f, v : Shows(d, f, v) \in BOOLEAN
BY DEF Shows

\* What is queued at one pi is all that a step tells.
LEMMA ToldOne ==
  ASSUME BusTypeOK, NEW q \in Pis, NEW x \in Packets,
         \A p \in Pis : \/ outbox'[p] = outbox[p]
                        \/ p = q /\ outbox'[p] = Append(outbox[p], x)
  PROVE  /\ \A d, f : <<d, f>> \in Told => /\ x.mes.type = "PropertyChanged"
                                           /\ x.mes.id = d /\ x.mes.field = f
         /\ \A a \in Heard : x.mes.type = "Sensor_Mes" /\ x.topic = Place[a]
<1>1. \A p \in Pis : Queued(p) => Latest(p) = x
  <2>1. SUFFICES ASSUME NEW p \in Pis, Queued(p) PROVE Latest(p) = x
    OBVIOUS
  <2>2. outbox[p] \in Seq(Packets)
    BY DEF BusTypeOK, Pis, Clients
  <2>3. outbox'[p] # outbox[p]
    BY <2>1, <2>2, AppendAt DEF Queued
  <2> QED BY <2>2, <2>3, AppendAt DEF Latest
<1> QED BY <1>1 DEF Told, Heard

\* When nothing is queued at a pi, nothing is told.
LEMMA ToldNothing ==
  ASSUME BusTypeOK,
         \A p \in Pis : \/ outbox'[p] = outbox[p]
                        \/ outbox[p] # <<>> /\ outbox'[p] = Tail(outbox[p])
  PROVE  Told = {} /\ Heard = {}
<1>1. \A p \in Pis : ~Queued(p)
  <2>1. SUFFICES ASSUME NEW p \in Pis PROVE ~Queued(p)
    OBVIOUS
  <2>2. outbox[p] \in Seq(Packets) /\ Len(outbox[p]) \in Nat
    BY DEF BusTypeOK, Pis, Clients
  <2>3. outbox[p] # <<>> => Len(Tail(outbox[p])) = Len(outbox[p]) - 1
    BY <2>2, TailAt
  <2>4. PICK n \in Nat : n = Len(outbox[p])
    BY <2>2
  <2>5. Len(outbox'[p]) = n \/ Len(outbox'[p]) = n - 1
    BY <2>3, <2>4
  <2>6. ~(Len(outbox'[p]) > n)
    BY <2>5
  <2> QED BY <2>4, <2>6 DEF Queued
<1> QED BY <1>1 DEF Told, Heard

\* Outside of a restart no error and no end of a program is undone.
LEMMA StepKeeps ==
  ASSUME TypeOK, Step, NEW c \in Clients
  PROVE  /\ Running(c)' => Running(c)
         /\ error[c] = "socket" <=> error'[c] = "socket"
         /\ subscribed[c] => subscribed'[c]
         /\ error[c] # "none" => error'[c] # "none"
<1> USE DEF TypeOK, BusTypeOK
<1>1. ASSUME NEW d \in Clients, NEW t, NEW m, Publish(d, t, m)
      PROVE  /\ error[c] = "socket" <=> error'[c] = "socket"
             /\ error[c] # "none" => error'[c] # "none"
             /\ subscribed' = subscribed
  BY <1>1 DEF Publish
<1>2. ASSUME NEW p \in Pis, NEW t, NEW m, PublishOrExit(p, t, m)
      PROVE  up'[c] => up[c]
  <2>1. up' = [up EXCEPT ![p] = (error'[p] = "none")] /\ up[p] /\ p \in Clients
    BY <1>2 DEF PublishOrExit, Publish, Unlocked, Clients
  <2> QED BY <2>1
<1>3. ASSUME NEW d \in Clients, BusStep(d)
      PROVE  UNCHANGED <<error, up>> /\ (subscribed[c] => subscribed'[c])
  BY <1>3 DEF BusStep, Send, Subscribe
<1>4. ASSUME NEW p \in Pis, NEW w \in Workers, Work(p, w)
      PROVE  /\ error[c] = "socket" <=> error'[c] = "socket"
             /\ error[c] # "none" => error'[c] # "none"
             /\ subscribed' = subscribed
             /\ up'[c] => up[c]
  <2>1. CASE Report(p, w)
    <3>1. p \in Clients
      BY DEF Clients
    <3> QED BY <1>1, <1>2, <2>1, <3>1 DEF Report, PublishOrExit
  <2>2. CASE SplitAgain(p, w)
    <3>1. up' = up \/ up' = [up EXCEPT ![p] = FALSE]
      BY <2>2 DEF SplitAgain
    <3>2. up \in [Clients -> BOOLEAN] /\ UNCHANGED <<error, subscribed>>
      BY <2>2 DEF SplitAgain
    <3> HIDE DEF TypeOK
    <3> QED BY <3>1, <3>2
  <2> QED BY <1>4, <2>1, <2>2 DEF Work, Split, ReadTopic, Loop, Write, Format, busVars
<1>5. ASSUME SensorReport \/ SensorPublish \/ NewReading
      PROVE  /\ error[c] = "socket" <=> error'[c] = "socket"
             /\ error[c] # "none" => error'[c] # "none"
             /\ subscribed' = subscribed
             /\ up'[c] => up[c]
  <2>1. CASE SensorReport \/ SensorPublish
    <3>1. "senzorski_pi" \in Clients /\ "senzorski_pi" \in Pis
      BY DEF Clients, Pis
    <3> QED BY <1>1, <1>2, <2>1, <3>1 DEF SensorReport, SensorPublish, PublishOrExit
  <2>2. CASE NewReading
    BY <2>2 DEF NewReading, Sense, busVars
  <2> QED BY <1>5, <2>1, <2>2
<1>6. ASSUME NEW p \in Pis, CallbackTopic(p) \/ \E w \in Workers : CallbackMes(p, w)
      PROVE  UNCHANGED <<error, up, subscribed>>
  BY <1>6 DEF CallbackTopic, CallbackMes
<1>7. ASSUME KontrolerNext
      PROVE  /\ error[c] = "socket" <=> error'[c] = "socket"
             /\ error[c] # "none" => error'[c] # "none"
             /\ subscribed' = subscribed /\ (up'[c] => up[c])
  <2>1. Kontroler \in Clients
    BY DEF Clients
  <2>2. CASE Overlap
    <3>1. up' = up \/ up' = [up EXCEPT ![Kontroler] = FALSE]
      BY <2>2 DEF Overlap, TakeIn, LookUp, BeginSplit, EndSplit, EndProcess, busVars
    <3>2. up \in [Clients -> BOOLEAN] /\ UNCHANGED <<error, subscribed>>
      BY <2>2 DEF Overlap, TakeIn, LookUp, BeginSplit, EndSplit, busVars
    <3> HIDE DEF TypeOK
    <3> QED BY <3>1, <3>2
  <2> QED BY <1>1, <1>7, <2>1, <2>2
          DEF KontrolerNext, Callback, Run, NoDevice, Distribute, ReadDevice, Answer, Acknowledge, Reread, Forward,
              Apply, busVars
<1>8. ASSUME NewCommand \/ Display
      PROVE  /\ error[c] = "socket" <=> error'[c] = "socket"
             /\ error[c] # "none" => error'[c] # "none"
             /\ subscribed' = subscribed /\ up' = up
  <2>1. Cli \in Clients
    BY DEF Clients
  <2> QED BY <1>1, <1>8, <2>1 DEF NewCommand, Command, Display
<1> HIDE DEF TypeOK, BusTypeOK
<1> QED BY <1>3, <1>4, <1>5, <1>6, <1>7, <1>8 DEF Step, PiStep, Running

\* What a step may do to a field that it neither writes nor reports.
LEMMA ReplicatedKept ==
  ASSUME BusTypeOK, NEW p \in Pis, NEW d \in Devices, NEW f \in Fields, Replicated(p, d, f),
         <<d, f>> \in stale => <<d, f>> \in stale',
         ToReport(p, d, f) => ToReport(p, d, f)',
         \/ dev'[d][f] = dev[d][f] /\ (Shows(d, f, dev[d][f]) => Shows(d, f, dev[d][f])')
         \/ ToReport(p, d, f)',
         inbox'[Kontroler] = inbox[Kontroler],
         \/ outbox'[p] = outbox[p]
         \/ \E x \in Packets : x \notin Reports(d, f) /\ outbox'[p] = Append(outbox[p], x)
  PROVE  Replicated(p, d, f)'
<1> DEFINE s == outbox[p]
           t == inbox[Kontroler]
           R == Reports(d, f)
           v == dev[d][f]
           b == Shows(d, f, v)
<1>1. s \in Seq(Packets) /\ t \in Seq(Packets)
  BY DEF BusTypeOK, Clients
<1>2. b \in BOOLEAN
  BY ShowsBoolean
<1>3. SUFFICES ASSUME <<d, f>> \notin stale, ~ToReport(p, d, f), ~ToReport(p, d, f)'
               PROVE  Replicated(p, d, f)'
  BY DEF Replicated
<1>4. Through(s, t, R, v, b) /\ dev'[d][f] = v /\ (b => b')
  BY <1>3 DEF Replicated
<1>5. Through(outbox'[p], t, R, v, b)
  <2>1. CASE outbox'[p] = s
    BY <1>4, <2>1
  <2>2. ASSUME NEW x \in Packets, x \notin R, outbox'[p] = Append(s, x)
        PROVE  Through(outbox'[p], t, R, v, b)
    <3> HIDE DEF s, t, R, v, b
    <3> QED BY <1>1, <1>2, <1>4, <2>2, ThroughPut
  <2> QED BY <2>1, <2>2
<1>6. PICK c \in BOOLEAN : c = Shows(d, f, dev[d][f])'
  BY DEF Shows
<1>7. Through(outbox'[p], t, R, v, c)
  <2>1. b => c
    BY <1>4, <1>6
  <2> HIDE DEF s, t, R, v, b
  <2> QED BY <1>5, <2>1 DEF Through
<1> QED BY <1>4, <1>6, <1>7 DEF Replicated, Reports

\* A report of its field puts it right.
LEMMA ReplicatedAnew ==
  ASSUME BusTypeOK, NEW p \in Pis, NEW d \in Devices, NEW f \in Fields, NEW x \in Reports(d, f),
         x.mes.value = dev'[d][f], inbox'[Kontroler] = inbox[Kontroler],
         outbox'[p] = Append(outbox[p], x)
  PROVE  Replicated(p, d, f)'
<1>1. outbox[p] \in Seq(Packets) /\ inbox[Kontroler] \in Seq(Packets) /\ x \in Packets
  BY DEF BusTypeOK, Clients, Reports
<1>2. Shows(d, f, dev[d][f])' \in BOOLEAN
  BY DEF Shows
<1>3. PICK b \in BOOLEAN : b = Shows(d, f, dev[d][f])'
  BY <1>2
<1>4. Through(Append(outbox[p], x), inbox[Kontroler], Reports(d, f), dev'[d][f], b)
  BY <1>1, ThroughPut
<1> QED BY <1>3, <1>4 DEF Replicated, Reports

\* A thread of pi q reports its device d, which has what it says.
LEMMA ReplicatedReport ==
  ASSUME BusTypeOK, NEW q \in Pis, NEW e \in Owned(q), NEW g \in Fields,
         dev[e][g] \in Texts, PublishOrExit(q, ControlerTopic, PropertyChanged(e, g, dev[e][g])),
         Follow, UNCHANGED dev, UNCHANGED kontrolerVars,
         NEW p \in Pis, NEW d \in Owned(p), NEW f \in Fields, Replicated(p, d, f), Running(p)',
         ToReport(p, d, f) /\ <<d, f>> # <<e, g>> => ToReport(p, d, f)'
  PROVE  Replicated(p, d, f)'
<1>1. PICK x : x = [topic |-> ControlerTopic, mes |-> PropertyChanged(e, g, dev[e][g])]
  OBVIOUS
<1>2. /\ x.topic = ControlerTopic /\ x.mes.type = "PropertyChanged" /\ x.mes.id = e /\ x.mes.field = g
      /\ x.mes.value = dev[e][g] /\ q \in Clients /\ d \in Devices /\ e \in Devices
  BY <1>1, TablesApart DEF PropertyChanged, Clients
<1>3. x \in Packets
  BY <1>1, <1>2, MessageTypes DEF Packets, Topics, OwnTopics
<1>4. /\ inbox' = inbox /\ \A c \in Pis : c # q => outbox'[c] = outbox[c]
      /\ outbox'[q] = outbox[q] \/ outbox'[q] = Append(outbox[q], x)
      /\ Running(q)' => outbox'[q] = Append(outbox[q], x)
  BY <1>1, <1>2, PublishQueues DEF PublishOrExit, Running, Pis, Clients
<1>5. CASE d = e /\ f = g
  <2>1. p = q
    BY <1>5, TablesApart
  <2>2. x \in Reports(d, f)
    BY <1>2, <1>3, <1>5 DEF Reports
  <2> QED BY <1>2, <1>4, <1>5, <2>1, <2>2, ReplicatedAnew
<1>6. CASE d # e \/ f # g
  <2>1. x \notin Reports(d, f)
    BY <1>2, <1>6 DEF Reports
  <2>2. <<d, f>> \notin Told
    BY <1>2, <1>3, <1>4, <1>6, ToldOne
  <2>3. <<d, f>> \in stale => <<d, f>> \in stale'
    BY <2>2 DEF Follow
  <2>4. Shows(d, f, dev[d][f]) => Shows(d, f, dev[d][f])'
    BY DEF Shows, Bringing, kontrolerVars
  <2> QED BY <1>2, <1>3, <1>4, <1>6, <2>1, <2>3, <2>4, ReplicatedKept
<1> QED BY <1>5, <1>6

\* A worker that is about to report is not held up by others.
LEMMA ToReportKept ==
  ASSUME PiTypeOK, NEW q \in Pis, NEW w \in Workers, NEW n, worker' = [worker EXCEPT ![q][w] = n],
         UNCHANGED sensing, NEW p \in Pis, NEW d, NEW f, ToReport(p, d, f),
         \/ n.pc \in {"format", "publish"} /\ n.i = worker[q][w].i /\ n.field = worker[q][w].field
         \/ worker[q][w].pc \notin {"format", "publish"}
         \/ p # q \/ Visited(q, worker[q][w]) # d \/ worker[q][w].field # f
  PROVE  ToReport(p, d, f)'
<1>1. \A v \in Workers : p # q \/ v # w => worker'[p][v] = worker[p][v]
  BY DEF PiTypeOK
<1>2. worker'[q][w] = n
  BY DEF PiTypeOK
<1> QED BY <1>1, <1>2 DEF ToReport, Visited, Sensed

\* A step of a pi that publishes nothing.
LEMMA ReplicatedQuiet ==
  ASSUME BusTypeOK, NEW p \in Pis, NEW d \in Devices, NEW f \in Fields, Replicated(p, d, f), Follow,
         outbox' = outbox, inbox'[Kontroler] = inbox[Kontroler], UNCHANGED kontrolerVars,
         ToReport(p, d, f) => ToReport(p, d, f)', dev'[d][f] = dev[d][f] \/ ToReport(p, d, f)'
  PROVE  Replicated(p, d, f)'
<1>1. Told = {}
  BY ToldNothing
<1>2. <<d, f>> \in stale => <<d, f>> \in stale'
  BY <1>1 DEF Follow
<1>3. dev'[d][f] = dev[d][f] => (Shows(d, f, dev[d][f]) => Shows(d, f, dev[d][f])')
  BY DEF Shows, Bringing, kontrolerVars
<1> QED BY <1>2, <1>3, ReplicatedKept

LEMMA ReplicatedWork ==
  ASSUME TypeOK, SpacedInv, NEW q \in Pis, NEW w \in Workers, Work(q, w), UNCHANGED kontrolerVars, Follow,
         NEW p \in Pis, NEW d \in Owned(p), NEW f \in Fields, Replicated(p, d, f), Running(p)'
  PROVE  Replicated(p, d, f)'
<1> DEFINE r == worker[q][w]
           e == Visited(q, r)
<1>1. /\ BusTypeOK /\ PiTypeOK /\ r \in WorkerStates(q) /\ WorkerSound(q, r) /\ d \in Devices /\ e \in Devices
      /\ e \in Owned(q) /\ r.field \in Fields
  <2>1. BusTypeOK /\ PiTypeOK /\ WorkerSound(q, r)
    BY DEF TypeOK, SpacedInv, OneWorker
  <2>2. r \in WorkerStates(q)
    BY <2>1 DEF PiTypeOK, WorkerOK
  <2>3. r.field \in Fields
    BY <2>2 DEF WorkerStates
  <2>4. d \in Devices /\ e \in Devices /\ e \in Owned(q)
    BY <2>2, TablesApart
  <2> QED BY <2>1, <2>2, <2>3, <2>4
<1>0. ASSUME NEW n, worker' = [worker EXCEPT ![q][w] = n], UNCHANGED sensing, ToReport(p, d, f),
             r.pc \in {"format", "publish"} => n.pc \in {"format", "publish"} /\ n.i = r.i /\ n.field = r.field
      PROVE  ToReport(p, d, f)'
  <2>1. worker'[q][w] = n
    BY <1>0, <1>1 DEF PiTypeOK
  <2>2. \A v \in Workers : p # q \/ v # w => worker'[p][v] = worker[p][v]
    BY <1>0, <1>1 DEF PiTypeOK
  <2>3. ASSUME NEW v \in Workers, worker[p][v].pc \in {"format", "publish"}
        PROVE  /\ worker'[p][v].pc \in {"format", "publish"}
               /\ worker'[p][v].i = worker[p][v].i /\ worker'[p][v].field = worker[p][v].field
    BY <1>0, <2>1, <2>2, <2>3
  <2> QED BY <1>0, <2>3 DEF ToReport, Visited, Sensed
<1>2. ASSUME NEW n, worker' = [worker EXCEPT ![q][w] = n], UNCHANGED sensing, outbox' = outbox, inbox' = inbox,
             r.pc \in {"format", "publish"} => n.pc \in {"format", "publish"} /\ n.i = r.i /\ n.field = r.field,
             dev'[d][f] = dev[d][f]
      PROVE  Replicated(p, d, f)'
  <2>1. ToReport(p, d, f) => ToReport(p, d, f)'
    BY <1>0, <1>2
  <2> QED BY <1>1, <1>2, <2>1, ReplicatedQuiet
<1>3. CASE Split(q, w)
  BY <1>2, <1>3 DEF Split, At, busVars
<1>4. CASE SplitAgain(q, w)
  BY <1>4 DEF SplitAgain, SpacedInv, OneWorker, At
<1>5. CASE ReadTopic(q, w)
  <2>1. PICK n : n = [r EXCEPT !.topic = callback[q].topic, !.pc = "loop"]
    OBVIOUS
  <2>2. worker' = [worker EXCEPT ![q][w] = n]
    BY <1>1, <1>5, <2>1 DEF ReadTopic, PiTypeOK, WorkerStates
  <2> QED BY <1>2, <1>5, <2>2 DEF ReadTopic, At, busVars
<1>6. CASE Loop(q, w)
  BY <1>2, <1>6 DEF Loop, At, busVars
<1>7. CASE Write(q, w)
  <2>1. PICK n : n = [r EXCEPT !.pc = "format"]
    OBVIOUS
  <2>2. n.pc = "format" /\ n.i = r.i /\ n.field = r.field
    BY <1>1, <2>1 DEF WorkerStates
  <2>3. /\ worker' = [worker EXCEPT ![q][w] = n] /\ UNCHANGED <<outbox, inbox, sensing>>
    BY <1>7, <2>1 DEF Write, busVars
  <2>4. ToReport(p, d, f) => ToReport(p, d, f)'
    BY <1>0, <2>2, <2>3
  <2>5. dev'[d][f] = dev[d][f] \/ (d = e /\ f = r.field)
    BY <1>1, <1>7 DEF Write, WriteField, PiTypeOK
  <2>6. d = e /\ f = r.field => ToReport(p, d, f)'
    <3>1. worker'[q][w] = n
      BY <1>1, <2>3 DEF PiTypeOK
    <3>2. d = e => p = q
      BY <1>1, TablesApart
    <3> QED BY <2>2, <3>1, <3>2 DEF ToReport, Visited
  <2> QED BY <1>1, <2>3, <2>4, <2>5, <2>6, ReplicatedQuiet
<1>8. CASE Format(q, w)
  <2>1. PICK n : n = [r EXCEPT !.out = dev[e][r.field], !.pc = "publish"]
    OBVIOUS
  <2>2. n.pc = "publish" /\ n.i = r.i /\ n.field = r.field
    BY <1>1, <2>1 DEF WorkerStates
  <2>3. worker' = [worker EXCEPT ![q][w] = n]
    BY <1>8, <2>1 DEF Format
  <2> QED BY <1>2, <1>8, <2>2, <2>3 DEF Format, busVars
<1>9. CASE Report(q, w)
  <2>1. PICK n : n = Advance(q, r)
    OBVIOUS
  <2>2. /\ r.out = dev[e][r.field] /\ dev[e][r.field] \in Texts
        /\ PublishOrExit(q, ControlerTopic, PropertyChanged(e, r.field, dev[e][r.field]))
        /\ worker' = [worker EXCEPT ![q][w] = n] /\ UNCHANGED <<dev, sensing>>
    BY <1>1, <1>9, <2>1 DEF Report, At, WorkerSound, PiTypeOK
  <2>3. ToReport(p, d, f) /\ <<d, f>> # <<e, r.field>> => ToReport(p, d, f)'
    BY <1>1, <2>2, ToReportKept
  <2> QED BY <1>1, <2>2, <2>3, ReplicatedReport
<1> QED BY <1>3, <1>4, <1>5, <1>6, <1>7, <1>8, <1>9 DEF Work

LEMMA ReplicatedSensing ==
  ASSUME TypeOK, SpacedInv, SensorReport \/ SensorPublish \/ NewReading, UNCHANGED kontrolerVars, Follow,
         NEW p \in Pis, NEW d \in Owned(p), NEW f \in Fields, Replicated(p, d, f), Running(p)'
  PROVE  Replicated(p, d, f)'
<1>1. /\ BusTypeOK /\ PiTypeOK /\ d \in Devices /\ Sensed \in Sensors /\ Sensed \in Devices
      /\ Sensed \in Owned("senzorski_pi") /\ "senzorski_pi" \in Pis /\ "senzorski_pi" \in Clients
      /\ "Value" \in Fields /\ dev[Sensed].Value \in Texts /\ Kontroler # "senzorski_pi"
      /\ sensing \in [pc : {"read", "change", "mes"}, i : 1..Len(SensorTable)]
  BY TablesApart, VisitedTypes DEF TypeOK, PiTypeOK, Pis, Clients, Fields, Kontroler
<1>2. CASE SensorReport
  <2>1. ToReport(p, d, f) /\ <<d, f>> # <<Sensed, "Value">> => ToReport(p, d, f)'
    BY <1>2 DEF SensorReport, ToReport, Visited
  <2> QED BY <1>1, <1>2, <2>1, ReplicatedReport DEF SensorReport
<1>3. CASE SensorPublish
  <2>1. PICK x : x = [topic |-> Place[Sensed], mes |-> SensorMes(dev[Sensed].Value)]
    OBVIOUS
  <2>2. /\ x \in Packets /\ x.topic \notin OwnTopics /\ x.mes.type = "Sensor_Mes"
    BY <1>1, <2>1, MessageTypes, TableTypes, RoomsAssumption DEF Packets, SensorMes
  <2>3. x \notin Reports(d, f)
    BY <2>2 DEF Reports, OwnTopics
  <2>4. /\ inbox' = inbox
        /\ \A c \in Pis : \/ outbox'[c] = outbox[c]
                          \/ c = "senzorski_pi" /\ outbox'[c] = Append(outbox[c], x)
        /\ UNCHANGED <<dev, worker>>
    BY <1>1, <1>3, <2>1, PublishQueues DEF SensorPublish, PublishOrExit, Pis, Clients
  <2>5. <<d, f>> \notin Told
    BY <1>1, <2>2, <2>4, ToldOne
  <2>6. <<d, f>> \in stale => <<d, f>> \in stale'
    BY <2>5 DEF Follow
  <2>7. ToReport(p, d, f) => ToReport(p, d, f)'
    BY <1>3, <2>4 DEF SensorPublish, ToReport, Visited
  <2>8. Shows(d, f, dev[d][f]) => Shows(d, f, dev[d][f])'
    BY <2>4 DEF Shows, Bringing, kontrolerVars
  <2> QED BY <1>1, <2>2, <2>3, <2>4, <2>6, <2>7, <2>8, ReplicatedKept
<1>4. ASSUME NEW v \in Readings, Sense(v)
      PROVE  Replicated(p, d, f)'
  <2>1. UNCHANGED <<outbox, inbox, worker>> /\ sensing.pc = "read"
    BY <1>4 DEF Sense, busVars
  <2>2. ToReport(p, d, f) => ToReport(p, d, f)'
    BY <2>1 DEF ToReport, Visited
  <2>3. \/ dev'[d][f] = dev[d][f]
        \/ d = Sensed /\ f = "Value" /\ sensing'.pc = "change" /\ Sensed' = Sensed
    <3>1. CASE v = dev[Sensed].Value
      BY <1>4, <3>1 DEF Sense
    <3>2. CASE v # dev[Sensed].Value
      <4>1. /\ dev' = [dev EXCEPT ![Sensed]["Value"] = v]
            /\ sensing' = [sensing EXCEPT !.pc = "change"]
        BY <1>4, <3>2 DEF Sense, WriteField
      <4>2. dev'[d][f] = dev[d][f] \/ (d = Sensed /\ f = "Value")
        BY <1>1, <4>1 DEF PiTypeOK
      <4>3. sensing'.pc = "change" /\ sensing'.i = sensing.i
        BY <1>1, <4>1
      <4> QED BY <4>2, <4>3 DEF Sensed
    <3> QED BY <3>1, <3>2
  <2>4. d = Sensed => p = "senzorski_pi"
    BY <1>1, TablesApart
  <2>5. dev'[d][f] = dev[d][f] \/ ToReport(p, d, f)'
    BY <2>3, <2>4 DEF ToReport
  <2> QED BY <1>1, <2>1, <2>2, <2>5, ReplicatedQuiet
<1> QED BY <1>2, <1>3, <1>4 DEF NewReading

LEMMA ReplicatedPi ==
  ASSUME TypeOK, SpacedInv, PiStep \/ NewReading, UNCHANGED kontrolerVars, Follow,
         NEW p \in Pis, NEW d \in Owned(p), NEW f \in Fields, Replicated(p, d, f), Running(p)'
  PROVE  Replicated(p, d, f)'
<1>1. BusTypeOK /\ PiTypeOK /\ d \in Devices /\ Kontroler \notin Pis
  BY TablesApart DEF TypeOK, Kontroler, Pis
<1>2. ASSUME NEW q \in Pis, CallbackTopic(q)
      PROVE  Replicated(p, d, f)'
  <2>1. UNCHANGED <<outbox, worker, sensing, dev>> /\ inbox'[Kontroler] = inbox[Kontroler]
    BY <1>1, <1>2 DEF CallbackTopic, BusTypeOK
  <2>2. ToReport(p, d, f) => ToReport(p, d, f)'
    BY <2>1 DEF ToReport, Visited, Sensed
  <2> QED BY <1>1, <2>1, <2>2, ReplicatedQuiet
<1>3. ASSUME NEW q \in Pis, NEW w \in Workers, CallbackMes(q, w)
      PROVE  Replicated(p, d, f)'
  <2>1. PICK n : n = [worker[q][w] EXCEPT !.pc = "start"]
    OBVIOUS
  <2>2. /\ worker' = [worker EXCEPT ![q][w] = n] /\ worker[q][w].pc = "idle"
        /\ UNCHANGED <<outbox, inbox, sensing, dev>>
    BY <1>3, <2>1 DEF CallbackMes, TypeOK, PiTypeOK, WorkerOK, WorkerStates
  <2>3. ToReport(p, d, f) => ToReport(p, d, f)'
    BY <1>1, <2>2, ToReportKept
  <2> QED BY <1>1, <2>2, <2>3, ReplicatedQuiet
<1> QED BY <1>2, <1>3, ReplicatedWork, ReplicatedSensing DEF PiStep

\* No other program sends a report of a device of p.
LEMMA ReportsOfOwner ==
  ASSUME NEW c \in Clients, NEW p \in Pis, c # p, NEW d \in Owned(p), NEW f, NEW x, SentBy(c, x)
  PROVE  x \notin Reports(d, f)
<1>1. CASE c = Kontroler
  BY <1>1 DEF SentBy, Reports, ControlerTopic, UiTopic, InfoTopic, FuncTopic
<1>2. CASE c = Cli
  <2>1. x.mes \in Commands
    BY <1>2, LinesAssumption DEF SentBy, UserCommands
  <2> QED BY <2>1 DEF Commands, Asks, Sets, Reports
<1>3. CASE c \in Pis
  BY <1>3, TablesApart DEF SentBy, Reports, OwnTopics
<1> QED BY <1>1, <1>2, <1>3 DEF Clients

LEMMA ReplicatedSend ==
  ASSUME TypeOK, SpacedInv, NEW c \in Clients, Send(c), UNCHANGED <<piVars, kontrolerVars>>, Follow,
         subscribed[Kontroler], NEW p \in Pis, NEW d \in Owned(p), NEW f \in Fields, Replicated(p, d, f)
  PROVE  Replicated(p, d, f)'
<1>1. PICK x : x = Head(outbox[c])
  OBVIOUS
<1>2. /\ BusTypeOK /\ outbox[c] \in Seq(Packets) /\ outbox[c] # <<>> /\ x \in Packets /\ SentBy(c, x)
      /\ outbox' = [outbox EXCEPT ![c] = Tail(@)] /\ inbox[Kontroler] \in Seq(Packets)
      /\ outbox[p] \in Seq(Packets) /\ d \in Devices /\ p \in Clients /\ Kontroler \in Clients
  BY <1>1, TailAt, TablesApart DEF TypeOK, BusTypeOK, Send, SpacedInv, PacketsSound, Clients
<1>3. inbox'[Kontroler] = IF x.topic = ControlerTopic THEN Append(inbox[Kontroler], x) ELSE inbox[Kontroler]
  BY <1>1, <1>2 DEF Send, SpacedInv, Subscriptions, Kontroler
<1>4. Told = {}
  <2>1. \A q \in Pis : \/ outbox'[q] = outbox[q]
                       \/ outbox[q] # <<>> /\ outbox'[q] = Tail(outbox[q])
    BY <1>2 DEF BusTypeOK, Clients
  <2> QED BY <1>2, <2>1, ToldNothing
<1>5. ToReport(p, d, f) => ToReport(p, d, f)'
  BY DEF ToReport, piVars, Visited, Sensed
<1>6. SUFFICES ASSUME <<d, f>> \notin stale, ~ToReport(p, d, f) PROVE Replicated(p, d, f)'
  BY <1>4, <1>5 DEF Replicated, Follow
<1>7. PICK b \in BOOLEAN : b = Shows(d, f, dev[d][f]) /\ b = Shows(d, f, dev[d][f])'
  BY DEF Shows, Bringing, kontrolerVars, piVars
<1>8. Through(outbox[p], inbox[Kontroler], Reports(d, f), dev[d][f], b) /\ dev' = dev
  BY <1>6, <1>7 DEF Replicated, piVars
<1>9. Through(outbox'[p], inbox'[Kontroler], Reports(d, f), dev[d][f], b)
  <2>1. CASE c = p /\ x.topic = ControlerTopic
    BY <1>1, <1>2, <1>3, <1>8, <2>1, ThroughSend DEF BusTypeOK
  <2>2. CASE c = p /\ x.topic # ControlerTopic
    <3>1. x \notin Reports(d, f)
      BY <2>2 DEF Reports
    <3> QED BY <1>1, <1>2, <1>3, <1>8, <2>2, <3>1, ThroughDrop DEF BusTypeOK
  <2>3. CASE c # p
    <3>1. x \notin Reports(d, f) /\ outbox'[p] = outbox[p]
      BY <1>2, <2>3, ReportsOfOwner DEF BusTypeOK
    <3> QED BY <1>2, <1>3, <1>8, <3>1, ThroughPut
  <2> QED BY <2>1, <2>2, <2>3
<1> QED BY <1>7, <1>8, <1>9 DEF Replicated, Reports

\* The controller takes a packet.
LEMMA ReplicatedCallback ==
  ASSUME Spaced, TypeOK, SpacedInv, NEW w \in Workers, Callback(w), UNCHANGED piVars, Follow,
         NEW p \in Pis, NEW d \in Owned(p), NEW f \in Fields, Replicated(p, d, f)
  PROVE  Replicated(p, d, f)'
<1>1. PICK x : x = Head(inbox[Kontroler])
  OBVIOUS
<1>2. /\ BusTypeOK /\ KontrolerTypeOK /\ Kontroler \in Clients /\ inbox[Kontroler] \in Seq(Packets)
      /\ inbox[Kontroler] # <<>> /\ x \in Packets /\ Received(Kontroler, x)
      /\ d \in Devices /\ UNCHANGED <<outbox, db>> /\ inbox'[Kontroler] = Tail(inbox[Kontroler])
      /\ packet' = x.mes /\ \A v \in Workers : thread[v].pc = "idle"
  BY <1>1, TailAt, TablesApart
     DEF TypeOK, BusTypeOK, Callback, Arrived, SpacedInv, PacketsSound, Clients, ThreadsIdle, BusyThreads
<1>3. x.topic = ControlerTopic
  BY <1>2, ReceivedParts
<1>4. thread'[w].pc = IF x.mes.id = AllDevices \/ Found(x.mes.id) THEN "start" ELSE "missing"
  BY <1>1, <1>2 DEF Callback, KontrolerTypeOK, ThreadOK
<1>5. \A v \in Workers : v # w => thread'[v].pc = "idle"
  BY <1>2 DEF Callback, KontrolerTypeOK
<1>6. Told = {}
  BY <1>2, ToldNothing
<1>7. ToReport(p, d, f) => ToReport(p, d, f)'
  BY DEF ToReport, piVars, Visited, Sensed
<1>8. SUFFICES ASSUME <<d, f>> \notin stale, ~ToReport(p, d, f) PROVE Replicated(p, d, f)'
  BY <1>6, <1>7 DEF Replicated, Follow
<1>9. dev' = dev /\ ~Bringing(d, f)
  BY <1>2 DEF piVars, Bringing
<1>10. x \in Reports(d, f) /\ x.mes.value = dev[d][f] => Shows(d, f, dev[d][f])'
  <2>1. SUFFICES ASSUME x \in Reports(d, f), x.mes.value = dev[d][f] PROVE Shows(d, f, dev[d][f])'
    OBVIOUS
  <2>2. thread'[w].pc = "start"
    BY <1>2, <1>4, <2>1 DEF Reports, Found
  <2> QED BY <1>2, <1>9, <2>1, <2>2 DEF Reports, Shows, Bringing
<1>11. x \notin Reports(d, f) /\ Shows(d, f, dev[d][f]) => Shows(d, f, dev[d][f])'
  <2>1. SUFFICES ASSUME x \notin Reports(d, f), Shows(d, f, dev[d][f]) PROVE Shows(d, f, dev[d][f])'
    OBVIOUS
  <2>2. ~Bringing(d, f)'
    BY <1>2, <1>3, <2>1 DEF Reports, Bringing
  <2> QED BY <1>2, <1>9, <2>1, <2>2 DEF Shows
<1>12. PICK b \in BOOLEAN, c \in BOOLEAN : b = Shows(d, f, dev[d][f]) /\ c = Shows(d, f, dev[d][f])'
  BY DEF Shows
<1>13. Through(outbox[p], inbox[Kontroler], Reports(d, f), dev[d][f], b)
  BY <1>8, <1>12 DEF Replicated
<1>14. Through(outbox[p], Tail(inbox[Kontroler]), Reports(d, f), dev[d][f], c)
  BY <1>1, <1>2, <1>10, <1>11, <1>12, <1>13, ThroughTake
<1> QED BY <1>2, <1>9, <1>12, <1>14 DEF Replicated, Reports

\* A thread of the controller writes what is in callback_packet.
LEMMA ShowsKept ==
  ASSUME KontrolerTypeOK, OneThread, NEW w \in Workers, Run(w), NEW d \in Devices, NEW f \in Fields, NEW v,
         Shows(d, f, v)
  PROVE  Shows(d, f, v)'
<1> DEFINE t == thread[w]
<1>1. /\ t.pc # "idle" /\ packet' = packet /\ ThreadSound(t) /\ ThreadOK(t)
      /\ \A u \in Workers : u # w => thread[u].pc = "idle"
  BY DEF Run, NoDevice, Distribute, ReadDevice, Answer, Acknowledge, Reread, Forward, Apply, In,
         OneThread, KontrolerTypeOK
<1>2. ASSUME NEW n, thread' = [thread EXCEPT ![w] = n]
      PROVE  thread'[w] = n /\ \A u \in Workers : u # w => thread'[u].pc = "idle"
  BY <1>1, <1>2 DEF KontrolerTypeOK
<1>3. ASSUME NEW n, thread' = [thread EXCEPT ![w] = n], UNCHANGED db, t.pc \notin {"start", "apply"},
             n.pc \notin {"start", "apply"}
      PROVE  Shows(d, f, v)'
  BY <1>1, <1>2, <1>3 DEF Shows, Bringing
<1>4. NoThread.pc = "idle"
  BY DEF NoThread
<1>5. CASE Distribute(w)
  <2>1. thread' = [thread EXCEPT ![w] = Begin(packet)] /\ db' = db /\ t.pc = "start"
    BY <1>5 DEF Distribute, In
  <2>2. packet.type = "PropertyChanged" => Begin(packet).pc = "apply"
    BY DEF Begin, NoThread
  <2>3. packet.type = "PropertyChanged" => Bringing(d, f)' = Bringing(d, f)
    BY <1>1, <1>2, <2>1, <2>2 DEF Bringing
  <2>4. packet.type # "PropertyChanged" => ~Bringing(d, f)' /\ ~Bringing(d, f)
    BY <1>1 DEF Bringing
  <2> QED BY <1>1, <2>1, <2>3, <2>4 DEF Shows
<1>6. CASE Apply(w)
  <2>1. /\ thread' = [thread EXCEPT ![w] = NoThread] /\ t.pc = "apply" /\ t.mes = packet
        /\ db' = [db EXCEPT ![packet.id][packet.field] = packet.value]
        /\ packet \in Changes /\ packet.type = "PropertyChanged"
    BY <1>1, <1>6 DEF Apply, In, ThreadSound, ThreadOK, Changes
  <2>2. ~Bringing(d, f)'
    BY <1>1, <1>2, <1>4, <2>1 DEF Bringing
  <2>3. db'[d][f] = IF packet.id = d /\ packet.field = f THEN packet.value ELSE db[d][f]
    BY <2>1 DEF KontrolerTypeOK, Changes
  <2>4. Bringing(d, f) <=> packet.id = d /\ packet.field = f
    BY <2>1 DEF Bringing
  <2> QED BY <2>2, <2>3, <2>4 DEF Shows
<1>7. CASE NoDevice(w)
  BY <1>3, <1>4, <1>7 DEF NoDevice, In
<1>8. CASE Answer(w)
  BY <1>3, <1>4, <1>8 DEF Answer, In
<1>9. CASE Forward(w)
  BY <1>3, <1>4, <1>9 DEF Forward, In
<1>10. CASE ReadDevice(w)
  <2>1. PICK n : n = [t EXCEPT !.out = Append(@, IF Found(Head(t.todo)) THEN db[Head(t.todo)][t.mes.field]
                                                                        ELSE OutOfBounds),
                               !.todo = Tail(@),
                               !.pc = IF Len(t.todo) = 1 THEN "reply" ELSE "read"]
    OBVIOUS
  <2>2. n.pc \in {"read", "reply"}
    BY <1>1, <2>1 DEF ThreadOK
  <2> QED BY <1>3, <1>10, <2>1, <2>2 DEF ReadDevice, In
<1>11. CASE Acknowledge(w)
  <2>1. PICK n : n = [t EXCEPT !.pc = "reread"]
    OBVIOUS
  <2>2. n.pc = "reread"
    BY <1>1, <2>1 DEF ThreadOK
  <2> QED BY <1>3, <1>11, <2>1, <2>2 DEF Acknowledge, In
<1>12. CASE Reread(w)
  <2>1. PICK n : n = [t EXCEPT !.pc = "forward", !.mes = packet]
    OBVIOUS
  <2>2. n.pc = "forward"
    BY <1>1, <2>1 DEF ThreadOK
  <2>3. thread' = [thread EXCEPT ![w] = n]
    BY <1>12, <2>1 DEF Reread
  <2> QED BY <1>3, <1>12, <2>2, <2>3 DEF Reread, In
<1> QED BY <1>5, <1>6, <1>7, <1>8, <1>9, <1>10, <1>11, <1>12 DEF Run

LEMMA ReplicatedRun ==
  ASSUME TypeOK, SpacedInv, NEW w \in Workers, Run(w), UNCHANGED piVars, Follow,
         NEW p \in Pis, NEW d \in Owned(p), NEW f \in Fields, Replicated(p, d, f)
  PROVE  Replicated(p, d, f)'
<1>1. /\ BusTypeOK /\ KontrolerTypeOK /\ OneThread /\ d \in Devices /\ Kontroler \in Clients
      /\ p \in Clients /\ Pis \subseteq Clients /\ Kontroler \notin Pis
  BY TablesApart DEF TypeOK, SpacedInv, Clients, Pis, Kontroler
<1>2. inbox' = inbox /\ \A q \in Pis : outbox'[q] = outbox[q]
  <2>1. ASSUME NEW t, NEW m, Publish(Kontroler, t, m)
        PROVE  inbox' = inbox /\ \A q \in Pis : outbox'[q] = outbox[q]
    BY <1>1, <2>1, PublishQueues
  <2> QED BY <2>1 DEF Run, NoDevice, Distribute, ReadDevice, Answer, Acknowledge, Reread, Forward, Apply, busVars
<1>3. Told = {}
  BY <1>1, <1>2, ToldNothing
<1>4. <<d, f>> \in stale => <<d, f>> \in stale'
  BY <1>3 DEF Follow
<1>5. ToReport(p, d, f) => ToReport(p, d, f)'
  BY DEF ToReport, piVars, Visited, Sensed
<1>6. dev' = dev
  BY DEF piVars
<1>7. Shows(d, f, dev[d][f]) => Shows(d, f, dev[d][f])'
  <2>1. PICK v : v = dev[d][f]
    OBVIOUS
  <2>2. Shows(d, f, v) => Shows(d, f, v)'
    BY <1>1, ShowsKept
  <2> QED BY <1>6, <2>1, <2>2 DEF Shows
<1> QED BY <1>1, <1>2, <1>4, <1>5, <1>6, <1>7, ReplicatedKept

\* The user interface and its packets.
LEMMA ReplicatedUser ==
  ASSUME BusTypeOK, NewCommand \/ Display, UNCHANGED <<piVars, kontrolerVars>>, Follow,
         NEW p \in Pis, NEW d \in Owned(p), NEW f \in Fields, Replicated(p, d, f)
  PROVE  Replicated(p, d, f)'
<1>1. d \in Devices /\ Cli \in Clients /\ Cli \notin Pis /\ Pis \subseteq Clients /\ Kontroler # Cli
  BY TablesApart DEF Clients, Pis, Cli, Kontroler
<1>2. inbox'[Kontroler] = inbox[Kontroler] /\ \A q \in Pis : outbox'[q] = outbox[q]
  <2>1. CASE Display
    BY <1>1, <2>1 DEF Display, BusTypeOK
  <2>2. ASSUME NEW l \in Lines, Command(l)
        PROVE  inbox'[Kontroler] = inbox[Kontroler] /\ \A q \in Pis : outbox'[q] = outbox[q]
    BY <1>1, <2>2, PublishQueues DEF Command
  <2> QED BY <2>1, <2>2 DEF NewCommand
<1>3. Told = {}
  BY <1>2, ToldNothing
<1>4. <<d, f>> \in stale => <<d, f>> \in stale'
  BY <1>3 DEF Follow
<1>5. ToReport(p, d, f) => ToReport(p, d, f)'
  BY DEF ToReport, piVars, Visited, Sensed
<1>6. dev'[d][f] = dev[d][f] /\ (Shows(d, f, dev[d][f]) => Shows(d, f, dev[d][f])')
  BY DEF Shows, Bringing, kontrolerVars, piVars
<1> QED BY <1>1, <1>2, <1>4, <1>5, <1>6, ReplicatedKept

\* The steps that are no fault.
LEMMA DbStep ==
  ASSUME Spaced, TypeOK, SpacedInv, DbInv, Step, Follow
  PROVE  DbInv'
<1>1. /\ Kontroler \in Clients /\ Pis \subseteq Clients /\ BusTypeOK /\ HistoryTypeOK
      /\ \A p \in Pis : Owned(p) \subseteq Devices
  BY TablesApart DEF Clients, TypeOK
<1>2. Told \subseteq Devices \X Fields
  BY DEF Told
<1>3. ~subscribed'[Kontroler] => error'[Kontroler] = "socket" \/ stale' = Devices \X Fields
  BY <1>1, <1>2, StepKeeps DEF DbInv, Follow, HistoryTypeOK
<1>4. SUFFICES ASSUME error'[Kontroler] # "socket", NEW p \in Pis, Running(p)',
                      NEW d \in Owned(p), NEW f \in Fields
               PROVE  Replicated(p, d, f)'
  BY <1>3 DEF DbInv
<1>5. Replicated(p, d, f) /\ d \in Devices
  BY <1>1, <1>4, StepKeeps DEF DbInv
<1>6. CASE ~subscribed[Kontroler]
  BY <1>1, <1>4, <1>5, <1>6, StepKeeps DEF DbInv, Follow, Replicated
<1>7. CASE subscribed[Kontroler]
  <2>1. ASSUME NEW c \in Clients, Subscribe(c), UNCHANGED <<piVars, kontrolerVars>>
        PROVE  Replicated(p, d, f)'
    <3>1. outbox' = outbox /\ inbox' = inbox
      BY <2>1 DEF Subscribe
    <3>2. ToReport(p, d, f) => ToReport(p, d, f)'
      BY <2>1 DEF ToReport, piVars, Visited, Sensed
    <3> QED BY <1>1, <1>5, <2>1, <3>1, <3>2, ReplicatedQuiet DEF piVars
  <2> QED BY <1>4, <1>5, <1>7, <2>1, <1>1, ReplicatedSend, ReplicatedPi, ReplicatedCallback, ReplicatedRun, ReplicatedUser,
             Apart
          DEF Step, BusStep, KontrolerNext
<1> QED BY <1>6, <1>7

\* A restart of the controller, or of the pi of a device, makes the replica stale.
LEMMA DbFault ==
  ASSUME TypeOK, DbInv, Fault
  PROVE  DbInv'
<1>1. /\ Kontroler \in Clients /\ Pis \subseteq Clients /\ BusTypeOK /\ HistoryTypeOK /\ PiTypeOK
      /\ Kontroler \notin Pis /\ \A p \in Pis : Owned(p) \subseteq Devices
  BY TablesApart DEF Clients, Pis, Kontroler, TypeOK
<1>2. ASSUME NEW c \in Clients, Break(c)
      PROVE  DbInv'
  <2>1. /\ error' = [error EXCEPT ![c] = "socket"] /\ inbox' = [inbox EXCEPT ![c] = <<>>]
        /\ subscribed' = [subscribed EXCEPT ![c] = FALSE]
        /\ UNCHANGED <<outbox, up, dev, worker, sensing, db, packet, thread, stale>>
    BY <1>2 DEF Break, Disconnect, piVars, kontrolerVars
  <2>2. CASE c = Kontroler
    BY <1>1, <2>1, <2>2 DEF DbInv, BusTypeOK
  <2>3. CASE c # Kontroler
    <3>1. /\ error'[Kontroler] = error[Kontroler] /\ inbox'[Kontroler] = inbox[Kontroler]
          /\ subscribed'[Kontroler] = subscribed[Kontroler]
          /\ \A p \in Pis : Running(p)' => Running(p)
      BY <1>1, <2>1, <2>3 DEF BusTypeOK, Running
    <3>2. ASSUME NEW p \in Pis, NEW d \in Owned(p), NEW f \in Fields, Replicated(p, d, f)
          PROVE  Replicated(p, d, f)'
      BY <2>1, <3>1, <3>2 DEF Replicated, ToReport, Visited, Sensed, Shows, Bringing, Reports
    <3> QED BY <2>1, <3>1, <3>2 DEF DbInv
  <2> QED BY <2>2, <2>3
<1>3. ASSUME NEW c \in Pis, RestartPi(c), UNCHANGED kontrolerVars, stale' = stale \cup (Owned(c) \X Fields)
      PROVE  DbInv'
  <2>1. /\ error'[Kontroler] = error[Kontroler] /\ inbox'[Kontroler] = inbox[Kontroler]
        /\ subscribed'[Kontroler] = subscribed[Kontroler]
        /\ \A p \in Pis : p # c => (Running(p)' => Running(p)) /\ outbox'[p] = outbox[p] /\ worker'[p] = worker[p]
    BY <1>1, <1>3 DEF RestartPi, Reboot, BusTypeOK, PiTypeOK, Running
  <2>2. ASSUME NEW p \in Pis, NEW d \in Owned(p), NEW f \in Fields, p # c, Replicated(p, d, f)
        PROVE  Replicated(p, d, f)'
    <3>1. dev'[d][f] = dev[d][f]
      BY <1>1, <1>3, <2>2, TablesApart DEF RestartPi
    <3>2. Shows(d, f, dev[d][f]) <=> Shows(d, f, dev[d][f])'
      BY <1>3, <3>1 DEF Shows, Bringing, kontrolerVars
    <3>3. ToReport(p, d, f) => ToReport(p, d, f)'
      BY <1>3, <2>1, <2>2 DEF ToReport, Visited, Sensed, RestartPi
    <3>4. PICK b \in BOOLEAN : b = Shows(d, f, dev[d][f]) /\ b = Shows(d, f, dev[d][f])'
      BY <3>2 DEF Shows
    <3> QED BY <1>3, <2>1, <2>2, <3>1, <3>3, <3>4 DEF Replicated, Reports
  <2>3. ASSUME NEW d \in Owned(c), NEW f \in Fields
        PROVE  Replicated(c, d, f)'
    BY <1>3 DEF Replicated
  <2>4. stale = Devices \X Fields => stale' = Devices \X Fields
    BY <1>1, <1>3
  <2> QED BY <2>1, <2>2, <2>3, <2>4 DEF DbInv
<1>4. ASSUME stale' = Devices \X Fields
      PROVE  DbInv'
  BY <1>1, <1>4 DEF DbInv, Replicated
<1> QED BY <1>2, <1>3, <1>4 DEF Fault, Restart

LEMMA DbNext ==
  Spaced /\ TypeOK /\ SpacedInv /\ DbInv /\ [Next]_vars => DbInv'
<1> SUFFICES ASSUME Spaced, TypeOK, SpacedInv, DbInv, [Next]_vars PROVE DbInv'
  OBVIOUS
<1>1. CASE UNCHANGED vars
  <2>1. \A p \in Pis : Running(p)' = Running(p)
    BY <1>1 DEF Running, vars, busVars
  <2>2. ASSUME NEW p \in Pis, NEW d \in Owned(p), NEW f \in Fields, Replicated(p, d, f)
        PROVE  Replicated(p, d, f)'
    BY <1>1, <2>2 DEF Replicated, ToReport, Visited, Sensed, Shows, Bringing, Reports, vars, busVars, piVars,
                      kontrolerVars, history
  <2> QED BY <1>1, <2>1, <2>2 DEF DbInv, vars, busVars, history
<1> QED BY <1>1, DbStep, DbFault DEF Next

LEMMA DbInit == Init => DbInv
<1> SUFFICES ASSUME Init PROVE DbInv
  OBVIOUS
<1>1. Kontroler \in Clients /\ Pis \subseteq Clients /\ \A p \in Pis : Owned(p) \subseteq Devices
  BY TablesApart DEF Clients
<1>2. ASSUME NEW p \in Pis, NEW d \in Owned(p), NEW f \in Fields
      PROVE  Replicated(p, d, f)
  <2>1. outbox[p] = <<>> /\ inbox[Kontroler] = <<>> /\ db[d][f] = dev[d][f] /\ ~Bringing(d, f)
    BY <1>1 DEF Init, BusInit, PiInit, KontrolerInit, Bringing, NoThread
  <2>2. Shows(d, f, dev[d][f])
    BY <2>1 DEF Shows
  <2> QED BY <2>1, <2>2, QueueEmpty DEF Replicated, Through
<1> QED BY <1>1, <1>2 DEF DbInv, Init, BusInit

LEMMA SettledQueues ==
  ASSUME BusTypeOK, Settled, NEW c \in Clients, up[c]
  PROVE  outbox[c] = <<>> /\ inbox[c] = <<>>
<1>1. \A d \in Clients : Len(outbox[d]) \in Nat /\ Len(inbox[d]) \in Nat /\ Waiting(d) \in Nat
  BY LenProperties DEF BusTypeOK, Waiting
<1>2. Waiting("senzorski_pi") + Waiting("aktuatorski_pi") + Waiting("kontroler") + Waiting("cli") = 0
  BY DEF Settled, InFlight
<1>3. /\ "senzorski_pi" \in Clients /\ "aktuatorski_pi" \in Clients /\ "kontroler" \in Clients /\ "cli" \in Clients
      /\ c \in {"senzorski_pi", "aktuatorski_pi", "kontroler", "cli"}
  BY DEF Clients, Pis, Kontroler, Cli
<1>4. Waiting(c) = 0
  <2>1. \A i, j, k, l \in Nat : i + j + k + l = 0 => i = 0 /\ j = 0 /\ k = 0 /\ l = 0
    OBVIOUS
  <2> QED BY <1>1, <1>2, <1>3, <2>1
<1>5. Len(outbox[c]) = 0 /\ Len(inbox[c]) = 0
  <2>1. Len(outbox[c]) + Len(inbox[c]) = 0
    BY <1>4 DEF Waiting
  <2>2. Len(outbox[c]) \in Nat /\ Len(inbox[c]) \in Nat
    BY <1>1
  <2>3. \A i, j \in Nat : i + j = 0 => i = 0 /\ j = 0
    OBVIOUS
  <2> QED BY <2>1, <2>2, <2>3, Zenon
<1> QED BY <1>5, EmptySeq DEF BusTypeOK

\* Between packets and their callbacks the replica of the controller is the state of
\* the devices: when each program works on one message at a time, every change is
\* reported and the reports stay in order.
THEOREM ReplicaConverges ==
  ASSUME Spaced
  PROVE  Spec => []DbConverges
<1>1. TypeOK /\ SpacedInv /\ DbInv => DbConverges
  <2>1. SUFFICES ASSUME TypeOK, SpacedInv, DbInv, Settled, \A p \in Pis : Running(p), error[Kontroler] # "socket",
                        NEW d \in Devices, NEW f \in Fields, <<d, f>> \notin stale
                 PROVE  db[d][f] = dev[d][f]
    BY DEF DbConverges
  <2>2. PICK p \in Pis : d \in Owned(p)
    BY TablesApart DEF Devices, Pis
  <2>3. Replicated(p, d, f) /\ up[p] /\ up[Kontroler] /\ p \in Clients /\ Kontroler \in Clients
    BY <2>1, <2>2 DEF DbInv, Running, SpacedInv, Clients
  <2>4. ~ToReport(p, d, f)
    BY <2>1, <2>3 DEF Settled, WorkersIdle, Busy, ToReport
  <2>5. outbox[p] = <<>> /\ inbox[Kontroler] = <<>>
    BY <2>1, <2>3, SettledQueues DEF TypeOK
  <2>6. Shows(d, f, dev[d][f])
    BY <2>1, <2>3, <2>4, <2>5, QueueEmpty DEF Replicated, Through
  <2>7. ~Bringing(d, f)
    BY <2>1 DEF Settled, ThreadsIdle, BusyThreads, Bringing
  <2> QED BY <2>6, <2>7 DEF Shows
<1>2. Init => DbInv
  BY DbInit
<1>3. TypeOK /\ SpacedInv /\ DbInv /\ [Next]_vars => DbInv'
  BY DbNext
<1>4. Spec => [](TypeOK /\ SpacedInv)
  BY SpacedInvariant
<1> QED BY <1>1, <1>2, <1>3, <1>4, PTL DEF Spec

-----------------------------------------------------------------------------
(* AutomationConverges: an actuator has the status that the newest reading *)
(* of its room asks for, or a thread is about to see to it.                *)

\* One sensor measures a room; users set no status of an actuator; and the values
\* compiled into the tables agree with each other.
OneSensorPerRoom == \A s, t \in Sensors : Place[s] = Place[t] => s = t
NoStatusSet == \A m \in UserCommands \cap Sets : m.field = "Value" => m.id \notin Actuators
InitialAgrees ==
  /\ \A s \in Sensors : Initial[s].Value \in Readings
  /\ \A s \in Sensors, a \in Actuators :
       Place[s] = Place[a] => Initial[a].Value = Wanted(a, Initial[s].Value)

ReadingsOf(a) == {pk \in Packets : pk.topic = Place[a]}

\* The loop of the worker r is not past a; r works for the room of a; r is about to.
Ahead(r, a) == \E j \in 1..Len(ActuatorTable) :
                 ActuatorTable[j] = a /\ r.i <= j /\ (r.pc \in {"format", "publish"} => r.i < j)
Works(r, a) == r.pc \in {"loop", "write", "format", "publish"} /\ r.auto /\ r.topic = Place[a]
Concerned(r, a) ==
  \/ r.pc \in {"start", "topic"} /\ callback["aktuatorski_pi"].topic = Place[a]
  \/ Works(r, a)

\* a has the status for the reading v; r sees to it.
Has(a, v) == dev[a].Value = Wanted(a, v)
Following(r, a, v) ==
  \/ r.pc = "start" /\ callback["aktuatorski_pi"].mes.value = v
  \/ r.pc = "topic" /\ r.arg = v /\ Ahead(r, a)
  \/ Works(r, a) /\ r.arg = v /\ (Ahead(r, a) \/ Has(a, v))

\* aktuatorski_pi has the reading v in its callback, works on it, or has done so.
Delivers(a) == /\ delivering["aktuatorski_pi"] # NoPacket
               /\ delivering["aktuatorski_pi"].topic = Place[a]
Obeys(a, v) ==
  IF Delivers(a) THEN delivering["aktuatorski_pi"].mes.value = v
  ELSE /\ \A w \in Workers : Concerned(worker["aktuatorski_pi"][w], a)
                               => Following(worker["aktuatorski_pi"][w], a, v)
       /\ (\A w \in Workers : ~Concerned(worker["aktuatorski_pi"][w], a)) => Has(a, v)

\* The sensor thread is about to publish the value of s.
Due(s) == sensing.pc \in {"change", "mes"} /\ Sensed = s

Automated(s, a) ==
  \/ a \in unaware
  \/ Due(s)
  \/ Through(outbox["senzorski_pi"], inbox["aktuatorski_pi"], ReadingsOf(a), dev[s].Value,
             Obeys(a, dev[s].Value))

AutomationInv ==
  /\ \A s \in Sensors : dev[s].Value \in Readings
  /\ ~subscribed["aktuatorski_pi"] =>
       error["aktuatorski_pi"] = "socket" \/ Actuators \subseteq unaware
  /\ Running("senzorski_pi") /\ Running("aktuatorski_pi") =>
       \A s \in Sensors, a \in Actuators : Place[s] = Place[a] => Automated(s, a)

LEMMA ObeysBoolean ==
  \A a, v : Obeys(a, v) \in BOOLEAN
BY DEF Obeys, Has

\* A step that leaves aktuatorski_pi and the devices alone.
LEMMA ObeysSame ==
  ASSUME UNCHANGED <<delivering, worker, callback, dev>>, NEW s, NEW a
  PROVE  \E b \in BOOLEAN : b = Obeys(a, dev[s].Value) /\ b = Obeys(a, dev[s].Value)'
<1>1. Delivers(a)' <=> Delivers(a)
  BY DEF Delivers
<1>2. \A w \in Workers : Concerned(worker["aktuatorski_pi"][w], a)' <=> Concerned(worker["aktuatorski_pi"][w], a)
  BY DEF Concerned, Works
<1>3. Has(a, dev[s].Value)' <=> Has(a, dev[s].Value)
  BY DEF Has
<1>4. \A w \in Workers : Following(worker["aktuatorski_pi"][w], a, dev[s].Value)'
                         <=> Following(worker["aktuatorski_pi"][w], a, dev[s].Value)
  BY <1>3 DEF Following, Works
<1>5. Obeys(a, dev[s].Value)' <=> Obeys(a, dev[s].Value)
  BY <1>1, <1>2, <1>3, <1>4 DEF Obeys
<1>6. Obeys(a, dev[s].Value) \in BOOLEAN
  BY ObeysBoolean
<1>7. Obeys(a, dev[s].Value)' \in BOOLEAN
  BY DEF Obeys, Has
<1>8. CASE Obeys(a, dev[s].Value)
  <2>1. TRUE = Obeys(a, dev[s].Value) /\ TRUE = Obeys(a, dev[s].Value)'
    BY <1>5, <1>6, <1>7, <1>8, Zenon
  <2> QED BY <2>1
<1>9. CASE ~Obeys(a, dev[s].Value)
  <2>1. FALSE = Obeys(a, dev[s].Value) /\ FALSE = Obeys(a, dev[s].Value)'
    BY <1>5, <1>6, <1>7, <1>9, Zenon
  <2> QED BY <2>1
<1> QED BY <1>8, <1>9

\* What a step may do to a room that it neither measures nor controls.
LEMMA AutomatedKept ==
  ASSUME BusTypeOK, NEW s \in Sensors, NEW a \in Actuators, Automated(s, a),
         a \in unaware => a \in unaware',
         Due(s) => Due(s)',
         \/ dev'[s].Value = dev[s].Value /\ (Obeys(a, dev[s].Value) => Obeys(a, dev[s].Value)')
         \/ Due(s)',
         inbox'["aktuatorski_pi"] = inbox["aktuatorski_pi"],
         \/ outbox'["senzorski_pi"] = outbox["senzorski_pi"]
         \/ \E x \in Packets : x \notin ReadingsOf(a)
                               /\ outbox'["senzorski_pi"] = Append(outbox["senzorski_pi"], x)
  PROVE  Automated(s, a)'
<1>1. /\ outbox["senzorski_pi"] \in Seq(Packets) /\ inbox["aktuatorski_pi"] \in Seq(Packets)
  BY DEF BusTypeOK, Clients, Pis
<1>2. SUFFICES ASSUME a \notin unaware, ~Due(s), ~Due(s)' PROVE Automated(s, a)'
  BY DEF Automated
<1>3. PICK b \in BOOLEAN, c \in BOOLEAN : b = Obeys(a, dev[s].Value) /\ c = Obeys(a, dev[s].Value)'
  <2>1. Obeys(a, dev[s].Value) \in BOOLEAN /\ Obeys(a, dev[s].Value)' \in BOOLEAN
    BY DEF Obeys, Has
  <2> QED BY <2>1
<1>4. /\ Through(outbox["senzorski_pi"], inbox["aktuatorski_pi"], ReadingsOf(a), dev[s].Value, b)
      /\ dev'[s].Value = dev[s].Value /\ (b => c)
  BY <1>2, <1>3 DEF Automated
<1>5. Through(outbox'["senzorski_pi"], inbox["aktuatorski_pi"], ReadingsOf(a), dev[s].Value, b)
  BY <1>1, <1>4, ThroughPut
<1>6. Through(outbox'["senzorski_pi"], inbox["aktuatorski_pi"], ReadingsOf(a), dev[s].Value, c)
  BY <1>4, <1>5 DEF Through
<1> QED BY <1>3, <1>4, <1>6 DEF Automated, ReadingsOf

\* A step that changes nothing of aktuatorski_pi but its own queue.
LEMMA ObeysKept ==
  ASSUME NEW a \in Actuators, NEW v, Obeys(a, v), dev'[a].Value = dev[a].Value,
         worker'["aktuatorski_pi"] = worker["aktuatorski_pi"],
         callback'["aktuatorski_pi"] = callback["aktuatorski_pi"],
         delivering'["aktuatorski_pi"] = delivering["aktuatorski_pi"]
  PROVE  Obeys(a, v)'
<1>1. Wanted(a, v)' = Wanted(a, v)
  BY DEF Wanted, Number
<1> QED BY <1>1 DEF Obeys, Delivers, Concerned, Following, Works, Ahead, Has

LEMMA AutomatedQuiet ==
  ASSUME BusTypeOK, NEW s \in Sensors, NEW a \in Actuators, Automated(s, a), Follow,
         \A p \in Pis : \/ outbox'[p] = outbox[p]
                        \/ p # "senzorski_pi" /\ outbox[p] # <<>> /\ outbox'[p] = Tail(outbox[p]),
         inbox'["aktuatorski_pi"] = inbox["aktuatorski_pi"],
         UNCHANGED sensing, dev'[s].Value = dev[s].Value,
         Obeys(a, dev[s].Value) => Obeys(a, dev[s].Value)'
  PROVE  Automated(s, a)'
<1>1. Heard = {}
  BY ToldNothing
<1>2. a \in unaware => a \in unaware'
  BY <1>1 DEF Follow
<1>3. Due(s) => Due(s)'
  BY DEF Due, Sensed
<1>4. outbox'["senzorski_pi"] = outbox["senzorski_pi"]
  BY DEF Pis
<1> QED BY <1>2, <1>3, <1>4, AutomatedKept

\* What is published on the topic "controler" concerns no room.
LEMMA AutomatedReport ==
  ASSUME BusTypeOK, NEW s \in Sensors, NEW a \in Actuators, Automated(s, a), Follow,
         NEW q \in Pis, NEW m \in Messages, m.type = "PropertyChanged", PublishOrExit(q, ControlerTopic, m),
         Due(s) => Due(s)', dev'[s].Value = dev[s].Value,
         Obeys(a, dev[s].Value) => Obeys(a, dev[s].Value)'
  PROVE  Automated(s, a)'
<1>1. PICK x : x = [topic |-> ControlerTopic, mes |-> m]
  OBVIOUS
<1>2. x \in Packets /\ x.topic = ControlerTopic /\ x.mes.type = "PropertyChanged" /\ ControlerTopic \in OwnTopics
  BY <1>1, MessageTypes DEF Packets, Topics, OwnTopics
<1>3. x \notin ReadingsOf(a)
  BY <1>2, RoomsAssumption DEF ReadingsOf, Devices
<1>4. inbox' = inbox /\ \A p \in Pis : \/ outbox'[p] = outbox[p]
                                       \/ p = q /\ outbox'[p] = Append(outbox[p], x)
  BY <1>1, PublishQueues DEF PublishOrExit, Clients
<1>5. a \in unaware => a \in unaware'
  <2>1. a \notin Heard
    BY <1>2, <1>4, ToldOne
  <2> QED BY <2>1 DEF Follow
<1>6. \/ outbox'["senzorski_pi"] = outbox["senzorski_pi"]
      \/ outbox'["senzorski_pi"] = Append(outbox["senzorski_pi"], x)
  BY <1>4 DEF Pis
<1> QED BY <1>2, <1>3, <1>4, <1>5, <1>6, AutomatedKept

\* The one worker at work decides.
LEMMA ObeysBefore ==
  ASSUME NEW w \in Workers, OneWorker("aktuatorski_pi"), worker["aktuatorski_pi"][w].pc # "idle",
         NEW a \in Actuators, NEW v, Obeys(a, v)
  PROVE  /\ delivering["aktuatorski_pi"] = NoPacket
         /\ \A u \in Workers : u # w => worker["aktuatorski_pi"][u].pc = "idle"
         /\ Concerned(worker["aktuatorski_pi"][w], a) => Following(worker["aktuatorski_pi"][w], a, v)
         /\ ~Concerned(worker["aktuatorski_pi"][w], a) => Has(a, v)
<1>1. \A u \in Workers : u # w => worker["aktuatorski_pi"][u].pc = "idle"
  BY DEF OneWorker
<1>2. delivering["aktuatorski_pi"] = NoPacket
  BY DEF OneWorker
<1>3. \A u \in Workers : u # w => ~Concerned(worker["aktuatorski_pi"][u], a)
  BY <1>1 DEF Concerned, Works
<1> QED BY <1>1, <1>2, <1>3 DEF Obeys, Delivers

LEMMA ObeysAfter ==
  ASSUME NEW w \in Workers, NEW a \in Actuators, NEW v, delivering'["aktuatorski_pi"] = NoPacket,
         \A u \in Workers : u # w => worker'["aktuatorski_pi"][u].pc = "idle",
         Concerned(worker["aktuatorski_pi"][w], a)' => Following(worker["aktuatorski_pi"][w], a, v)',
         ~Concerned(worker["aktuatorski_pi"][w], a)' => Has(a, v)'
  PROVE  Obeys(a, v)'
<1>1. \A u \in Workers : u # w => ~Concerned(worker["aktuatorski_pi"][u], a)'
  BY DEF Concerned, Works
<1> QED BY <1>1 DEF Obeys, Delivers

\* A status written is the one wanted; the users write none.
LEMMA WriteObeys ==
  ASSUME NoStatusSet, PiTypeOK, NEW w \in Workers, Write("aktuatorski_pi", w),
         WorkerSound("aktuatorski_pi", worker["aktuatorski_pi"][w]), NEW a \in Actuators
  PROVE  LET r == worker["aktuatorski_pi"][w]
         IN /\ Works(r, a) => dev'[a].Value = IF Visited("aktuatorski_pi", r) = a
                                              THEN Wanted(a, r.arg) ELSE dev[a].Value
            /\ ~Works(r, a) => dev'[a].Value = dev[a].Value
<1> DEFINE r == worker["aktuatorski_pi"][w]
           d == Visited("aktuatorski_pi", r)
<1>1. /\ r.pc = "write" /\ d \in Actuators /\ d \in Devices /\ a \in Devices /\ r \in WorkerStates("aktuatorski_pi")
      /\ dev' = [dev EXCEPT ![d][r.field] = IF r.auto THEN Wanted(d, r.arg) ELSE r.arg]
      /\ r.field \in Fields /\ "Value" \in Fields
  BY TablesApart DEF Write, At, WriteField, PiTypeOK, WorkerOK, WorkerStates, Pis, Devices, Fields
<1>2. dev'[a].Value = IF d = a /\ r.field = "Value" THEN IF r.auto THEN Wanted(d, r.arg) ELSE r.arg
                                                    ELSE dev[a].Value
  BY <1>1 DEF PiTypeOK
<1>3. CASE r.auto
  <2>1. r.field = "Value" /\ Place[d] = r.topic
    BY <1>1, <1>3 DEF WorkerSound
  <2>2. Works(r, a) <=> r.topic = Place[a]
    BY <1>1, <1>3 DEF Works
  <2> QED BY <1>2, <1>3, <2>1, <2>2
<1>4. CASE ~r.auto
  <2>1. d = a => r.field # "Value"
    BY <1>1, <1>4 DEF WorkerSound, NoStatusSet
  <2>2. ~Works(r, a)
    BY <1>4 DEF Works
  <2> QED BY <1>2, <2>1, <2>2
<1> QED BY <1>3, <1>4

\* The loop passes an actuator only when it has its status.
LEMMA AdvanceAhead ==
  ASSUME NEW r \in WorkerStates("aktuatorski_pi"), r.pc \in {"loop", "publish"}, NEW a \in Actuators, Ahead(r, a),
         r.pc = "loop" => Visited("aktuatorski_pi", r) # a
  PROVE  /\ Advance("aktuatorski_pi", r) = [r EXCEPT !.pc = "loop", !.i = @ + 1, !.out = NoText]
         /\ Ahead(Advance("aktuatorski_pi", r), a)
<1>1. Table("aktuatorski_pi") = ActuatorTable /\ Len(ActuatorTable) \in Nat /\ r.i \in 1..Len(ActuatorTable)
  BY TableTypes DEF Table, WorkerStates, Pis
<1>2. PICK j \in 1..Len(ActuatorTable) : ActuatorTable[j] = a /\ r.i < j
  BY <1>1 DEF Ahead, Visited
<1>3. r.i # Len(ActuatorTable)
  BY <1>1, <1>2
<1>4. Advance("aktuatorski_pi", r) = [r EXCEPT !.pc = "loop", !.i = @ + 1, !.out = NoText]
  BY <1>1, <1>3 DEF Advance
<1>5. PICK n : n = Advance("aktuatorski_pi", r)
  OBVIOUS
<1>6. n.pc = "loop" /\ n.i = r.i + 1
  BY <1>4, <1>5 DEF WorkerStates
<1>7. n.i <= j
  BY <1>1, <1>2, <1>6
<1>8. Ahead(n, a)
  BY <1>2, <1>6, <1>7 DEF Ahead
<1> QED BY <1>4, <1>5, <1>8

\* A worker of aktuatorski_pi follows the reading it began with, to the end.
LEMMA ObeysWork ==
  ASSUME NoStatusSet, PiTypeOK, SpacedInv, NEW w \in Workers, Work("aktuatorski_pi", w),
         NEW a \in Actuators, NEW v, Obeys(a, v)
  PROVE  Obeys(a, v)'
<1> DEFINE r == worker["aktuatorski_pi"][w]
           d == Visited("aktuatorski_pi", r)
<1>1. /\ r \in WorkerStates("aktuatorski_pi") /\ WorkerSound("aktuatorski_pi", r) /\ OneWorker("aktuatorski_pi")
      /\ r.pc # "idle" /\ "aktuatorski_pi" \in Pis /\ r.i \in 1..Len(ActuatorTable) /\ d = ActuatorTable[r.i]
      /\ Len(ActuatorTable) \in Nat
  BY TableTypes DEF Work, Split, SplitAgain, ReadTopic, Loop, Write, Format, Report, At, PiTypeOK, WorkerOK,
                    SpacedInv, OneWorker, Pis, WorkerStates, Table, Visited
<1>2. /\ delivering["aktuatorski_pi"] = NoPacket
      /\ \A u \in Workers : u # w => worker["aktuatorski_pi"][u].pc = "idle"
      /\ Concerned(r, a) => Following(r, a, v)
      /\ ~Concerned(r, a) => Has(a, v)
  BY <1>1, ObeysBefore
<1>3. Wanted(a, v)' = Wanted(a, v)
  BY DEF Wanted, Number
<1>4. ASSUME NEW n, worker' = [worker EXCEPT !["aktuatorski_pi"][w] = n], UNCHANGED delivering,
             Concerned(n, a)' => Following(n, a, v)', ~Concerned(n, a)' => Has(a, v)'
      PROVE  Obeys(a, v)'
  <2>1. worker'["aktuatorski_pi"][w] = n /\ \A u \in Workers : u # w => worker'["aktuatorski_pi"][u].pc = "idle"
    BY <1>1, <1>2, <1>4 DEF PiTypeOK
  <2>2. /\ Concerned(worker["aktuatorski_pi"][w], a)' => Following(worker["aktuatorski_pi"][w], a, v)'
        /\ ~Concerned(worker["aktuatorski_pi"][w], a)' => Has(a, v)'
    BY <1>4, <2>1 DEF Concerned, Following, Works, Ahead
  <2> QED BY <1>2, <1>4, <2>1, <2>2, ObeysAfter
<1>5. ASSUME UNCHANGED dev
      PROVE  Has(a, v)' <=> Has(a, v)
  BY <1>3, <1>5 DEF Has
<1>6. CASE Split("aktuatorski_pi", w)
  <2>1. PICK m : m = callback["aktuatorski_pi"].mes
    OBVIOUS
  <2>2. PICK n : n = Branch(m)
    OBVIOUS
  <2>3. /\ r.pc = "start" /\ worker' = [worker EXCEPT !["aktuatorski_pi"][w] = n] /\ UNCHANGED <<dev, delivering>>
        /\ Received("aktuatorski_pi", [topic |-> callback["aktuatorski_pi"].topic, mes |-> m])
        /\ callback'["aktuatorski_pi"].topic = callback["aktuatorski_pi"].topic
    BY <1>1, <1>6, <2>1, <2>2 DEF Split, At, OneWorker, PiTypeOK, busVars
  <2>4. Concerned(r, a) <=> callback["aktuatorski_pi"].topic = Place[a]
    BY <2>3 DEF Concerned, Works
  <2>5. CASE callback["aktuatorski_pi"].topic \in OwnTopics
    <3>1. n.pc = "loop" /\ ~n.auto
      <4>1. m \in Sets
        BY <2>3, <2>5, ReceivedParts
      <4>2. n = [Idle EXCEPT !.pc = "loop", !.field = m.field, !.id = m.id, !.arg = m.value]
        BY <2>2, <4>1 DEF Branch, Sets
      <4> QED BY <4>2 DEF Idle
    <3>2. ~Concerned(r, a)
      BY <2>4, <2>5, RoomsAssumption DEF Devices
    <3>3. ~Concerned(n, a)'
      BY <3>1 DEF Concerned, Works
    <3> QED BY <1>2, <1>4, <1>5, <2>3, <3>2, <3>3
  <2>6. CASE callback["aktuatorski_pi"].topic \notin OwnTopics
    <3>1. m.type = "Sensor_Mes"
      BY <2>3, <2>6, ReceivedParts
    <3>2. n = [Idle EXCEPT !.pc = "topic", !.auto = TRUE, !.arg = m.value]
      BY <2>2, <3>1 DEF Branch
    <3>3. n.pc = "topic" /\ n.arg = m.value /\ n.i = 1
      BY <3>2 DEF Idle
    <3>4. Concerned(n, a)' <=> Concerned(r, a)
      BY <2>3, <2>4, <3>3 DEF Concerned, Works
    <3>5. Following(r, a, v) => m.value = v
      BY <2>1, <2>3 DEF Following, Works
    <3>6. Ahead(n, a)
      <4>1. PICK j \in 1..Len(ActuatorTable) : ActuatorTable[j] = a
        BY DEF Actuators, Image
      <4> QED BY <3>3, <4>1 DEF Ahead
    <3>7. Following(r, a, v) => Following(n, a, v)'
      BY <3>3, <3>5, <3>6 DEF Following, Ahead
    <3> QED BY <1>2, <1>4, <1>5, <2>3, <3>4, <3>7
  <2> QED BY <2>5, <2>6
<1>7. CASE SplitAgain("aktuatorski_pi", w)
  BY <1>1, <1>7 DEF SplitAgain, At, OneWorker
<1>8. CASE ReadTopic("aktuatorski_pi", w)
  <2>1. PICK n : n = [r EXCEPT !.topic = callback["aktuatorski_pi"].topic, !.pc = "loop"]
    OBVIOUS
  <2>2. /\ r.pc = "topic" /\ worker' = [worker EXCEPT !["aktuatorski_pi"][w] = n]
        /\ UNCHANGED <<dev, delivering, callback>>
    BY <1>1, <1>8, <2>1 DEF ReadTopic, At, busVars, PiTypeOK, WorkerStates
  <2>3. /\ n.pc = "loop" /\ n.topic = callback["aktuatorski_pi"].topic /\ n.auto /\ n.arg = r.arg /\ n.i = r.i
    BY <1>1, <2>1, <2>2 DEF WorkerStates, WorkerSound
  <2>4. Concerned(n, a)' <=> Concerned(r, a)
    BY <2>2, <2>3 DEF Concerned, Works
  <2>5. Concerned(r, a) /\ Following(r, a, v) => Following(n, a, v)'
    BY <2>2, <2>3 DEF Concerned, Following, Works, Ahead
  <2> QED BY <1>2, <1>4, <1>5, <2>2, <2>4, <2>5
<1>9. CASE Loop("aktuatorski_pi", w)
  <2>1. PICK n : n = IF Concerns(r, d) THEN [r EXCEPT !.pc = "write"] ELSE Advance("aktuatorski_pi", r)
    OBVIOUS
  <2>2. /\ r.pc = "loop" /\ worker' = [worker EXCEPT !["aktuatorski_pi"][w] = n]
        /\ UNCHANGED <<dev, delivering, callback>>
    BY <1>9, <2>1 DEF Loop, At, busVars
  <2>3. CASE Concerns(r, d)
    <3>1. n.pc = "write" /\ n.topic = r.topic /\ n.auto = r.auto /\ n.arg = r.arg /\ n.i = r.i
      BY <1>1, <2>1, <2>3 DEF WorkerStates
    <3>2. (Concerned(n, a)' <=> Concerned(r, a)) /\ (Following(r, a, v) => Following(n, a, v)')
      BY <1>5, <2>2, <3>1 DEF Concerned, Following, Works, Ahead
    <3> QED BY <1>2, <1>4, <1>5, <2>2, <3>2
  <2>4. CASE ~Concerns(r, d)
    <3>1. n = Advance("aktuatorski_pi", r)
      BY <2>1, <2>4
    <3>2. n.pc \in {"idle", "loop"} /\ (n.pc = "loop" => n.topic = r.topic /\ n.auto = r.auto /\ n.arg = r.arg)
      BY <1>1, <3>1 DEF WorkerStates, Advance, Idle
    <3>3. Concerned(n, a)' => Concerned(r, a)
      BY <2>2, <3>2 DEF Concerned, Works
    <3>4. CASE ~Concerned(r, a)
      BY <1>2, <1>4, <1>5, <2>2, <3>3, <3>4
    <3>5. CASE Concerned(r, a) /\ Has(a, v)
      <4>1. Concerned(n, a)' => Following(n, a, v)'
        BY <1>2, <1>5, <2>2, <3>2, <3>5 DEF Concerned, Following, Works
      <4> QED BY <1>4, <1>5, <2>2, <3>5, <4>1
    <3>6. CASE Concerned(r, a) /\ ~Has(a, v)
      <4>1. Works(r, a) /\ r.arg = v /\ Ahead(r, a)
        BY <1>2, <2>2, <3>6 DEF Following
      <4>2. d # a
        BY <1>1, <2>4, <3>6, <4>1 DEF Concerns, Works, Has
      <4>3. Ahead(n, a) /\ n = [r EXCEPT !.pc = "loop", !.i = @ + 1, !.out = NoText]
        BY <1>1, <2>2, <3>1, <4>1, <4>2, AdvanceAhead
      <4>4. n.pc = "loop"
        BY <1>1, <4>3 DEF WorkerStates
      <4>5. Concerned(n, a)' /\ Following(n, a, v)'
        BY <3>2, <4>1, <4>3, <4>4 DEF Concerned, Following, Works, Ahead
      <4> QED BY <1>4, <2>2, <4>5
    <3> QED BY <3>4, <3>5, <3>6
  <2> QED BY <2>3, <2>4
<1>10. CASE Write("aktuatorski_pi", w)
  <2>1. PICK n : n = [r EXCEPT !.pc = "format"]
    OBVIOUS
  <2>2. /\ r.pc = "write" /\ worker' = [worker EXCEPT !["aktuatorski_pi"][w] = n]
        /\ UNCHANGED <<delivering, callback>>
    BY <1>10, <2>1 DEF Write, At, busVars
  <2>3. n.pc = "format" /\ n.topic = r.topic /\ n.auto = r.auto /\ n.arg = r.arg /\ n.i = r.i
    BY <1>1, <2>1 DEF WorkerStates
  <2>4. (Concerned(n, a)' <=> Works(r, a)) /\ (Concerned(r, a) <=> Works(r, a))
    BY <2>2, <2>3 DEF Concerned, Works
  <2>5. /\ Works(r, a) => dev'[a].Value = IF d = a THEN Wanted(a, r.arg) ELSE dev[a].Value
        /\ ~Works(r, a) => dev'[a].Value = dev[a].Value
    BY <1>1, <1>10, WriteObeys
  <2>6. CASE ~Works(r, a)
    <3>1. Has(a, v)'
      BY <1>2, <1>3, <2>4, <2>5, <2>6 DEF Has
    <3> QED BY <1>4, <2>2, <2>4, <2>6, <3>1
  <2>7. CASE Works(r, a)
    <3>1. r.arg = v /\ (Ahead(r, a) \/ Has(a, v))
      BY <1>2, <2>2, <2>4, <2>7 DEF Following
    <3>2. CASE d = a
      <4>1. Has(a, v)'
        BY <1>3, <2>5, <2>7, <3>1, <3>2 DEF Has
      <4> QED BY <1>4, <2>2, <2>3, <2>4, <2>7, <3>1, <4>1 DEF Following, Works
    <3>3. CASE d # a
      <4>1. Has(a, v)' <=> Has(a, v)
        BY <1>3, <2>5, <2>7, <3>3 DEF Has
      <4>2. Ahead(r, a) => Ahead(n, a)
        <5>1. SUFFICES ASSUME NEW j \in 1..Len(ActuatorTable), ActuatorTable[j] = a, r.i <= j
                       PROVE  Ahead(n, a)
          BY DEF Ahead
        <5>2. r.i < j
          BY <1>1, <3>3, <5>1
        <5> QED BY <2>3, <5>1, <5>2 DEF Ahead
      <4>3. Following(n, a, v)'
        BY <2>3, <2>7, <3>1, <4>1, <4>2 DEF Following, Works, Ahead
      <4> QED BY <1>4, <2>2, <2>4, <2>7, <4>3
    <3> QED BY <3>2, <3>3
  <2> QED BY <2>6, <2>7
<1>11. CASE Format("aktuatorski_pi", w)
  <2>1. PICK n : n = [r EXCEPT !.out = dev[d][r.field], !.pc = "publish"]
    OBVIOUS
  <2>2. /\ r.pc = "format" /\ worker' = [worker EXCEPT !["aktuatorski_pi"][w] = n]
        /\ UNCHANGED <<delivering, callback, dev>>
    BY <1>11, <2>1 DEF Format, At, busVars
  <2>3. n.pc = "publish" /\ n.topic = r.topic /\ n.auto = r.auto /\ n.arg = r.arg /\ n.i = r.i
    BY <1>1, <2>1 DEF WorkerStates
  <2>4. (Concerned(n, a)' <=> Concerned(r, a)) /\ (Following(r, a, v) => Following(n, a, v)')
    BY <1>5, <2>2, <2>3 DEF Concerned, Following, Works, Ahead
  <2> QED BY <1>2, <1>4, <1>5, <2>2, <2>4
<1>12. CASE Report("aktuatorski_pi", w)
  <2>1. PICK n : n = Advance("aktuatorski_pi", r)
    OBVIOUS
  <2>2. /\ r.pc = "publish" /\ worker' = [worker EXCEPT !["aktuatorski_pi"][w] = n]
        /\ UNCHANGED <<delivering, callback, dev>>
    BY <1>12, <2>1 DEF Report, At, PublishOrExit, Publish
  <2>3. n.pc \in {"idle", "loop"} /\ (n.pc = "loop" => n.topic = r.topic /\ n.auto = r.auto /\ n.arg = r.arg)
    BY <1>1, <2>1 DEF WorkerStates, Advance, Idle
  <2>4. Concerned(n, a)' => Concerned(r, a)
    BY <2>2, <2>3 DEF Concerned, Works
  <2>5. CASE ~Concerned(r, a)
    BY <1>2, <1>4, <1>5, <2>2, <2>4, <2>5
  <2>6. CASE Concerned(r, a) /\ Has(a, v)
    <3>1. Concerned(n, a)' => Following(n, a, v)'
      BY <1>2, <1>5, <2>2, <2>3, <2>6 DEF Concerned, Following, Works
    <3> QED BY <1>4, <1>5, <2>2, <2>6, <3>1
  <2>7. CASE Concerned(r, a) /\ ~Has(a, v)
    <3>1. Works(r, a) /\ r.arg = v /\ Ahead(r, a)
      BY <1>2, <2>2, <2>7 DEF Following
    <3>2. Ahead(n, a) /\ n = [r EXCEPT !.pc = "loop", !.i = @ + 1, !.out = NoText]
      BY <1>1, <2>1, <2>2, <3>1, AdvanceAhead
    <3>3. n.pc = "loop"
      BY <1>1, <3>2 DEF WorkerStates
    <3>4. Concerned(n, a)' /\ Following(n, a, v)'
      BY <2>3, <3>1, <3>2, <3>3 DEF Concerned, Following, Works, Ahead
    <3> QED BY <1>4, <2>2, <3>4
  <2> QED BY <2>5, <2>6, <2>7
<1> QED BY <1>6, <1>7, <1>8, <1>9, <1>10, <1>11, <1>12 DEF Work

\* The callback of aktuatorski_pi takes a reading, and starts a worker with it.
LEMMA AutomatedCallback ==
  ASSUME Spaced, BusTypeOK, PiTypeOK, SpacedInv, NEW q \in Pis,
         CallbackTopic(q) \/ \E w \in Workers : CallbackMes(q, w), Follow,
         NEW s \in Sensors, NEW a \in Actuators, Automated(s, a)
  PROVE  Automated(s, a)'
<1>1. /\ "aktuatorski_pi" \in Pis /\ "aktuatorski_pi" \in Clients /\ "senzorski_pi" # "aktuatorski_pi"
      /\ q \in Clients /\ OneWorker("aktuatorski_pi") /\ inbox["aktuatorski_pi"] \in Seq(Packets)
  BY DEF Pis, Clients, SpacedInv, BusTypeOK
<1>2. UNCHANGED <<outbox, sensing, dev>>
  BY DEF CallbackTopic, CallbackMes
<1>3. CASE q # "aktuatorski_pi"
  <2>1. /\ worker'["aktuatorski_pi"] = worker["aktuatorski_pi"]
        /\ callback'["aktuatorski_pi"] = callback["aktuatorski_pi"]
        /\ delivering'["aktuatorski_pi"] = delivering["aktuatorski_pi"]
        /\ inbox'["aktuatorski_pi"] = inbox["aktuatorski_pi"]
    BY <1>1, <1>3 DEF CallbackTopic, CallbackMes, BusTypeOK, PiTypeOK
  <2>2. Obeys(a, dev[s].Value) => Obeys(a, dev[s].Value)'
    <3>1. PICK v : v = dev[s].Value
      OBVIOUS
    <3>2. Obeys(a, v) => Obeys(a, v)'
      BY <1>2, <2>1, ObeysKept
    <3> QED BY <1>2, <3>1, <3>2
  <2> QED BY <1>2, <2>1, <2>2, AutomatedQuiet
<1>4. CASE q = "aktuatorski_pi" /\ \E w \in Workers : CallbackMes(q, w)
  <2>1. PICK w \in Workers : CallbackMes("aktuatorski_pi", w)
    BY <1>4
  <2>2. PICK n : n = [worker["aktuatorski_pi"][w] EXCEPT !.pc = "start"]
    OBVIOUS
  <2>3. /\ n.pc = "start" /\ worker' = [worker EXCEPT !["aktuatorski_pi"][w] = n] /\ inbox' = inbox
        /\ delivering["aktuatorski_pi"] # NoPacket
    BY <1>1, <2>1, <2>2 DEF CallbackMes, PiTypeOK, WorkerOK, WorkerStates
  <2>4. /\ \A u \in Workers : worker["aktuatorski_pi"][u].pc = "idle"
        /\ callback["aktuatorski_pi"].topic = delivering["aktuatorski_pi"].topic
    BY <1>1, <2>3 DEF OneWorker
  <2>5. /\ worker'["aktuatorski_pi"][w] = n /\ \A u \in Workers : u # w => worker'["aktuatorski_pi"][u].pc = "idle"
        /\ delivering'["aktuatorski_pi"] = NoPacket
        /\ callback'["aktuatorski_pi"].topic = delivering["aktuatorski_pi"].topic
        /\ callback'["aktuatorski_pi"].mes = delivering["aktuatorski_pi"].mes
    BY <1>1, <2>1, <2>3, <2>4 DEF CallbackMes, BusTypeOK, PiTypeOK
  <2>6. ASSUME NEW v, Obeys(a, v)
        PROVE  Obeys(a, v)'
    <3>1. CASE Delivers(a)
      <4>1. delivering["aktuatorski_pi"].mes.value = v /\ delivering["aktuatorski_pi"].topic = Place[a]
        BY <2>6, <3>1 DEF Obeys, Delivers
      <4>2. /\ Concerned(worker["aktuatorski_pi"][w], a)'
            /\ Following(worker["aktuatorski_pi"][w], a, v)'
        BY <2>3, <2>5, <4>1 DEF Concerned, Following
      <4> QED BY <2>5, <4>2, ObeysAfter
    <3>2. CASE ~Delivers(a)
      <4>1. \A u \in Workers : ~Concerned(worker["aktuatorski_pi"][u], a)
        BY <2>4 DEF Concerned, Works
      <4>2. Has(a, v)
        BY <2>6, <3>2, <4>1 DEF Obeys
      <4>3. Has(a, v)'
        BY <1>2, <4>2 DEF Has, Wanted, Number
      <4>4. ~Concerned(worker["aktuatorski_pi"][w], a)'
        BY <2>3, <2>5, <3>2 DEF Concerned, Works, Delivers
      <4> QED BY <2>5, <4>3, <4>4, ObeysAfter
    <3> QED BY <3>1, <3>2
  <2>7. Obeys(a, dev[s].Value) => Obeys(a, dev[s].Value)'
    <3>1. PICK v : v = dev[s].Value
      OBVIOUS
    <3>2. Obeys(a, v) => Obeys(a, v)'
      BY <2>6
    <3> QED BY <1>2, <3>1, <3>2
  <2> QED BY <1>2, <2>3, <2>7, AutomatedQuiet
<1>5. CASE q = "aktuatorski_pi" /\ CallbackTopic(q)
  <2>1. PICK x : x = Head(inbox["aktuatorski_pi"])
    OBVIOUS
  <2>2. /\ inbox["aktuatorski_pi"] # <<>> /\ inbox'["aktuatorski_pi"] = Tail(inbox["aktuatorski_pi"])
        /\ delivering'["aktuatorski_pi"] = x /\ delivering["aktuatorski_pi"] = NoPacket
        /\ \A u \in Workers : worker["aktuatorski_pi"][u].pc = "idle"
        /\ worker' = worker
    BY <1>1, <1>5, <2>1 DEF CallbackTopic, Arrived, Unlocked, WorkersIdle, Busy, BusTypeOK
  <2>3. x \in Packets /\ x # NoPacket
    <3>1. x \in Packets
      BY <1>1, <2>1, <2>2, TailAt
    <3>2. DOMAIN NoPacket = {"topic"} /\ DOMAIN x = {"topic", "mes"}
      BY <3>1 DEF NoPacket, Packets
    <3> QED BY <3>1, <3>2
  <2>4. \A u \in Workers : ~Concerned(worker["aktuatorski_pi"][u], a) /\ ~Concerned(worker["aktuatorski_pi"][u], a)'
    BY <2>2 DEF Concerned, Works
  <2>5. SUFFICES ASSUME a \notin unaware, ~Due(s) PROVE Automated(s, a)'
    <3>1. Heard = {}
      BY <1>2, ToldNothing
    <3> QED BY <1>2, <3>1 DEF Automated, Follow, Due, Sensed
  <2>6. PICK b \in BOOLEAN, c \in BOOLEAN : b = Obeys(a, dev[s].Value) /\ c = Obeys(a, dev[s].Value)'
    <3>1. Obeys(a, dev[s].Value) \in BOOLEAN /\ Obeys(a, dev[s].Value)' \in BOOLEAN
      BY DEF Obeys, Has
    <3> QED BY <3>1
  <2>7. Through(outbox["senzorski_pi"], inbox["aktuatorski_pi"], ReadingsOf(a), dev[s].Value, b)
    BY <2>5, <2>6 DEF Automated
  <2>8. x \in ReadingsOf(a) /\ x.mes.value = dev[s].Value => c
    BY <1>2, <2>2, <2>3, <2>6 DEF Obeys, Delivers, ReadingsOf
  <2>9. x \notin ReadingsOf(a) /\ b => c
    <3>1. SUFFICES ASSUME x \notin ReadingsOf(a), b PROVE c
      OBVIOUS
    <3>2. ~Delivers(a) /\ ~Delivers(a)'
      BY <2>2, <2>3, <3>1 DEF Delivers, ReadingsOf
    <3>3. Has(a, dev[s].Value)
      BY <2>4, <2>6, <3>1, <3>2 DEF Obeys
    <3>4. Has(a, dev[s].Value)'
      BY <1>2, <3>3 DEF Has, Wanted, Number
    <3> QED BY <2>4, <2>6, <3>2, <3>4 DEF Obeys
  <2>10. Through(outbox["senzorski_pi"], Tail(inbox["aktuatorski_pi"]), ReadingsOf(a), dev[s].Value, c)
    BY <1>1, <2>1, <2>2, <2>7, <2>8, <2>9, ThroughTake
  <2> QED BY <1>2, <2>2, <2>6, <2>10 DEF Automated, ReadingsOf
<1> QED BY <1>3, <1>4, <1>5

\* What no thread of a pi writes keeps its value: the sensors under the workers.
LEMMA WorkWrites ==
  ASSUME PiTypeOK, NEW q \in Pis, NEW w \in Workers, Work(q, w), WorkerSound(q, worker[q][w])
  PROVE  /\ \A s \in Sensors : dev'[s].Value = dev[s].Value
         /\ q = "senzorski_pi" => \A d \in Devices : dev'[d].Value = dev[d].Value
<1> DEFINE r == worker[q][w]
           d == Visited(q, r)
<1>1. /\ r \in WorkerStates(q) /\ d \in Owned(q) /\ d \in Devices /\ Sensors \subseteq Devices
      /\ r.field \in Fields /\ "Value" \in Fields
  BY TablesApart DEF PiTypeOK, WorkerOK, WorkerStates, Devices, Fields
<1>2. CASE Write(q, w)
  <2>1. PICK v : dev' = [dev EXCEPT ![d][r.field] = v]
    BY <1>2 DEF Write, WriteField
  <2>2. \A e \in Devices : e # d \/ r.field # "Value" => dev'[e].Value = dev[e].Value
    BY <1>1, <2>1 DEF PiTypeOK
  <2>3. q = "senzorski_pi" => r.field = "Info"
    BY <1>2 DEF Write, At, WorkerSound
  <2>4. q # "senzorski_pi" => d \notin Sensors
    BY <1>1, TablesApart DEF Pis
  <2> QED BY <1>1, <2>2, <2>3, <2>4
<1>3. CASE ~Write(q, w)
  BY <1>3 DEF Work, Split, SplitAgain, ReadTopic, Loop, Format, Report
<1> QED BY <1>2, <1>3

LEMMA AutomatedWork ==
  ASSUME NoStatusSet, BusTypeOK, PiTypeOK, SpacedInv, NEW q \in Pis, NEW w \in Workers, Work(q, w), Follow,
         NEW s \in Sensors, NEW a \in Actuators, Automated(s, a)
  PROVE  Automated(s, a)'
<1>1. /\ "aktuatorski_pi" \in Pis /\ "senzorski_pi" # "aktuatorski_pi" /\ a \in Devices
      /\ WorkerSound(q, worker[q][w]) /\ worker[q][w] \in WorkerStates(q)
  BY DEF Pis, SpacedInv, OneWorker, Devices, PiTypeOK, WorkerOK
<1>2. dev'[s].Value = dev[s].Value /\ (q = "senzorski_pi" => dev'[a].Value = dev[a].Value)
  BY <1>1, WorkWrites
<1>3. ASSUME NEW v, Obeys(a, v)
      PROVE  Obeys(a, v)'
  <2>1. CASE q = "aktuatorski_pi"
    BY <1>3, <2>1, ObeysWork
  <2>2. CASE q # "aktuatorski_pi"
    <3>1. q = "senzorski_pi"
      BY <2>2 DEF Pis
    <3>2. /\ worker'["aktuatorski_pi"] = worker["aktuatorski_pi"]
          /\ callback'["aktuatorski_pi"] = callback["aktuatorski_pi"]
          /\ delivering' = delivering
      BY <1>1, <2>2 DEF Work, Split, SplitAgain, ReadTopic, Loop, Write, Format, Report, PublishOrExit, Publish,
                        busVars, PiTypeOK
    <3> QED BY <1>2, <1>3, <3>1, <3>2, ObeysKept
  <2> QED BY <2>1, <2>2
<1>4. Obeys(a, dev[s].Value) => Obeys(a, dev[s].Value)'
  <2>1. PICK v : v = dev[s].Value
    OBVIOUS
  <2>2. Obeys(a, v) => Obeys(a, v)'
    BY <1>3
  <2> QED BY <1>2, <2>1, <2>2
<1>5. UNCHANGED sensing
  BY DEF Work, Split, SplitAgain, ReadTopic, Loop, Write, Format, Report
<1>6. CASE Report(q, w)
  <2>1. PICK m : m = PropertyChanged(Visited(q, worker[q][w]), worker[q][w].field, worker[q][w].out)
    OBVIOUS
  <2>2. m.type = "PropertyChanged" /\ PublishOrExit(q, ControlerTopic, m) /\ worker[q][w].pc = "publish"
    BY <1>6, <2>1 DEF Report, PropertyChanged, At
  <2>3. m \in Messages
    BY <1>1, <2>1, <2>2, MessageTypes, VisitedTypes DEF WorkerStates, PiTypeOK, WorkerOK
  <2>4. Due(s) => Due(s)'
    BY <1>5 DEF Due, Sensed
  <2> QED BY <1>2, <1>4, <2>2, <2>3, <2>4, AutomatedReport
<1>7. CASE ~Report(q, w)
  <2>1. UNCHANGED <<outbox, inbox>>
    BY <1>7 DEF Work, Split, SplitAgain, ReadTopic, Loop, Write, Format, busVars
  <2> QED BY <1>2, <1>4, <1>5, <2>1, AutomatedQuiet
<1> QED BY <1>6, <1>7

\* The sensor thread publishes the new value; the last one of a room is the one that counts.
LEMMA AutomatedSensing ==
  ASSUME OneSensorPerRoom, BusTypeOK, PiTypeOK, SensorReport \/ SensorPublish \/ NewReading, Follow,
         subscribed["aktuatorski_pi"], Running("senzorski_pi")',
         NEW s \in Sensors, NEW a \in Actuators, Place[s] = Place[a], Automated(s, a)
  PROVE  Automated(s, a)'
<1>1. /\ Sensed \in Sensors /\ Sensed \in Devices /\ s \in Devices /\ a \in Devices /\ a # Sensed
      /\ "senzorski_pi" \in Pis /\ "senzorski_pi" \in Clients /\ "Value" \in Fields
      /\ dev[Sensed].Value \in Texts /\ "aktuatorski_pi" \in Clients
      /\ sensing \in [pc : {"read", "change", "mes"}, i : 1..Len(SensorTable)]
  BY TablesApart, VisitedTypes, TablesAssumption DEF PiTypeOK, Pis, Clients, Fields, Devices
<1>2. /\ UNCHANGED <<worker, callback, delivering>>
      /\ dev'[a].Value = dev[a].Value /\ (s # Sensed => dev'[s].Value = dev[s].Value)
  <2>1. CASE NewReading
    BY <1>1, <2>1 DEF NewReading, Sense, WriteField, busVars, PiTypeOK
  <2>2. CASE SensorReport \/ SensorPublish
    BY <2>2 DEF SensorReport, SensorPublish, PublishOrExit, Publish
  <2> QED BY <2>1, <2>2
<1>3. Obeys(a, dev[s].Value) => Obeys(a, dev[s].Value)' \/ dev'[s].Value # dev[s].Value
  <2>1. PICK v : v = dev[s].Value
    OBVIOUS
  <2>2. Obeys(a, v) => Obeys(a, v)'
    BY <1>2, ObeysKept
  <2> QED BY <2>1, <2>2
<1>4. CASE SensorReport
  <2>1. PICK m : m = PropertyChanged(Sensed, "Value", dev[Sensed].Value)
    OBVIOUS
  <2>2. /\ m.type = "PropertyChanged" /\ m \in Messages /\ PublishOrExit("senzorski_pi", ControlerTopic, m)
        /\ dev' = dev /\ sensing'.pc = "mes" /\ sensing'.i = sensing.i
    BY <1>1, <1>4, <2>1, MessageTypes DEF SensorReport, PropertyChanged
  <2>3. Due(s) => Due(s)'
    BY <2>2 DEF Due, Sensed
  <2> QED BY <1>1, <1>3, <2>2, <2>3, AutomatedReport
<1>5. CASE SensorPublish
  <2>1. PICK x : x = [topic |-> Place[Sensed], mes |-> SensorMes(dev[Sensed].Value)]
    OBVIOUS
  <2>2. /\ x \in Packets /\ x.topic = Place[Sensed] /\ x.mes.value = dev[Sensed].Value
        /\ outbox["senzorski_pi"] \in Seq(Packets) /\ inbox["aktuatorski_pi"] \in Seq(Packets)
    BY <1>1, <2>1, MessageTypes, TableTypes DEF Packets, SensorMes, BusTypeOK
  <2>3. /\ inbox' = inbox /\ dev' = dev /\ sensing.pc = "mes"
        /\ outbox'["senzorski_pi"] = Append(outbox["senzorski_pi"], x)
        /\ \A p \in Pis : \/ outbox'[p] = outbox[p]
                          \/ p = "senzorski_pi" /\ outbox'[p] = Append(outbox[p], x)
    BY <1>1, <1>5, <2>1, PublishQueues DEF SensorPublish, PublishOrExit, Running, Pis, Clients
  <2>4. CASE s = Sensed
    <3>1. x \in ReadingsOf(a) /\ x.mes.value = dev[s].Value
      BY <2>2, <2>4 DEF ReadingsOf
    <3>2. PICK c \in BOOLEAN : c = Obeys(a, dev[s].Value)'
      BY DEF Obeys, Has
    <3>3. Through(Append(outbox["senzorski_pi"], x), inbox["aktuatorski_pi"], ReadingsOf(a), dev[s].Value, c)
      BY <2>2, <3>1, ThroughPut
    <3> QED BY <2>3, <3>2, <3>3 DEF Automated, ReadingsOf
  <2>5. CASE s # Sensed
    <3>1. Place[Sensed] # Place[a]
      BY <1>1, <2>5 DEF OneSensorPerRoom
    <3>2. x \notin ReadingsOf(a) /\ a \notin Heard
      BY <2>2, <2>3, <1>1, <3>1, ToldOne DEF ReadingsOf
    <3>3. a \in unaware => a \in unaware'
      BY <3>2 DEF Follow
    <3>4. ~Due(s)
      BY <2>5 DEF Due
    <3> QED BY <1>3, <2>2, <2>3, <3>2, <3>3, <3>4, AutomatedKept
  <2> QED BY <2>4, <2>5
<1>6. CASE NewReading
  <2>1. PICK v \in Readings : Sense(v)
    BY <1>6 DEF NewReading
  <2>2. /\ UNCHANGED <<outbox, inbox>> /\ sensing.pc = "read"
        /\ sensing'.pc \in {"change", "mes"} /\ sensing'.i = sensing.i
    BY <1>1, <2>1 DEF Sense, busVars
  <2>3. Heard = {} /\ ~Due(s)
    BY <2>2, ToldNothing DEF Due
  <2>4. s = Sensed => Due(s)'
    BY <2>2 DEF Due, Sensed
  <2>5. a \in unaware => a \in unaware'
    BY <2>3 DEF Follow
  <2> QED BY <1>2, <1>3, <2>2, <2>3, <2>4, <2>5, AutomatedKept
<1> QED BY <1>4, <1>5, <1>6

\* The broker takes a packet from a program.
LEMMA AutomatedSend ==
  ASSUME BusTypeOK, SpacedInv, NEW c \in Clients, Send(c), UNCHANGED piVars, Follow,
         subscribed["aktuatorski_pi"], up["aktuatorski_pi"],
         NEW s \in Sensors, NEW a \in Actuators, Automated(s, a)
  PROVE  Automated(s, a)'
<1>1. PICK x : x = Head(outbox[c])
  OBVIOUS
<1>2. /\ outbox[c] \in Seq(Packets) /\ outbox[c] # <<>> /\ x \in Packets /\ SentBy(c, x)
      /\ outbox' = [outbox EXCEPT ![c] = Tail(@)] /\ inbox["aktuatorski_pi"] \in Seq(Packets)
      /\ outbox["senzorski_pi"] \in Seq(Packets) /\ a \in Devices
      /\ "senzorski_pi" \in Clients /\ "aktuatorski_pi" \in Clients
  <2>1. "senzorski_pi" \in Clients /\ "aktuatorski_pi" \in Clients /\ a \in Devices
    BY DEF Clients, Pis, Devices
  <2>2. /\ outbox[c] \in Seq(Packets) /\ inbox["aktuatorski_pi"] \in Seq(Packets)
        /\ outbox["senzorski_pi"] \in Seq(Packets)
    BY <2>1 DEF BusTypeOK
  <2>3. outbox[c] # <<>> /\ outbox' = [outbox EXCEPT ![c] = Tail(@)]
    BY DEF Send
  <2>4. x \in Packets /\ SentBy(c, x)
    <3>1. x = outbox[c][1] /\ 1 \in DOMAIN outbox[c] /\ x \in Packets
      BY <1>1, <2>2, <2>3, TailAt
    <3> QED BY <3>1 DEF SpacedInv, PacketsSound
  <2> QED BY <2>1, <2>2, <2>3, <2>4
<1>3. inbox'["aktuatorski_pi"] = IF x.topic \in Subscriptions("aktuatorski_pi")
                                 THEN Append(inbox["aktuatorski_pi"], x) ELSE inbox["aktuatorski_pi"]
  BY <1>1, <1>2 DEF Send
<1>4. Heard = {}
  <2>1. \A q \in Pis : \/ outbox'[q] = outbox[q]
                       \/ outbox[q] # <<>> /\ outbox'[q] = Tail(outbox[q])
    BY <1>2 DEF BusTypeOK, Clients
  <2> QED BY <2>1, ToldNothing
<1>5. SUFFICES ASSUME a \notin unaware, ~Due(s) PROVE Automated(s, a)'
  BY <1>4 DEF Automated, Follow, Due, Sensed, piVars
<1>6. PICK b \in BOOLEAN : b = Obeys(a, dev[s].Value) /\ b = Obeys(a, dev[s].Value)'
  <2>1. UNCHANGED <<delivering, worker, callback, dev>>
    BY DEF Send, piVars
  <2> QED BY <2>1, ObeysSame
<1>7. Through(outbox["senzorski_pi"], inbox["aktuatorski_pi"], ReadingsOf(a), dev[s].Value, b) /\ dev' = dev
  BY <1>5, <1>6 DEF Automated, piVars
<1>8. x \in ReadingsOf(a) => c = "senzorski_pi" /\ x.topic \in Subscriptions("aktuatorski_pi")
  <2>1. SUFFICES ASSUME x \in ReadingsOf(a)
                 PROVE  c = "senzorski_pi" /\ x.topic \in Subscriptions("aktuatorski_pi")
    OBVIOUS
  <2>2. x.topic = Place[a] /\ x.topic \notin OwnTopics
    BY <1>2, <2>1, RoomsAssumption DEF ReadingsOf
  <2>3. Subscriptions("aktuatorski_pi") = {Place[d] : d \in Actuators} \cup {InfoTopic, FuncTopic}
    BY DEF Subscriptions
  <2>4. c = "senzorski_pi"
    BY <1>2, <2>2 DEF SentBy, Clients, OwnTopics
  <2> QED BY <2>2, <2>3, <2>4
<1>9. Through(outbox'["senzorski_pi"], inbox'["aktuatorski_pi"], ReadingsOf(a), dev[s].Value, b)
  <2>1. CASE c = "senzorski_pi" /\ x.topic \in Subscriptions("aktuatorski_pi")
    BY <1>1, <1>2, <1>3, <1>7, <2>1, ThroughSend DEF BusTypeOK
  <2>2. CASE c = "senzorski_pi" /\ x.topic \notin Subscriptions("aktuatorski_pi")
    BY <1>1, <1>2, <1>3, <1>7, <1>8, <2>2, ThroughDrop DEF BusTypeOK
  <2>3. CASE c # "senzorski_pi"
    <3>1. x \notin ReadingsOf(a) /\ outbox'["senzorski_pi"] = outbox["senzorski_pi"]
      BY <1>2, <1>8, <2>3 DEF BusTypeOK
    <3> QED BY <1>2, <1>3, <1>7, <3>1, ThroughPut
  <2> QED BY <2>1, <2>2, <2>3
<1> QED BY <1>6, <1>7, <1>9 DEF Automated, ReadingsOf

\* The other programs, and a subscription.
LEMMA AutomatedOthers ==
  ASSUME Spaced, BusTypeOK, UNCHANGED piVars, Follow,
         KontrolerNext \/ NewCommand \/ Display \/ \E c \in Clients : Subscribe(c),
         NEW s \in Sensors, NEW a \in Actuators, Automated(s, a)
  PROVE  Automated(s, a)'
<1>1. /\ Kontroler \in Clients /\ Cli \in Clients /\ Kontroler \notin Pis /\ Cli \notin Pis
      /\ Pis \subseteq Clients /\ "aktuatorski_pi" \in Pis
  BY DEF Clients, Pis, Kontroler, Cli
<1>2. ASSUME NEW c \in {Kontroler, Cli}, NEW t, NEW m, Publish(c, t, m)
      PROVE  UNCHANGED <<inbox, delivering>> /\ \A q \in Pis : outbox'[q] = outbox[q]
  BY <1>1, <1>2, PublishQueues
<1>3. /\ \A q \in Pis : outbox'[q] = outbox[q]
      /\ inbox'["aktuatorski_pi"] = inbox["aktuatorski_pi"]
      /\ delivering'["aktuatorski_pi"] = delivering["aktuatorski_pi"]
  <2>1. CASE Display
    BY <1>1, <2>1 DEF Display, BusTypeOK
  <2>2. CASE NewCommand
    BY <1>2, <2>2 DEF NewCommand, Command
  <2>3. ASSUME NEW w \in Workers, Callback(w)
        PROVE  /\ outbox' = outbox /\ inbox'["aktuatorski_pi"] = inbox["aktuatorski_pi"]
               /\ delivering' = delivering
    BY <1>1, <2>3 DEF Callback, BusTypeOK
  <2>4. ASSUME NEW w \in Workers, Run(w)
        PROVE  UNCHANGED <<inbox, delivering>> /\ \A q \in Pis : outbox'[q] = outbox[q]
    BY <1>2, <2>4 DEF Run, NoDevice, Distribute, ReadDevice, Answer, Acknowledge, Reread, Forward, Apply, busVars
  <2>5. ASSUME NEW c \in Clients, Subscribe(c)
        PROVE  UNCHANGED <<inbox, outbox, delivering>>
    BY <2>5 DEF Subscribe
  <2> QED BY <2>1, <2>2, <2>3, <2>4, <2>5, Apart DEF KontrolerNext
<1>4. UNCHANGED <<dev, worker, callback, sensing>>
  BY DEF piVars
<1>5. Obeys(a, dev[s].Value) => Obeys(a, dev[s].Value)'
  <2>1. PICK v : v = dev[s].Value
    OBVIOUS
  <2>2. Obeys(a, v) => Obeys(a, v)'
    BY <1>3, <1>4, ObeysKept
  <2> QED BY <1>4, <2>1, <2>2
<1> QED BY <1>3, <1>4, <1>5, AutomatedQuiet

\* The steps that are no fault.
LEMMA AutomationStep ==
  ASSUME Spaced, OneSensorPerRoom, NoStatusSet, TypeOK, SpacedInv, AutomationInv, Step, Follow
  PROVE  AutomationInv'
<1>1. /\ Pis \subseteq Clients /\ BusTypeOK /\ PiTypeOK /\ HistoryTypeOK
      /\ "senzorski_pi" \in Clients /\ "aktuatorski_pi" \in Clients
      /\ \A q \in Pis, w \in Workers : WorkerSound(q, worker[q][w])
  BY DEF Clients, Pis, TypeOK, SpacedInv, OneWorker
<1>2. \A s \in Sensors : dev'[s].Value \in Readings
  <2>1. SUFFICES ASSUME NEW s \in Sensors PROVE dev'[s].Value \in Readings
    OBVIOUS
  <2>2. dev[s].Value \in Readings /\ s \in Devices /\ "Value" \in Fields /\ Sensed \in Devices
    BY <1>1, TablesApart DEF AutomationInv, Devices, Fields
  <2>3. ASSUME NEW v \in Readings, Sense(v)
        PROVE  dev'[s].Value \in Readings
    <3>1. dev' = dev \/ dev' = [dev EXCEPT ![Sensed]["Value"] = v]
      BY <2>3 DEF Sense, WriteField
    <3>2. dev'[s].Value = dev[s].Value \/ dev'[s].Value = v
      BY <1>1, <2>2, <3>1 DEF PiTypeOK
    <3> QED BY <2>2, <3>2
  <2>4. CASE UNCHANGED dev
    BY <2>2, <2>4
  <2>5. ASSUME NEW q \in Pis, NEW w \in Workers, Work(q, w)
        PROVE  dev'[s].Value \in Readings
    BY <1>1, <2>2, <2>5, WorkWrites
  <2>6. CASE (PiStep \/ NewReading) /\ UNCHANGED <<kontrolerVars, pending>>
    BY <2>3, <2>4, <2>5, <2>6 DEF PiStep, NewReading, CallbackTopic, CallbackMes, SensorReport, SensorPublish
  <2> QED BY <2>4, <2>6 DEF Step, piVars
<1>3. /\ unaware \subseteq Actuators
      /\ ~subscribed["aktuatorski_pi"] /\ Actuators \subseteq unaware => Actuators \subseteq unaware'
  BY <1>1 DEF Follow, HistoryTypeOK
<1>4. ~subscribed'["aktuatorski_pi"] => error'["aktuatorski_pi"] = "socket" \/ Actuators \subseteq unaware'
  BY <1>1, <1>3, StepKeeps DEF AutomationInv
<1>5. SUFFICES ASSUME Running("senzorski_pi")', Running("aktuatorski_pi")',
                      NEW s \in Sensors, NEW a \in Actuators, Place[s] = Place[a]
               PROVE  Automated(s, a)'
  BY <1>2, <1>4 DEF AutomationInv
<1>6. Automated(s, a) /\ Running("aktuatorski_pi")
  BY <1>1, <1>5, StepKeeps DEF AutomationInv
<1>7. CASE ~subscribed["aktuatorski_pi"]
  <2>1. a \in unaware'
    BY <1>3, <1>6, <1>7 DEF AutomationInv, Running
  <2> QED BY <2>1 DEF Automated
<1>8. CASE subscribed["aktuatorski_pi"]
  <2>1. CASE \E c \in Clients : BusStep(c) /\ UNCHANGED <<piVars, kontrolerVars, pending>>
    BY <1>1, <1>5, <1>6, <1>8, <2>1, AutomatedSend, AutomatedOthers DEF BusStep, Running
  <2>2. CASE PiStep \/ NewReading
    BY <1>1, <1>5, <1>6, <1>8, <2>2, AutomatedCallback, AutomatedWork, AutomatedSensing DEF PiStep
  <2>3. CASE (KontrolerNext \/ NewCommand \/ Display) /\ UNCHANGED piVars
    BY <1>1, <1>5, <1>6, <2>3, AutomatedOthers
  <2> QED BY <2>1, <2>2, <2>3 DEF Step
<1> QED BY <1>7, <1>8

\* A restart of a pi leaves its rooms to the next reading.
LEMMA AutomationFault ==
  ASSUME InitialAgrees, TypeOK, AutomationInv, Fault
  PROVE  AutomationInv'
<1>1. /\ Pis \subseteq Clients /\ BusTypeOK /\ HistoryTypeOK /\ PiTypeOK
      /\ "senzorski_pi" \in Clients /\ "aktuatorski_pi" \in Clients /\ Kontroler \notin Pis
      /\ "senzorski_pi" # "aktuatorski_pi" /\ "senzorski_pi" \in Pis /\ "aktuatorski_pi" \in Pis
      /\ Owned("senzorski_pi") = Sensors /\ Owned("aktuatorski_pi") = Actuators
      /\ Sensors \cap Actuators = {} /\ Sensors \subseteq Devices /\ Actuators \subseteq Devices
  BY TablesApart, TablesAssumption DEF Clients, Pis, Kontroler, TypeOK, Devices
<1>2. ASSUME NEW c \in Clients \ Pis, UNCHANGED <<piVars, unaware>>,
             \A p \in Pis : /\ outbox'[p] = outbox[p] /\ inbox'[p] = inbox[p] /\ error'[p] = error[p]
                            /\ up'[p] = up[p] /\ subscribed'[p] = subscribed[p] /\ delivering'[p] = delivering[p]
      PROVE  AutomationInv'
  <2>1. Running("senzorski_pi")' = Running("senzorski_pi") /\ Running("aktuatorski_pi")' = Running("aktuatorski_pi")
    BY <1>1, <1>2 DEF Running
  <2>2. ASSUME NEW s \in Sensors, NEW a \in Actuators, Automated(s, a)
        PROVE  Automated(s, a)'
    <3>1. dev' = dev /\ UNCHANGED <<sensing, worker, callback>>
      BY <1>2 DEF piVars
    <3>2. PICK v : v = dev[s].Value
      OBVIOUS
    <3>3. Obeys(a, v) => Obeys(a, v)'
      BY <1>1, <1>2, <3>1, ObeysKept
    <3>4. Due(s) => Due(s)'
      BY <3>1 DEF Due, Sensed
    <3> QED BY <1>1, <1>2, <2>2, <3>1, <3>2, <3>3, <3>4, AutomatedKept
  <2> QED BY <1>1, <1>2, <2>1, <2>2 DEF AutomationInv, piVars
<1>3. ASSUME NEW c \in Clients, Break(c)
      PROVE  AutomationInv'
  <2>1. /\ error' = [error EXCEPT ![c] = "socket"] /\ inbox' = [inbox EXCEPT ![c] = <<>>]
        /\ subscribed' = [subscribed EXCEPT ![c] = FALSE]
        /\ UNCHANGED <<outbox, up, delivering, piVars, unaware>>
    BY <1>3 DEF Break, Disconnect
  <2>2. CASE c \in Pis
    <3>1. ~Running(c)' /\ c \in {"senzorski_pi", "aktuatorski_pi"}
      BY <1>1, <2>1, <2>2 DEF Running, BusTypeOK, Pis
    <3>2. ~subscribed'["aktuatorski_pi"] => error'["aktuatorski_pi"] = "socket" \/ Actuators \subseteq unaware'
      BY <1>1, <2>1 DEF AutomationInv, BusTypeOK
    <3> QED BY <2>1, <3>1, <3>2 DEF AutomationInv, piVars
  <2>3. CASE c \notin Pis
    BY <1>1, <1>2, <2>1, <2>3 DEF BusTypeOK
  <2> QED BY <2>2, <2>3
<1>4. CASE RestartKontroler /\ UNCHANGED <<piVars, pending>> /\ UNCHANGED unaware
  <2>1. Kontroler \in Clients \ Pis
    BY <1>1 DEF Clients
  <2> QED BY <1>1, <1>2, <1>4, <2>1 DEF RestartKontroler, Reboot, BusTypeOK
<1>5. ASSUME NEW c \in Pis, RestartPi(c),
             unaware' = unaware \cup {a \in Actuators : \E d \in Owned(c) : Place[d] = Place[a]}
      PROVE  AutomationInv'
  <2>1. \A s \in Sensors : dev'[s].Value \in Readings
    BY <1>1, <1>5 DEF RestartPi, AutomationInv, InitialAgrees
  <2>2. \A s \in Sensors, a \in Actuators : Place[s] = Place[a] => a \in unaware'
    <3>1. CASE c = "senzorski_pi"
      BY <1>1, <1>5, <3>1
    <3>2. CASE c = "aktuatorski_pi"
      BY <1>1, <1>5, <3>2
    <3> QED BY <3>1, <3>2 DEF Pis
  <2>3. ~subscribed'["aktuatorski_pi"] => error'["aktuatorski_pi"] = "socket" \/ Actuators \subseteq unaware'
    <3>1. CASE c = "senzorski_pi"
      BY <1>1, <1>5, <3>1 DEF AutomationInv, RestartPi, Reboot, BusTypeOK
    <3>2. CASE c = "aktuatorski_pi"
      BY <1>1, <1>5, <3>2
    <3> QED BY <3>1, <3>2 DEF Pis
  <2> QED BY <2>1, <2>2, <2>3 DEF AutomationInv, Automated
<1> QED BY <1>3, <1>4, <1>5 DEF Fault, Restart

LEMMA AutomationNext ==
  /\ Spaced /\ OneSensorPerRoom /\ NoStatusSet /\ InitialAgrees
  /\ TypeOK /\ SpacedInv /\ AutomationInv /\ [Next]_vars
  => AutomationInv'
<1> SUFFICES ASSUME Spaced, OneSensorPerRoom, NoStatusSet, InitialAgrees, TypeOK, SpacedInv, AutomationInv,
                    [Next]_vars
             PROVE  AutomationInv'
  OBVIOUS
<1>1. CASE UNCHANGED vars
  <2>1. UNCHANGED <<outbox, inbox, error, up, subscribed, delivering, dev, callback, worker, sensing, unaware>>
    BY <1>1 DEF vars, busVars, piVars, history
  <2>2. Running("senzorski_pi")' = Running("senzorski_pi") /\ Running("aktuatorski_pi")' = Running("aktuatorski_pi")
    BY <2>1 DEF Running
  <2>3. ASSUME NEW s \in Sensors, NEW a \in Actuators, Automated(s, a)
        PROVE  Automated(s, a)'
    <3>1. PICK b \in BOOLEAN : b = Obeys(a, dev[s].Value) /\ b = Obeys(a, dev[s].Value)'
      BY <2>1, ObeysSame
    <3> QED BY <2>1, <2>3, <3>1 DEF Automated, ReadingsOf, Due, Sensed
  <2> QED BY <2>1, <2>2, <2>3 DEF AutomationInv
<1>2. CASE Step /\ Follow
  BY <1>2, AutomationStep
<1> QED BY <1>1, <1>2, AutomationFault DEF Next

LEMMA AutomationInit == InitialAgrees /\ Init => AutomationInv
<1> SUFFICES ASSUME InitialAgrees, Init PROVE AutomationInv
  OBVIOUS
<1>1. /\ "senzorski_pi" \in Clients /\ "aktuatorski_pi" \in Clients
      /\ "senzorski_pi" \in Pis /\ "aktuatorski_pi" \in Pis
  BY DEF Clients, Pis
<1>2. ASSUME NEW s \in Sensors, NEW a \in Actuators, Place[s] = Place[a]
      PROVE  Automated(s, a)
  <2>1. /\ outbox["senzorski_pi"] = <<>> /\ inbox["aktuatorski_pi"] = <<>> /\ ~Delivers(a)
        /\ \A w \in Workers : worker["aktuatorski_pi"][w].pc = "idle"
    BY <1>1 DEF Init, BusInit, PiInit, Delivers, Idle
  <2>2. \A w \in Workers : ~Concerned(worker["aktuatorski_pi"][w], a)
    BY <2>1 DEF Concerned, Works
  <2>3. Has(a, dev[s].Value)
    BY <1>2 DEF Has, Init, PiInit, InitialAgrees
  <2>4. Obeys(a, dev[s].Value)
    BY <2>1, <2>2, <2>3 DEF Obeys
  <2> QED BY <2>1, <2>4, QueueEmpty DEF Automated, Through
<1> QED BY <1>1, <1>2 DEF AutomationInv, Init, BusInit, PiInit, InitialAgrees

\* When nothing is on its way each actuator has the status that the reading of its
\* room asks for (automation_control), for tables in which one sensor measures a room
\* and the compiled statuses fit the compiled readings, as in the two programs, and
\* users who set no status: the readings of a room reach its actuators in order, and
\* the worker that begins with the last one sees to all of them.
THEOREM RoomsConverge ==
  ASSUME Spaced, OneSensorPerRoom, NoStatusSet, InitialAgrees
  PROVE  Spec => []AutomationConverges
<1>1. TypeOK /\ AutomationInv => AutomationConverges
  <2>1. SUFFICES ASSUME TypeOK, AutomationInv, Settled, \A p \in Pis : Running(p),
                        NEW s \in Sensors, NEW a \in Actuators \ unaware, Place[s] = Place[a]
                 PROVE  dev[a].Value = IF Degrees[dev[s].Value] > Condition[a] THEN "ON" ELSE "OFF"
    BY DEF AutomationConverges
  <2>2. /\ Automated(s, a) /\ up["senzorski_pi"] /\ up["aktuatorski_pi"] /\ dev[s].Value \in Readings
        /\ "senzorski_pi" \in Clients /\ "aktuatorski_pi" \in Clients
    BY <2>1 DEF AutomationInv, Running, Clients, Pis
  <2>3. outbox["senzorski_pi"] = <<>> /\ inbox["aktuatorski_pi"] = <<>>
    BY <2>1, <2>2, SettledQueues DEF TypeOK
  <2>4. ~Due(s) /\ ~Delivers(a)
    BY <2>1, <2>2 DEF Settled, Due, Delivers
  <2>5. \A w \in Workers : worker["aktuatorski_pi"][w].pc = "idle"
    BY <2>1, <2>2 DEF Settled, WorkersIdle, Busy, Pis
  <2>6. \A w \in Workers : ~Concerned(worker["aktuatorski_pi"][w], a)
    BY <2>5 DEF Concerned, Works
  <2>7. Obeys(a, dev[s].Value)
    BY <2>1, <2>2, <2>3, <2>4, QueueEmpty DEF Automated, Through
  <2>8. Has(a, dev[s].Value)
    BY <2>4, <2>6, <2>7 DEF Obeys
  <2> QED BY <2>2, <2>8 DEF Has, Wanted, Number
<1>2. Init => AutomationInv
  BY AutomationInit
<1>3. TypeOK /\ SpacedInv /\ AutomationInv /\ [Next]_vars => AutomationInv'
  BY AutomationNext
<1>4. Spec => [](TypeOK /\ SpacedInv)
  BY SpacedInvariant
<1> QED BY <1>1, <1>2, <1>3, <1>4, PTL DEF Spec

-----------------------------------------------------------------------------
(* RepliesInOrder: the commands not yet answered are, in order, those of   *)
(* the replies on their way back, of the thread, and of the requests.      *)

\* The packets of q in R are, one by one, paired by rel with p[i + 1] to p[j].
Fits(q, R, rel, p, i, j) ==
  \E h \in [0..Len(q) -> Nat] :
    /\ h[0] = i /\ h[Len(q)] = j
    /\ \A k, l \in 0..Len(q) : k <= l => h[k] <= h[l]
    /\ \A k \in 1..Len(q) : /\ h[k] = h[k - 1] + (IF q[k] \in R THEN 1 ELSE 0)
                            /\ q[k] \in R => <<q[k].mes, p[h[k]]>> \in rel

ToUser   == {pk \in Packets : pk.topic = UiTopic}
Requests == {pk \in Packets : pk.mes \in Commands}
Replying == {rm \in Messages \X Commands : Answers(rm[1], rm[2])}
Asking   == {<<m, m>> : m \in Commands}

\* A thread of the controller has a command to answer.
Owing == /\ \E w \in Workers : thread[w].pc \in {"start", "missing", "read", "reply", "ack"}
         /\ packet \in Commands
Owed == IF Owing THEN 1 ELSE 0

\* What a thread of the controller has read of the devices it was asked for.
AnswerSound(t) ==
  t.pc \in {"read", "reply"} =>
    /\ packet.id = AllDevices =>
         /\ Len(t.out) + Len(t.todo) = Len(KontrolerTable)
         /\ \A i \in 1..Len(t.out) : <<KontrolerTable[i], packet.field, t.out[i]>> \in held
         /\ \A i \in 1..Len(t.todo) : t.todo[i] = KontrolerTable[Len(t.out) + i]
    /\ packet.id # AllDevices /\ t.pc = "read" => t.out = <<>> /\ t.todo = <<packet.id>>
    /\ t.pc = "reply" => t.todo = <<>>
    /\ packet.id # AllDevices /\ t.pc = "reply" =>
         Len(t.out) = 1 /\ <<packet.id, packet.field, t.out[1]>> \in held

\* Up to pending[i] the replies have been sent, up to pending[j] they are queued; what
\* comes after has still to be asked.  A controller with an error asks no more.
Asked(j) ==
  \E k \in Nat : /\ Fits(inbox[Kontroler], Requests, Asking, pending, j + Owed, k)
                 /\ Fits(outbox[Cli], Requests, Asking, pending, k, Len(pending))
                 /\ Owing => pending[j + 1] = packet
Replied ==
  \E i, j \in Nat : /\ Fits(inbox[Cli], ToUser, Replying, pending, 0, i)
                    /\ Fits(outbox[Kontroler], ToUser, Replying, pending, i, j)
                    /\ j <= Len(pending)
                    /\ error[Kontroler] = "none" => Asked(j)
ReplyInv ==
  /\ \A w \in Workers : AnswerSound(thread[w])
  /\ \A c \in {Cli, Kontroler} : error[c] # "socket" => subscribed[c]
  /\ error[Cli] # "socket" => Replied

LEMMA FitsEmpty ==
  ASSUME NEW R, NEW rel, NEW p, NEW i \in Nat
  PROVE  Fits(<<>>, R, rel, p, i, i)
<1>1. PICK h : h = [k \in {0} |-> i]
  OBVIOUS
<1>2. Len(<<>>) = 0 /\ 0..0 = {0} /\ 1..0 = {}
  OBVIOUS
<1>3. h \in [0..0 -> Nat] /\ h[0] = i
  BY <1>1, <1>2
<1> QED BY <1>2, <1>3 DEF Fits

LEMMA FitsOrder ==
  ASSUME NEW T, NEW q \in Seq(T), NEW R, NEW rel, NEW p, NEW i, NEW j, Fits(q, R, rel, p, i, j)
  PROVE  i \in Nat /\ j \in Nat /\ i <= j
<1>1. Len(q) \in Nat /\ 0 \in 0..Len(q) /\ Len(q) \in 0..Len(q) /\ 0 <= Len(q)
  BY LenProperties
<1> QED BY <1>1 DEF Fits

\* A packet is put at the end of q.
LEMMA FitsPut ==
  ASSUME NEW T, NEW q \in Seq(T), NEW x \in T, NEW R, NEW rel, NEW p, NEW i, NEW j, Fits(q, R, rel, p, i, j)
  PROVE  /\ x \in R /\ <<x.mes, p[j + 1]>> \in rel => Fits(Append(q, x), R, rel, p, i, j + 1)
         /\ x \notin R => Fits(Append(q, x), R, rel, p, i, j)
<1>1. PICK h \in [0..Len(q) -> Nat] :
        /\ h[0] = i /\ h[Len(q)] = j
        /\ \A k, l \in 0..Len(q) : k <= l => h[k] <= h[l]
        /\ \A k \in 1..Len(q) : /\ h[k] = h[k - 1] + (IF q[k] \in R THEN 1 ELSE 0)
                                /\ q[k] \in R => <<q[k].mes, p[h[k]]>> \in rel
  BY DEF Fits
<1>2. PICK n \in Nat : n = Len(q)
  BY LenProperties
<1>3. PICK u : u = Append(q, x)
  OBVIOUS
<1>4. Len(u) = n + 1 /\ u[n + 1] = x /\ \A k \in 1..n : u[k] = q[k]
  BY <1>2, <1>3, AppendAt
<1>5. i \in Nat /\ j \in Nat /\ i <= j
  BY FitsOrder
<1>6. ASSUME NEW e \in {0, 1}, x \in R => e = 1 /\ <<x.mes, p[j + 1]>> \in rel, x \notin R => e = 0
      PROVE  Fits(u, R, rel, p, i, j + e)
  <2>1. PICK g : g = [k \in 0..(n + 1) |-> IF k = n + 1 THEN j + e ELSE h[k]]
    OBVIOUS
  <2>2. /\ g \in [0..(n + 1) -> Nat] /\ g[n + 1] = j + e /\ \A k \in 0..n : g[k] = h[k] /\ h[k] \in Nat
    <3>1. \A k \in 0..n : h[k] \in Nat /\ k \in 0..(n + 1) /\ k # n + 1
      BY <1>1, <1>2
    <3>2. \A k \in 0..(n + 1) : k \in 0..n \/ k = n + 1
      OBVIOUS
    <3>3. \A k \in 0..(n + 1) : (IF k = n + 1 THEN j + e ELSE h[k]) \in Nat
      BY <1>5, <1>6, <3>1, <3>2
    <3> QED BY <2>1, <3>1, <3>3
  <2>3. g[0] = i /\ g[n] = j
    BY <1>1, <1>2, <2>2
  <2>4. \A k, l \in 0..(n + 1) : k <= l => g[k] <= g[l]
    <3>1. SUFFICES ASSUME NEW k \in 0..(n + 1), NEW l \in 0..(n + 1), k <= l PROVE g[k] <= g[l]
      OBVIOUS
    <3>2. CASE l \in 0..n
      <4>1. k \in 0..n
        BY <3>1, <3>2
      <4> QED BY <1>1, <1>2, <2>2, <3>1, <3>2, <4>1
    <3>3. CASE l = n + 1 /\ k \in 0..n
      <4>1. h[k] <= h[n] /\ h[n] = j
        BY <1>1, <1>2, <3>3
      <4>2. h[k] \in Nat /\ g[k] = h[k] /\ g[l] = j + e
        BY <2>2, <3>3
      <4> QED BY <1>5, <4>1, <4>2
    <3>4. CASE l = n + 1 /\ k = n + 1
      BY <1>5, <2>2, <3>4
    <3> QED BY <3>1, <3>2, <3>3, <3>4
  <2>5. ASSUME NEW k \in 1..(n + 1)
        PROVE  /\ g[k] = g[k - 1] + (IF u[k] \in R THEN 1 ELSE 0)
               /\ u[k] \in R => <<u[k].mes, p[g[k]]>> \in rel
    <3>1. CASE k \in 1..n
      <4>1. k \in 0..n /\ k - 1 \in 0..n
        BY <3>1
      <4>2. g[k] = h[k] /\ g[k - 1] = h[k - 1] /\ u[k] = q[k]
        BY <1>4, <2>2, <3>1, <4>1
      <4> QED BY <1>1, <1>2, <3>1, <4>2
    <3>2. CASE k = n + 1
      <4>1. k - 1 = n /\ g[k - 1] = j /\ g[k] = j + e /\ u[k] = x
        BY <1>4, <2>2, <2>3, <3>2
      <4>2. x \in R => g[k] = g[k - 1] + 1 /\ <<u[k].mes, p[g[k]]>> \in rel
        BY <1>5, <1>6, <4>1
      <4>3. x \notin R => g[k] = g[k - 1] + 0
        BY <1>5, <1>6, <4>1
      <4> QED BY <4>1, <4>2, <4>3
    <3> QED BY <3>1, <3>2
  <2>6. g \in [0..Len(u) -> Nat] /\ g[0] = i /\ g[Len(u)] = j + e
    BY <1>4, <2>2, <2>3
  <2>7. \A k, l \in 0..Len(u) : k <= l => g[k] <= g[l]
    BY <1>4, <2>4
  <2>8. \A k \in 1..Len(u) : /\ g[k] = g[k - 1] + (IF u[k] \in R THEN 1 ELSE 0)
                             /\ u[k] \in R => <<u[k].mes, p[g[k]]>> \in rel
    BY <1>4, <2>5
  <2> QED BY <2>6, <2>7, <2>8 DEF Fits
<1>7. x \in R /\ <<x.mes, p[j + 1]>> \in rel => Fits(u, R, rel, p, i, j + 1)
  BY <1>6
<1>8. x \notin R => Fits(u, R, rel, p, i, j)
  <2>1. j + 0 = j
    BY <1>5
  <2> QED BY <1>6, <2>1
<1> QED BY <1>3, <1>7, <1>8

\* The first packet of q is taken.
LEMMA FitsTake ==
  ASSUME NEW T, NEW q \in Seq(T), q # <<>>, NEW R, NEW rel, NEW p, NEW i, NEW j, Fits(q, R, rel, p, i, j)
  PROVE  /\ Head(q) \in R => <<Head(q).mes, p[i + 1]>> \in rel /\ Fits(Tail(q), R, rel, p, i + 1, j)
         /\ Head(q) \notin R => Fits(Tail(q), R, rel, p, i, j)
<1>1. PICK h \in [0..Len(q) -> Nat] :
        /\ h[0] = i /\ h[Len(q)] = j
        /\ \A k, l \in 0..Len(q) : k <= l => h[k] <= h[l]
        /\ \A k \in 1..Len(q) : /\ h[k] = h[k - 1] + (IF q[k] \in R THEN 1 ELSE 0)
                                /\ q[k] \in R => <<q[k].mes, p[h[k]]>> \in rel
  BY DEF Fits
<1>2. PICK n \in Nat \ {0} : n = Len(q)
  BY TailAt
<1>3. PICK u : u = Tail(q)
  OBVIOUS
<1>4. Len(u) = n - 1 /\ q[1] = Head(q) /\ \A k \in 1..(n - 1) : u[k] = q[k + 1]
  BY <1>2, <1>3, TailAt
<1>5. i \in Nat /\ j \in Nat
  BY FitsOrder
<1>6. /\ h[1] = i + (IF Head(q) \in R THEN 1 ELSE 0)
      /\ Head(q) \in R => <<Head(q).mes, p[h[1]]>> \in rel
  <2>1. 1 \in 1..n /\ 1 - 1 = 0
    BY <1>2
  <2> QED BY <1>1, <1>2, <1>4, <2>1
<1>7. Fits(u, R, rel, p, h[1], j)
  <2>1. PICK g : g = [k \in 0..(n - 1) |-> h[k + 1]]
    OBVIOUS
  <2>2. \A k \in 0..(n - 1) : k + 1 \in 0..n /\ g[k] = h[k + 1] /\ h[k + 1] \in Nat
    BY <1>1, <1>2, <2>1
  <2>3. g \in [0..(n - 1) -> Nat]
    BY <2>1, <2>2
  <2>4. g[0] = h[1] /\ g[n - 1] = j
    <3>1. 0 \in 0..(n - 1) /\ n - 1 \in 0..(n - 1) /\ 0 + 1 = 1 /\ (n - 1) + 1 = n
      OBVIOUS
    <3> QED BY <1>1, <1>2, <2>2, <3>1
  <2>5. \A k, l \in 0..(n - 1) : k <= l => g[k] <= g[l]
    <3>1. SUFFICES ASSUME NEW k \in 0..(n - 1), NEW l \in 0..(n - 1), k <= l PROVE g[k] <= g[l]
      OBVIOUS
    <3>2. k + 1 \in 0..n /\ l + 1 \in 0..n /\ k + 1 <= l + 1
      BY <3>1
    <3>3. h[k + 1] <= h[l + 1]
      BY <1>1, <1>2, <3>2
    <3> QED BY <2>2, <3>3
  <2>6. ASSUME NEW k \in 1..(n - 1)
        PROVE  /\ g[k] = g[k - 1] + (IF u[k] \in R THEN 1 ELSE 0)
               /\ u[k] \in R => <<u[k].mes, p[g[k]]>> \in rel
    <3>1. k \in 0..(n - 1) /\ k - 1 \in 0..(n - 1) /\ k + 1 \in 1..n /\ (k + 1) - 1 = k /\ (k - 1) + 1 = k
      OBVIOUS
    <3>2. g[k] = h[k + 1] /\ g[k - 1] = h[k] /\ u[k] = q[k + 1]
      BY <1>4, <2>2, <3>1
    <3>3. /\ h[k + 1] = h[(k + 1) - 1] + (IF q[k + 1] \in R THEN 1 ELSE 0)
          /\ q[k + 1] \in R => <<q[k + 1].mes, p[h[k + 1]]>> \in rel
      BY <1>1, <1>2, <3>1
    <3> QED BY <3>1, <3>2, <3>3
  <2> QED BY <1>4, <2>3, <2>4, <2>5, <2>6 DEF Fits
<1>8. Head(q) \in R => h[1] = i + 1
  BY <1>6
<1>9. Head(q) \notin R => h[1] = i
  BY <1>5, <1>6
<1> QED BY <1>3, <1>6, <1>7, <1>8, <1>9

\* Other commands after pending[j] make no difference.
LEMMA FitsOther ==
  ASSUME NEW T, NEW q \in Seq(T), NEW R, NEW rel, NEW p, NEW i, NEW j, Fits(q, R, rel, p, i, j),
         NEW wide, rel \subseteq wide, NEW r, \A k \in Nat : 1 <= k /\ k <= j => r[k] = p[k]
  PROVE  Fits(q, R, wide, r, i, j)
<1>1. PICK h \in [0..Len(q) -> Nat] :
        /\ h[0] = i /\ h[Len(q)] = j
        /\ \A k, l \in 0..Len(q) : k <= l => h[k] <= h[l]
        /\ \A k \in 1..Len(q) : /\ h[k] = h[k - 1] + (IF q[k] \in R THEN 1 ELSE 0)
                                /\ q[k] \in R => <<q[k].mes, p[h[k]]>> \in rel
  BY DEF Fits
<1>2. PICK n \in Nat : n = Len(q)
  BY LenProperties
<1>3. ASSUME NEW k \in 1..Len(q), q[k] \in R
      PROVE  <<q[k].mes, r[h[k]]>> \in wide
  <2>1. k \in 0..Len(q) /\ Len(q) \in 0..Len(q) /\ k <= Len(q) /\ k - 1 \in 0..Len(q)
    BY <1>2
  <2>2. h[k] <= j /\ h[k] \in Nat /\ h[k - 1] \in Nat /\ h[k] = h[k - 1] + 1
    BY <1>1, <1>3, <2>1
  <2>3. 1 <= h[k]
    BY <2>2
  <2> QED BY <1>1, <1>3, <2>2, <2>3
<1> QED BY <1>1, <1>3 DEF Fits

\* The first of the commands goes.
LEMMA FitsShift ==
  ASSUME NEW T, NEW q \in Seq(T), NEW R, NEW rel, NEW p, NEW i, NEW j, Fits(q, R, rel, p, i + 1, j),
         i \in Nat, NEW r, \A k \in Nat : 1 <= k /\ k < j => r[k] = p[k + 1]
  PROVE  Fits(q, R, rel, r, i, j - 1)
<1>1. PICK h \in [0..Len(q) -> Nat] :
        /\ h[0] = i + 1 /\ h[Len(q)] = j
        /\ \A k, l \in 0..Len(q) : k <= l => h[k] <= h[l]
        /\ \A k \in 1..Len(q) : /\ h[k] = h[k - 1] + (IF q[k] \in R THEN 1 ELSE 0)
                                /\ q[k] \in R => <<q[k].mes, p[h[k]]>> \in rel
  BY DEF Fits
<1>2. PICK n \in Nat : n = Len(q)
  BY LenProperties
<1>3. j \in Nat /\ i + 1 <= j
  BY FitsOrder
<1>4. \A k \in 0..n : h[k] \in Nat /\ i + 1 <= h[k] /\ h[k] <= j
  <2>1. SUFFICES ASSUME NEW k \in 0..n PROVE h[k] \in Nat /\ i + 1 <= h[k] /\ h[k] <= j
    OBVIOUS
  <2>2. 0 \in 0..n /\ n \in 0..n /\ 0 <= k /\ k <= n
    OBVIOUS
  <2> QED BY <1>1, <1>2, <2>2
<1>5. PICK g : g = [k \in 0..n |-> h[k] - 1]
  OBVIOUS
<1>6. \A k \in 0..n : g[k] = h[k] - 1 /\ g[k] \in Nat
  BY <1>4, <1>5
<1>7. g \in [0..n -> Nat]
  BY <1>5, <1>6
<1>8. g[0] = i /\ g[n] = j - 1
  <2>1. 0 \in 0..n /\ n \in 0..n /\ (i + 1) - 1 = i
    OBVIOUS
  <2> QED BY <1>1, <1>2, <1>6, <2>1
<1>9. \A k, l \in 0..n : k <= l => g[k] <= g[l]
  <2>1. SUFFICES ASSUME NEW k \in 0..n, NEW l \in 0..n, k <= l PROVE g[k] <= g[l]
    OBVIOUS
  <2>2. h[k] <= h[l] /\ h[k] \in Nat /\ h[l] \in Nat
    BY <1>1, <1>2, <2>1, <1>4
  <2> QED BY <1>6, <2>2
<1>10. ASSUME NEW k \in 1..n
       PROVE  /\ g[k] = g[k - 1] + (IF q[k] \in R THEN 1 ELSE 0)
              /\ q[k] \in R => <<q[k].mes, r[g[k]]>> \in rel
  <2>1. k \in 0..n /\ k - 1 \in 0..n
    OBVIOUS
  <2>2. /\ h[k] \in Nat /\ h[k - 1] \in Nat /\ h[k] <= j /\ i + 1 <= h[k - 1]
        /\ g[k] = h[k] - 1 /\ g[k - 1] = h[k - 1] - 1
        /\ h[k] = h[k - 1] + (IF q[k] \in R THEN 1 ELSE 0)
        /\ q[k] \in R => <<q[k].mes, p[h[k]]>> \in rel
    BY <1>1, <1>2, <1>4, <1>6, <2>1
  <2>3. g[k] = g[k - 1] + (IF q[k] \in R THEN 1 ELSE 0)
    BY <2>2
  <2>4. ASSUME q[k] \in R
        PROVE  <<q[k].mes, r[g[k]]>> \in rel
    <3>1. h[k] = h[k - 1] + 1
      BY <2>2, <2>4
    <3>2. g[k] \in Nat /\ 1 <= g[k] /\ g[k] < j /\ g[k] + 1 = h[k]
      <4>1. i \in Nat /\ j \in Nat /\ h[k] \in Nat /\ h[k - 1] \in Nat /\ i + 1 <= h[k - 1] /\ h[k] <= j /\ g[k] = h[k] - 1
        BY <1>3, <2>2
      <4>2. \A x, y, z \in Nat : i + 1 <= x /\ y = x + 1 /\ y <= j /\ z = y => z - 1 \in Nat /\ 1 <= z - 1 /\ z - 1 < j /\ z - 1 + 1 = z
        BY <4>1
      <4> QED BY <3>1, <4>1, <4>2
    <3>3. r[g[k]] = p[h[k]]
      <4>1. r[g[k]] = p[g[k] + 1]
        BY <3>2
      <4> QED BY <3>2, <4>1
    <3> QED BY <2>2, <2>4, <3>3
  <2> QED BY <2>3, <2>4
<1> QED BY <1>2, <1>7, <1>8, <1>9, <1>10 DEF Fits

LEMMA ReplyingGrows ==
  held \subseteq held' => Replying \subseteq Replying'
<1> SUFFICES ASSUME held \subseteq held', NEW r \in Messages, NEW m \in Commands, Answers(r, m)
             PROVE  Answers(r, m)'
  BY DEF Replying
<1> QED BY DEF Answers

LEMMA ReplyTypes ==
  ASSUME BusTypeOK, CliTypeOK
  PROVE  /\ Kontroler \in Clients /\ Cli \in Clients /\ Kontroler # Cli /\ Kontroler \notin Pis /\ Cli \notin Pis
         /\ \A c \in Clients : inbox[c] \in Seq(Packets) /\ outbox[c] \in Seq(Packets)
         /\ pending \in Seq(Commands) /\ Len(pending) \in Nat /\ Owed \in {0, 1} /\ (Owing <=> Owed = 1)
<1>1. Len(pending) \in Nat
  BY LenProperties DEF CliTypeOK
<1> QED BY <1>1 DEF BusTypeOK, CliTypeOK, Clients, Pis, Kontroler, Cli, Owed

\* What a step may do that neither asks nor answers.
LEMMA RepliedKept ==
  ASSUME BusTypeOK, CliTypeOK, Replied, UNCHANGED <<pending, packet>>, Owing' <=> Owing, held \subseteq held',
         inbox'[Cli] = inbox[Cli], outbox'[Cli] = outbox[Cli],
         \/ outbox'[Kontroler] = outbox[Kontroler]
         \/ \E x \in Packets : x \notin ToUser /\ outbox'[Kontroler] = Append(outbox[Kontroler], x),
         error'[Kontroler] = "none" =>
           /\ error[Kontroler] = "none"
           /\ \/ inbox'[Kontroler] = inbox[Kontroler]
              \/ \E x \in Packets : x \notin Requests /\ inbox'[Kontroler] = Append(inbox[Kontroler], x)
  PROVE  Replied'
<1>1. /\ Kontroler \in Clients /\ Cli \in Clients
      /\ \A c \in Clients : inbox[c] \in Seq(Packets) /\ outbox[c] \in Seq(Packets)
  BY ReplyTypes
<1>2. PICK i \in Nat, j \in Nat :
        /\ Fits(inbox[Cli], ToUser, Replying, pending, 0, i)
        /\ Fits(outbox[Kontroler], ToUser, Replying, pending, i, j)
        /\ j <= Len(pending)
        /\ error[Kontroler] = "none" => Asked(j)
  BY DEF Replied
<1>3. PICK wide : wide = Replying' /\ Replying \subseteq wide
  BY ReplyingGrows
<1>4. Fits(inbox[Cli], ToUser, wide, pending, 0, i)
  BY <1>1, <1>2, <1>3, FitsOther
<1>5. Fits(outbox[Kontroler], ToUser, wide, pending, i, j)
  BY <1>1, <1>2, <1>3, FitsOther
<1>6. Fits(outbox'[Kontroler], ToUser, wide, pending, i, j)
  BY <1>1, <1>5, FitsPut
<1>7. error'[Kontroler] = "none" => Asked(j)'
  <2>1. SUFFICES ASSUME error'[Kontroler] = "none" PROVE Asked(j)'
    OBVIOUS
  <2>2. PICK k \in Nat : /\ Fits(inbox[Kontroler], Requests, Asking, pending, j + Owed, k)
                         /\ Fits(outbox[Cli], Requests, Asking, pending, k, Len(pending))
                         /\ Owing => pending[j + 1] = packet
    BY <1>2, <2>1 DEF Asked
  <2>3. Fits(inbox'[Kontroler], Requests, Asking, pending, j + Owed, k)
    BY <1>1, <2>1, <2>2, FitsPut
  <2>4. Owed' = Owed
    BY DEF Owed
  <2> QED BY <2>2, <2>3, <2>4 DEF Asked, Requests, Asking
<1> QED BY <1>2, <1>3, <1>4, <1>6, <1>7 DEF Replied, ToUser

\* The broker takes a packet.
LEMMA RepliedSend ==
  ASSUME BusTypeOK, CliTypeOK, SpacedInv, Replied, NEW c \in Clients, Send(c),
         UNCHANGED <<piVars, kontrolerVars, pending>>, subscribed[Cli],
         error[Kontroler] = "none" => subscribed[Kontroler]
  PROVE  Replied'
<1>1. /\ Kontroler \in Clients /\ Cli \in Clients /\ Kontroler # Cli /\ Kontroler \notin Pis /\ Cli \notin Pis
      /\ \A d \in Clients : inbox[d] \in Seq(Packets) /\ outbox[d] \in Seq(Packets)
      /\ up[Kontroler] /\ up[Cli]
      /\ Subscriptions(Kontroler) = {ControlerTopic} /\ Subscriptions(Cli) = {UiTopic}
  BY ReplyTypes DEF SpacedInv, Subscriptions, Kontroler, Cli
<1>2. PICK x : x = Head(outbox[c])
  OBVIOUS
<1>3. x \in Packets /\ SentBy(c, x) /\ outbox[c] # <<>>
  BY <1>1, <1>2, TailAt DEF Send, SpacedInv, PacketsSound
<1>4. /\ \A d \in Clients : outbox'[d] = IF d = c THEN Tail(outbox[c]) ELSE outbox[d]
      /\ inbox'[Cli] = IF x.topic = UiTopic THEN Append(inbox[Cli], x) ELSE inbox[Cli]
      /\ error[Kontroler] = "none" =>
           inbox'[Kontroler] = IF x.topic = ControlerTopic THEN Append(inbox[Kontroler], x) ELSE inbox[Kontroler]
      /\ error' = error
  BY <1>1, <1>2 DEF Send, BusTypeOK
<1>5. UNCHANGED <<pending, packet, held, thread>> /\ (Owing' <=> Owing) /\ Owed' = Owed /\ Replying' = Replying
  BY DEF piVars, kontrolerVars, Owing, Owed, Replying, Answers
<1>6. PICK i \in Nat, j \in Nat :
        /\ Fits(inbox[Cli], ToUser, Replying, pending, 0, i)
        /\ Fits(outbox[Kontroler], ToUser, Replying, pending, i, j)
        /\ j <= Len(pending)
        /\ error[Kontroler] = "none" => Asked(j)
  BY DEF Replied
<1>7. UiTopic # ControlerTopic /\ UiTopic \in OwnTopics /\ ControlerTopic \in OwnTopics
      /\ InfoTopic # ControlerTopic /\ FuncTopic # ControlerTopic
  BY DEF UiTopic, ControlerTopic, InfoTopic, FuncTopic, OwnTopics
<1>8. CASE c \in Pis
  <2>1. x.topic # UiTopic /\ (x.topic = ControlerTopic => x.mes \in Changes)
    BY <1>3, <1>7, <1>8 DEF SentBy
  <2>2. x.topic = ControlerTopic => x \notin Requests
    BY <2>1 DEF Requests, Changes, Commands, Asks, Sets
  <2> QED BY <1>1, <1>3, <1>4, <1>5, <1>8, <2>1, <2>2, RepliedKept
<1>9. CASE c = Kontroler
  <2>1. x.topic # ControlerTopic
    BY <1>3, <1>7, <1>9 DEF SentBy
  <2>2. error[Kontroler] = "none" => Asked(j)'
    BY <1>1, <1>4, <1>5, <1>6, <1>9, <2>1 DEF Asked, Requests, Asking
  <2>3. CASE x.topic = UiTopic
    <3>1. x \in ToUser
      BY <1>3, <2>3 DEF ToUser
    <3>2. /\ <<x.mes, pending[i + 1]>> \in Replying
          /\ Fits(Tail(outbox[Kontroler]), ToUser, Replying, pending, i + 1, j)
      BY <1>1, <1>2, <1>3, <1>6, <1>9, <3>1, FitsTake
    <3>3. Fits(Append(inbox[Cli], x), ToUser, Replying, pending, 0, i + 1)
      BY <1>1, <1>3, <1>6, <3>1, <3>2, FitsPut
    <3>4. /\ inbox'[Cli] = Append(inbox[Cli], x) /\ outbox'[Kontroler] = Tail(outbox[Kontroler])
          /\ i + 1 \in Nat
      BY <1>1, <1>4, <1>9, <2>3
    <3> QED BY <1>4, <1>5, <1>6, <2>2, <3>2, <3>3, <3>4 DEF Replied, ToUser
  <2>4. CASE x.topic # UiTopic
    <3>1. Fits(Tail(outbox[Kontroler]), ToUser, Replying, pending, i, j)
      BY <1>1, <1>2, <1>3, <1>6, <1>9, <2>4, FitsTake DEF ToUser
    <3> QED BY <1>1, <1>4, <1>5, <1>6, <1>9, <2>2, <2>4, <3>1 DEF Replied, ToUser
  <2> QED BY <2>3, <2>4
<1>10. CASE c = Cli
  <2>1. x.topic = ControlerTopic /\ x \in Requests
    BY <1>1, <1>3, <1>10, LinesAssumption DEF SentBy, UserCommands, Requests
  <2>2. ASSUME error[Kontroler] = "none"
        PROVE  Asked(j)'
    <3>1. PICK k \in Nat : /\ Fits(inbox[Kontroler], Requests, Asking, pending, j + Owed, k)
                           /\ Fits(outbox[Cli], Requests, Asking, pending, k, Len(pending))
                           /\ Owing => pending[j + 1] = packet
      BY <1>6, <2>2 DEF Asked
    <3>2. /\ <<x.mes, pending[k + 1]>> \in Asking
          /\ Fits(Tail(outbox[Cli]), Requests, Asking, pending, k + 1, Len(pending))
      BY <1>1, <1>2, <1>3, <1>10, <2>1, <3>1, FitsTake
    <3>3. Fits(Append(inbox[Kontroler], x), Requests, Asking, pending, j + Owed, k + 1)
      BY <1>1, <1>3, <2>1, <3>1, <3>2, FitsPut
    <3>4. /\ inbox'[Kontroler] = Append(inbox[Kontroler], x) /\ outbox'[Cli] = Tail(outbox[Cli])
          /\ k + 1 \in Nat
      BY <1>1, <1>4, <1>10, <2>1, <2>2
    <3> QED BY <1>5, <3>1, <3>2, <3>3, <3>4 DEF Asked, Requests, Asking
  <2> QED BY <1>1, <1>4, <1>5, <1>6, <1>7, <1>10, <2>1, <2>2 DEF Replied, ToUser
<1> QED BY <1>8, <1>9, <1>10 DEF Clients

\* The controller takes a packet: a request begins to be answered.
LEMMA RepliedCallback ==
  ASSUME Spaced, BusTypeOK, CliTypeOK, KontrolerTypeOK, SpacedInv, Replied, NEW w \in Workers, Callback(w),
         UNCHANGED <<piVars, pending>>
  PROVE  Replied'
<1>1. /\ Kontroler \in Clients /\ Cli \in Clients /\ Kontroler # Cli
      /\ \A d \in Clients : inbox[d] \in Seq(Packets) /\ outbox[d] \in Seq(Packets)
  BY ReplyTypes
<1>2. PICK x : x = Head(inbox[Kontroler])
  OBVIOUS
<1>3. /\ inbox[Kontroler] # <<>> /\ x \in Packets /\ packet' = x.mes
      /\ \A v \in Workers : thread[v].pc = "idle"
      /\ thread'[w].pc \in {"start", "missing"} /\ \A v \in Workers : v # w => thread'[v].pc = "idle"
      /\ UNCHANGED <<outbox, error, held>> /\ inbox'[Cli] = inbox[Cli]
      /\ inbox'[Kontroler] = Tail(inbox[Kontroler])
  <2>1. /\ inbox[Kontroler] # <<>> /\ packet' = x.mes /\ \A v \in Workers : thread[v].pc = "idle"
        /\ UNCHANGED <<outbox, error, held>> /\ inbox' = [inbox EXCEPT ![Kontroler] = Tail(@)]
    BY <1>2 DEF Callback, Arrived, ThreadsIdle, BusyThreads, piVars
  <2>2. thread'[w].pc \in {"start", "missing"} /\ \A v \in Workers : v # w => thread'[v].pc = "idle"
    BY <2>1 DEF Callback, KontrolerTypeOK, ThreadOK
  <2>3. x \in Packets
    BY <1>1, <1>2, <2>1, TailAt
  <2> QED BY <1>1, <2>1, <2>2, <2>3 DEF BusTypeOK
<1>4. Owed = 0 /\ (x \in Requests => Owing' /\ Owed' = 1) /\ (x \notin Requests => ~Owing' /\ Owed' = 0)
      /\ Replying' = Replying
  BY <1>3 DEF Owing, Owed, Requests, Replying, Answers
<1>5. PICK i \in Nat, j \in Nat :
        /\ Fits(inbox[Cli], ToUser, Replying, pending, 0, i)
        /\ Fits(outbox[Kontroler], ToUser, Replying, pending, i, j)
        /\ j <= Len(pending)
        /\ error[Kontroler] = "none" => Asked(j)
  BY DEF Replied
<1>6. ASSUME error[Kontroler] = "none"
      PROVE  Asked(j)'
  <2>1. PICK k \in Nat : /\ Fits(inbox[Kontroler], Requests, Asking, pending, j + Owed, k)
                         /\ Fits(outbox[Cli], Requests, Asking, pending, k, Len(pending))
    BY <1>5, <1>6 DEF Asked
  <2>2. j + Owed = j
    BY <1>4
  <2>3. CASE x \in Requests
    <3>1. /\ <<x.mes, pending[j + 1]>> \in Asking
          /\ Fits(Tail(inbox[Kontroler]), Requests, Asking, pending, j + 1, k)
      BY <1>1, <1>2, <1>3, <2>1, <2>2, <2>3, FitsTake
    <3>2. pending[j + 1] = packet'
      BY <1>3, <3>1 DEF Asking
    <3> QED BY <1>3, <1>4, <2>1, <2>3, <3>1, <3>2 DEF Asked, Requests, Asking
  <2>4. CASE x \notin Requests
    <3>1. Fits(Tail(inbox[Kontroler]), Requests, Asking, pending, j + 0, k)
      BY <1>1, <1>2, <1>3, <1>4, <2>1, <2>2, <2>4, FitsTake
    <3> QED BY <1>3, <1>4, <2>1, <2>4, <3>1 DEF Asked, Requests, Asking
  <2> QED BY <2>3, <2>4
<1> QED BY <1>3, <1>4, <1>5, <1>6 DEF Replied, ToUser

\* A thread of the controller answers the command it owes.
LEMMA RepliedReply ==
  ASSUME BusTypeOK, CliTypeOK, Replied, NEW m \in Messages, Publish(Kontroler, UiTopic, m),
         UNCHANGED <<pending, packet, held>>, Owing, ~Owing', Answers(m, packet)
  PROVE  Replied'
<1>1. /\ Kontroler \in Clients /\ Cli \in Clients /\ Kontroler # Cli /\ Len(pending) \in Nat
      /\ \A d \in Clients : inbox[d] \in Seq(Packets) /\ outbox[d] \in Seq(Packets)
  BY ReplyTypes
<1>2. PICK i \in Nat, j \in Nat :
        /\ Fits(inbox[Cli], ToUser, Replying, pending, 0, i)
        /\ Fits(outbox[Kontroler], ToUser, Replying, pending, i, j)
        /\ j <= Len(pending)
        /\ error[Kontroler] = "none" => Asked(j)
  BY DEF Replied
<1>3. PICK x : x = [topic |-> UiTopic, mes |-> m]
  OBVIOUS
<1>4. x \in ToUser /\ x \in Packets /\ x.mes = m
  BY <1>3 DEF ToUser, Packets, Topics, OwnTopics
<1>5. /\ inbox' = inbox /\ outbox'[Cli] = outbox[Cli] /\ Replying' = Replying /\ Owed = 1 /\ Owed' = 0
      /\ \/ /\ error[Kontroler] = "none" /\ error'[Kontroler] = "none"
            /\ outbox'[Kontroler] = Append(outbox[Kontroler], x)
         \/ error'[Kontroler] # "none" /\ outbox'[Kontroler] = outbox[Kontroler]
  BY <1>1, <1>3, PublishQueues DEF Owed, Replying, Answers
<1>6. CASE error'[Kontroler] # "none" /\ outbox'[Kontroler] = outbox[Kontroler]
  BY <1>2, <1>5, <1>6 DEF Replied, ToUser
<1>7. CASE error[Kontroler] = "none" /\ outbox'[Kontroler] = Append(outbox[Kontroler], x)
  <2>1. PICK k \in Nat : /\ Fits(inbox[Kontroler], Requests, Asking, pending, j + Owed, k)
                         /\ Fits(outbox[Cli], Requests, Asking, pending, k, Len(pending))
                         /\ Owing => pending[j + 1] = packet
    BY <1>2, <1>7 DEF Asked
  <2>2. j + 1 <= k /\ k <= Len(pending) /\ j + Owed = j + 1 /\ (j + 1) + 0 = j + 1 /\ j + 1 \in Nat
    <3>1. j + Owed <= k /\ k <= Len(pending)
      BY <1>1, <2>1, FitsOrder
    <3> QED BY <1>5, <3>1
  <2>3. j + 1 <= Len(pending)
    BY <1>1, <2>2
  <2>4. <<x.mes, pending[j + 1]>> \in Replying
    BY <1>4, <2>1 DEF Replying, Owing
  <2>5. Fits(outbox'[Kontroler], ToUser, Replying, pending, i, j + 1)
    BY <1>1, <1>2, <1>4, <1>7, <2>4, FitsPut
  <2>6. Fits(inbox[Kontroler], Requests, Asking, pending, (j + 1) + 0, k)
    BY <2>1, <2>2
  <2>7. Asked(j + 1)'
    BY <1>5, <2>1, <2>6 DEF Asked, Requests, Asking
  <2> QED BY <1>2, <1>5, <2>2, <2>3, <2>5, <2>7 DEF Replied, ToUser
<1> QED BY <1>5, <1>6, <1>7

\* A thread of the controller takes a step.
LEMMA RepliedRun ==
  ASSUME BusTypeOK, CliTypeOK, KontrolerTypeOK, SpacedInv, Replied, NEW w \in Workers, Run(w),
         AnswerSound(thread[w]), UNCHANGED <<piVars, pending>>
  PROVE  Replied'
<1> DEFINE t == thread[w]
<1>1. /\ Kontroler \in Clients /\ Cli \in Clients /\ Kontroler # Cli
      /\ \A d \in Clients : inbox[d] \in Seq(Packets) /\ outbox[d] \in Seq(Packets)
  BY ReplyTypes
<1>2. /\ t.pc # "idle" /\ packet' = packet /\ ThreadSound(t) /\ ThreadOK(t) /\ held' = held
      /\ \A u \in Workers : u # w => thread[u].pc = "idle"
  BY DEF Run, NoDevice, Distribute, ReadDevice, Answer, Acknowledge, Reread, Forward, Apply, In,
         SpacedInv, OneThread, KontrolerTypeOK, piVars
<1>3. UserCommands \subseteq Commands /\ Changes \cap Commands = {}
  BY LinesAssumption DEF UserCommands, Changes, Commands, Asks, Sets
<1>4. Owing <=> t.pc \in {"start", "missing", "read", "reply", "ack"} /\ packet \in Commands
  BY <1>2 DEF Owing
<1>5. ASSUME NEW n, thread' = [thread EXCEPT ![w] = n]
      PROVE  Owing' <=> n.pc \in {"start", "missing", "read", "reply", "ack"} /\ packet \in Commands
  <2>1. thread'[w] = n /\ \A u \in Workers : u # w => thread'[u].pc = "idle"
    BY <1>2, <1>5 DEF KontrolerTypeOK
  <2> QED BY <1>2, <2>1 DEF Owing
<1>6. NoThread.pc = "idle"
  BY DEF NoThread
<1>7. ASSUME busVars' = busVars, Owing' <=> Owing
      PROVE  Replied'
  BY <1>2, <1>7, RepliedKept DEF busVars
<1>8. ASSUME NEW m \in Messages, Publish(Kontroler, UiTopic, m), Owing, ~Owing', Answers(m, packet)
      PROVE  Replied'
  BY <1>2, <1>8, RepliedReply
<1>9. CASE NoDevice(w)
  <2>1. t.pc = "missing" /\ thread' = [thread EXCEPT ![w] = NoThread] /\ Publish(Kontroler, UiTopic, NonExistent)
    BY <1>9 DEF NoDevice, In
  <2>2. packet.id \notin Devices \cup {AllDevices} /\ packet \in Commands
    BY <1>2, <1>3, <2>1 DEF ThreadSound, Changes
  <2>3. NonExistent \in Messages /\ Answers(NonExistent, packet)
    BY <2>2, MessageTypes DEF Answers
  <2> QED BY <1>4, <1>5, <1>6, <1>8, <2>1, <2>2, <2>3
<1>10. CASE Answer(w)
  <2>1. /\ t.pc = "reply" /\ thread' = [thread EXCEPT ![w] = NoThread] /\ t.mes = packet
        /\ packet \in Asks /\ packet \in Commands /\ packet.id \in Devices \cup {AllDevices}
        /\ t.out \in Seq(Texts \cup {OutOfBounds})
    BY <1>2, <1>3, <1>10 DEF Answer, In, ThreadSound, ThreadOK
  <2>2. PICK g \in BOOLEAN : Publish(Kontroler, UiTopic, Values(t.out, g))
    BY <1>10 DEF Answer
  <2>3. PICK m : m = Values(t.out, g)
    OBVIOUS
  <2>4. m \in Messages /\ m.type = "Values" /\ m.values = t.out
    BY <2>1, <2>3, MessageTypes DEF Values
  <2>5. /\ packet.id = AllDevices =>
             /\ Len(t.out) = Len(KontrolerTable)
             /\ \A i \in 1..Len(t.out) : <<KontrolerTable[i], packet.field, t.out[i]>> \in held
        /\ packet.id # AllDevices => Len(t.out) = 1 /\ <<packet.id, packet.field, t.out[1]>> \in held
    <3>1. Len(t.out) \in Nat /\ Len(<<>>) = 0
      BY <2>1, LenProperties
    <3>2. /\ t.todo = <<>>
          /\ packet.id = AllDevices =>
               /\ Len(t.out) + Len(t.todo) = Len(KontrolerTable)
               /\ \A i \in 1..Len(t.out) : <<KontrolerTable[i], packet.field, t.out[i]>> \in held
          /\ packet.id # AllDevices => Len(t.out) = 1 /\ <<packet.id, packet.field, t.out[1]>> \in held
      BY <2>1 DEF AnswerSound
    <3>3. PICK k \in Nat : k = Len(t.out)
      BY <3>1
    <3>4. k + 0 = k
      OBVIOUS
    <3> QED BY <3>1, <3>2, <3>3, <3>4
  <2>6. packet.type # "Set_Dev"
    BY <2>1 DEF Asks
  <2>7. Answers(m, packet)
    BY <2>1, <2>4, <2>5, <2>6 DEF Answers
  <2> QED BY <1>4, <1>5, <1>6, <1>8, <2>1, <2>2, <2>3, <2>4, <2>7
<1>11. CASE Acknowledge(w)
  <2>1. PICK n : n = [t EXCEPT !.pc = "reread"]
    OBVIOUS
  <2>2. /\ t.pc = "ack" /\ n.pc = "reread" /\ t.mes = packet /\ packet \in Sets /\ packet \in Commands
        /\ packet.id \in Devices \cup {AllDevices} /\ thread' = [thread EXCEPT ![w] = n]
        /\ Publish(Kontroler, UiTopic, HasBeenSet(packet.field))
    BY <1>2, <1>3, <1>11, <2>1 DEF Acknowledge, In, ThreadSound, ThreadOK
  <2>3. HasBeenSet(packet.field) \in Messages /\ Answers(HasBeenSet(packet.field), packet)
    BY <2>2, MessageTypes DEF Answers, Sets
  <2> QED BY <1>4, <1>5, <1>8, <2>2, <2>3
<1>12. CASE Forward(w)
  <2>1. PICK x : x = [topic |-> t.topic, mes |-> t.mes]
    OBVIOUS
  <2>2. /\ t.pc = "forward" /\ thread' = [thread EXCEPT ![w] = NoThread] /\ t.topic \in {InfoTopic, FuncTopic}
        /\ t.mes \in Messages /\ Publish(Kontroler, t.topic, t.mes)
    BY <1>2, <1>12 DEF Forward, In, ThreadOK
  <2>3. x \in Packets /\ x \notin ToUser
    BY <2>1, <2>2 DEF Packets, Topics, OwnTopics, ToUser, InfoTopic, FuncTopic, UiTopic
  <2>4. ~Owing /\ ~Owing'
    BY <1>4, <1>5, <1>6, <2>2
  <2>5. /\ inbox' = inbox /\ outbox'[Cli] = outbox[Cli]
        /\ outbox'[Kontroler] = outbox[Kontroler] \/ outbox'[Kontroler] = Append(outbox[Kontroler], x)
        /\ error'[Kontroler] = "none" => error[Kontroler] = "none"
    BY <1>1, <2>1, <2>2, PublishQueues
  <2> QED BY <1>2, <2>3, <2>4, <2>5, RepliedKept
<1>13. CASE Distribute(w)
  <2>1. /\ t.pc = "start" /\ thread' = [thread EXCEPT ![w] = Begin(packet)] /\ busVars' = busVars
        /\ packet \in Changes \cup UserCommands
    BY <1>2, <1>13 DEF Distribute, In, ThreadSound
  <2>2. packet \in Commands => Begin(packet).pc \in {"read", "ack"}
    BY DEF Begin, NoThread, Commands, Asks, Sets
  <2> QED BY <1>4, <1>5, <1>7, <2>1, <2>2
<1>14. CASE ReadDevice(w)
  <2>1. PICK n : n = [t EXCEPT !.out = Append(@, IF Found(Head(t.todo)) THEN db[Head(t.todo)][t.mes.field]
                                                                        ELSE OutOfBounds),
                               !.todo = Tail(@),
                               !.pc = IF Len(t.todo) = 1 THEN "reply" ELSE "read"]
    OBVIOUS
  <2>2. n.pc \in {"read", "reply"}
    BY <1>2, <2>1 DEF ThreadOK
  <2>3. t.pc = "read" /\ thread' = [thread EXCEPT ![w] = n] /\ busVars' = busVars
    BY <1>14, <2>1 DEF ReadDevice, In
  <2> QED BY <1>4, <1>5, <1>7, <2>2, <2>3
<1>15. CASE Reread(w)
  <2>1. PICK n : n = [t EXCEPT !.pc = "forward", !.mes = packet]
    OBVIOUS
  <2>2. n.pc = "forward"
    BY <1>2, <2>1 DEF ThreadOK
  <2>3. t.pc = "reread" /\ thread' = [thread EXCEPT ![w] = n] /\ busVars' = busVars
    BY <1>15, <2>1 DEF Reread, In
  <2> QED BY <1>4, <1>5, <1>7, <2>2, <2>3
<1>16. CASE Apply(w)
  <2>1. t.pc = "apply" /\ thread' = [thread EXCEPT ![w] = NoThread] /\ busVars' = busVars
    BY <1>16 DEF Apply, In
  <2> QED BY <1>4, <1>5, <1>6, <1>7, <2>1
<1> QED BY <1>9, <1>10, <1>11, <1>12, <1>13, <1>14, <1>15, <1>16 DEF Run

\* The user types a line.
LEMMA RepliedCommand ==
  ASSUME BusTypeOK, CliTypeOK, Replied, NEW l \in Lines, Command(l), UNCHANGED <<piVars, kontrolerVars>>
  PROVE  Replied'
<1>1. /\ Kontroler \in Clients /\ Cli \in Clients /\ Kontroler # Cli /\ Len(pending) \in Nat
      /\ \A d \in Clients : inbox[d] \in Seq(Packets) /\ outbox[d] \in Seq(Packets)
      /\ pending \in Seq(Commands)
  BY ReplyTypes
<1>2. PICK x : x = [topic |-> ControlerTopic, mes |-> l.mes]
  OBVIOUS
<1>3. x \in Packets /\ x \in Requests /\ x.mes \in Commands /\ x.mes = l.mes
  BY <1>2, LinesAssumption, MessageTypes DEF Command, Requests, Packets, Topics, OwnTopics
<1>4. /\ inbox' = inbox /\ outbox'[Kontroler] = outbox[Kontroler] /\ error'[Kontroler] = error[Kontroler]
      /\ \/ /\ pending' = Append(pending, x.mes) /\ outbox'[Cli] = Append(outbox[Cli], x)
         \/ pending' = pending /\ outbox'[Cli] = outbox[Cli]
  BY <1>1, <1>2, <1>3, PublishQueues DEF Command
<1>5. UNCHANGED <<packet, held>> /\ (Owing' <=> Owing) /\ Owed' = Owed /\ Replying' = Replying
  BY DEF piVars, kontrolerVars, Owing, Owed, Replying, Answers
<1>6. CASE pending' = pending /\ outbox'[Cli] = outbox[Cli]
  BY <1>4, <1>5, <1>6, RepliedKept
<1>7. CASE pending' = Append(pending, x.mes) /\ outbox'[Cli] = Append(outbox[Cli], x)
  <2>1. PICK i \in Nat, j \in Nat :
          /\ Fits(inbox[Cli], ToUser, Replying, pending, 0, i)
          /\ Fits(outbox[Kontroler], ToUser, Replying, pending, i, j)
          /\ j <= Len(pending)
          /\ error[Kontroler] = "none" => Asked(j)
    BY DEF Replied
  <2>2. PICK n \in Nat : n = Len(pending)
    BY <1>1
  <2>3. /\ Len(pending') = n + 1 /\ pending'[n + 1] = x.mes /\ \A k \in 1..n : pending'[k] = pending[k]
    BY <1>1, <1>3, <1>7, <2>2, AppendAt
  <2>4. \A k \in Nat : 1 <= k /\ k <= n => pending'[k] = pending[k]
    BY <2>3
  <2>5. i <= j /\ j <= n
    BY <1>1, <2>1, <2>2, FitsOrder
  <2>6. Fits(inbox[Cli], ToUser, Replying, pending', 0, i)
    <3>1. \A k \in Nat : 1 <= k /\ k <= i => pending'[k] = pending[k]
      BY <2>4, <2>5
    <3> QED BY <1>1, <2>1, <3>1, FitsOther
  <2>7. Fits(outbox[Kontroler], ToUser, Replying, pending', i, j)
    <3>1. \A k \in Nat : 1 <= k /\ k <= j => pending'[k] = pending[k]
      BY <2>4, <2>5
    <3> QED BY <1>1, <2>1, <3>1, FitsOther
  <2>8. ASSUME error[Kontroler] = "none"
        PROVE  Asked(j)'
    <3>1. PICK k \in Nat : /\ Fits(inbox[Kontroler], Requests, Asking, pending, j + Owed, k)
                           /\ Fits(outbox[Cli], Requests, Asking, pending, k, n)
                           /\ Owing => pending[j + 1] = packet
      BY <2>1, <2>2, <2>8 DEF Asked
    <3>2. k <= n /\ j + Owed <= k
      BY <1>1, <3>1, FitsOrder
    <3>3. Fits(inbox[Kontroler], Requests, Asking, pending', j + Owed, k)
      <4>1. \A e \in Nat : 1 <= e /\ e <= k => pending'[e] = pending[e]
        BY <2>4, <3>2
      <4> QED BY <1>1, <3>1, <4>1, FitsOther
    <3>4. Fits(outbox[Cli], Requests, Asking, pending', k, n)
      BY <1>1, <2>4, <3>1, FitsOther
    <3>5. <<x.mes, pending'[n + 1]>> \in Asking
      BY <1>3, <2>3 DEF Asking
    <3>6. Fits(outbox'[Cli], Requests, Asking, pending', k, n + 1)
      BY <1>1, <1>3, <1>7, <3>4, <3>5, FitsPut
    <3>7. Owing => pending'[j + 1] = packet
      <4>1. Owing => Owed = 1
        BY DEF Owed
      <4>2. Owing => 1 <= j + 1 /\ j + 1 <= n /\ j + 1 \in Nat
        BY <3>2, <4>1
      <4> QED BY <2>4, <3>1, <4>2
    <3> QED BY <1>4, <1>5, <2>3, <3>1, <3>3, <3>6, <3>7 DEF Asked, Requests, Asking
  <2>9. j <= n + 1
    BY <2>5
  <2> QED BY <1>4, <1>5, <2>1, <2>3, <2>6, <2>7, <2>8, <2>9 DEF Replied, ToUser
<1> QED BY <1>4, <1>6, <1>7

\* The first reply answers the first command that is open.
LEMMA FirstAnswers ==
  ASSUME BusTypeOK, CliTypeOK, SpacedInv, Replied, inbox[Cli] # <<>>
  PROVE  pending # <<>> /\ Answers(Head(inbox[Cli]).mes, Head(pending))
<1>1. /\ Cli \in Clients /\ pending \in Seq(Commands) /\ Len(pending) \in Nat /\ Kontroler \in Clients
      /\ \A d \in Clients : inbox[d] \in Seq(Packets) /\ outbox[d] \in Seq(Packets)
  BY ReplyTypes
<1>2. PICK x : x = Head(inbox[Cli])
  OBVIOUS
<1>3. x \in Packets /\ Received(Cli, x)
  BY <1>1, <1>2, TailAt DEF SpacedInv, PacketsSound
<1>4. x \in ToUser
  BY <1>3, ReceivedParts DEF ToUser
<1>5. PICK i \in Nat, j \in Nat :
        /\ Fits(inbox[Cli], ToUser, Replying, pending, 0, i)
        /\ Fits(outbox[Kontroler], ToUser, Replying, pending, i, j)
        /\ j <= Len(pending)
  BY DEF Replied
<1>6. <<x.mes, pending[0 + 1]>> \in Replying /\ Fits(Tail(inbox[Cli]), ToUser, Replying, pending, 0 + 1, i)
  BY <1>1, <1>2, <1>4, <1>5, FitsTake
<1>7. 1 <= i /\ i <= j
  <2>1. Tail(inbox[Cli]) \in Seq(Packets) /\ 0 + 1 = 1
    BY <1>1, TailAt
  <2> QED BY <1>1, <1>5, <1>6, <2>1, FitsOrder
<1>8. Len(pending) # 0
  BY <1>1, <1>5, <1>7
<1>9. pending # <<>>
  BY <1>8
<1>10. pending[1] = Head(pending)
  BY <1>1, <1>9, TailAt
<1> QED BY <1>2, <1>6, <1>9, <1>10 DEF Replying

LEMMA RepliedDisplay ==
  ASSUME BusTypeOK, CliTypeOK, SpacedInv, Replied, Display, UNCHANGED <<piVars, kontrolerVars>>
  PROVE  Replied'
<1>1. /\ Cli \in Clients /\ Kontroler \in Clients /\ Kontroler # Cli /\ Len(pending) \in Nat
      /\ \A d \in Clients : inbox[d] \in Seq(Packets) /\ outbox[d] \in Seq(Packets)
      /\ pending \in Seq(Commands) /\ Owed \in {0, 1} /\ (Owing <=> Owed = 1)
  BY ReplyTypes
<1>2. PICK x : x = Head(inbox[Cli])
  OBVIOUS
<1>3. /\ inbox[Cli] # <<>> /\ pending # <<>> /\ inbox'[Cli] = Tail(inbox[Cli]) /\ pending' = Tail(pending)
      /\ inbox'[Kontroler] = inbox[Kontroler] /\ UNCHANGED <<outbox, error>>
  BY <1>1, FirstAnswers DEF Display, Arrived, BusTypeOK
<1>4. x \in Packets /\ Received(Cli, x)
  BY <1>1, <1>2, <1>3, TailAt DEF SpacedInv, PacketsSound
<1>5. x \in ToUser
  BY <1>4, ReceivedParts DEF ToUser
<1>6. UNCHANGED <<packet, held>> /\ (Owing' <=> Owing) /\ Owed' = Owed /\ Replying' = Replying
  BY DEF piVars, kontrolerVars, Owing, Owed, Replying, Answers
<1>7. PICK i \in Nat, j \in Nat :
        /\ Fits(inbox[Cli], ToUser, Replying, pending, 0, i)
        /\ Fits(outbox[Kontroler], ToUser, Replying, pending, i, j)
        /\ j <= Len(pending)
        /\ error[Kontroler] = "none" => Asked(j)
  BY DEF Replied
<1>8. PICK n \in Nat \ {0} : /\ n = Len(pending) /\ Len(pending') = n - 1
                             /\ \A e \in 1..(n - 1) : pending'[e] = pending[e + 1]
  BY <1>1, <1>3, TailAt
<1>9. \A e \in Nat : 1 <= e /\ e < n => pending'[e] = pending[e + 1]
  BY <1>8
<1>10. Tail(inbox[Cli]) \in Seq(Packets) /\ Fits(Tail(inbox[Cli]), ToUser, Replying, pending, 0 + 1, i)
  BY <1>1, <1>2, <1>3, <1>5, <1>7, FitsTake, TailAt
<1>11. 1 <= i /\ i <= j /\ j <= n
  <2>1. 0 + 1 <= i /\ i <= j
    BY <1>1, <1>7, <1>10, FitsOrder
  <2> QED BY <1>7, <1>8, <2>1
<1>12. PICK a \in Nat, b \in Nat : a = i - 1 /\ b = j - 1 /\ a + 1 = i /\ b + 1 = j
  BY <1>11
<1>13. Fits(Tail(inbox[Cli]), ToUser, Replying, pending', 0, i - 1)
  <2>1. \A e \in Nat : 1 <= e /\ e < i => pending'[e] = pending[e + 1]
    BY <1>9, <1>11
  <2> QED BY <1>10, <2>1, FitsShift
<1>14. Fits(outbox[Kontroler], ToUser, Replying, pending', a, j - 1)
  <2>1. \A e \in Nat : 1 <= e /\ e < j => pending'[e] = pending[e + 1]
    BY <1>9, <1>11
  <2>2. Fits(outbox[Kontroler], ToUser, Replying, pending, a + 1, j)
    BY <1>7, <1>12
  <2> QED BY <1>1, <2>1, <2>2, FitsShift
<1>15. ASSUME error[Kontroler] = "none"
       PROVE  Asked(b)'
  <2>1. PICK k \in Nat : /\ Fits(inbox[Kontroler], Requests, Asking, pending, j + Owed, k)
                         /\ Fits(outbox[Cli], Requests, Asking, pending, k, n)
                         /\ Owing => pending[j + 1] = packet
    BY <1>7, <1>8, <1>15 DEF Asked
  <2>2. k <= n /\ j + Owed <= k
    BY <1>1, <2>1, FitsOrder
  <2>3. PICK m \in Nat, c \in Nat : m = b + Owed /\ m + 1 = j + Owed /\ c = k - 1 /\ c + 1 = k
    BY <1>1, <1>11, <1>12, <2>2
  <2>4. Fits(inbox[Kontroler], Requests, Asking, pending', m, k - 1)
    <3>1. \A e \in Nat : 1 <= e /\ e < k => pending'[e] = pending[e + 1]
      BY <1>9, <2>2
    <3>2. Fits(inbox[Kontroler], Requests, Asking, pending, m + 1, k)
      BY <2>1, <2>3
    <3> QED BY <1>1, <3>1, <3>2, FitsShift
  <2>5. Fits(outbox[Cli], Requests, Asking, pending', c, n - 1)
    <3>1. Fits(outbox[Cli], Requests, Asking, pending, c + 1, n)
      BY <2>1, <2>3
    <3> QED BY <1>1, <1>9, <3>1, FitsShift
  <2>6. Owing => pending'[b + 1] = packet
    <3>1. Owing => 1 <= j /\ j < n
      BY <1>1, <1>11, <2>2
    <3> QED BY <1>9, <1>12, <2>1, <3>1
  <2> QED BY <1>3, <1>6, <1>8, <2>3, <2>4, <2>5, <2>6 DEF Asked, Requests, Asking
<1>16. b <= n - 1
  BY <1>11, <1>12
<1> QED BY <1>3, <1>6, <1>8, <1>12, <1>13, <1>14, <1>15, <1>16 DEF Replied, ToUser

\* What a thread has read stays read, and was held.
LEMMA AnswersKept ==
  ASSUME UNCHANGED <<packet, thread>>, held \subseteq held', \A w \in Workers : AnswerSound(thread[w])
  PROVE  \A w \in Workers : AnswerSound(thread[w])'
BY DEF AnswerSound

LEMMA AnswersCallback ==
  ASSUME Spaced, KontrolerTypeOK, NEW w \in Workers, Callback(w)
  PROVE  \A v \in Workers : AnswerSound(thread[v])'
<1>1. \A v \in Workers : thread[v].pc = "idle"
  BY DEF Callback, ThreadsIdle, BusyThreads
<1>2. thread'[w].pc \in {"start", "missing"} /\ \A v \in Workers : v # w => thread'[v].pc = "idle"
  BY <1>1 DEF Callback, KontrolerTypeOK, ThreadOK
<1> QED BY <1>2 DEF AnswerSound

LEMMA AnswersRun ==
  ASSUME KontrolerTypeOK, SpacedInv, DbValuesWereHeld, NEW w \in Workers, Run(w), UNCHANGED held,
         AnswerSound(thread[w])
  PROVE  \A v \in Workers : AnswerSound(thread[v])'
<1> DEFINE t == thread[w]
<1>1. /\ t.pc # "idle" /\ packet' = packet /\ ThreadSound(t) /\ ThreadOK(t)
      /\ \A u \in Workers : u # w => thread[u].pc = "idle"
  BY DEF Run, NoDevice, Distribute, ReadDevice, Answer, Acknowledge, Reread, Forward, Apply, In,
         SpacedInv, OneThread, KontrolerTypeOK
<1>2. ASSUME NEW n, thread' = [thread EXCEPT ![w] = n], AnswerSound(n)
      PROVE  \A v \in Workers : AnswerSound(thread[v])'
  <2>1. thread'[w] = n /\ \A u \in Workers : u # w => thread'[u].pc = "idle"
    BY <1>1, <1>2 DEF KontrolerTypeOK
  <2>2. \A u \in Workers : u # w => AnswerSound(thread[u])'
    BY <2>1 DEF AnswerSound
  <2>3. AnswerSound(thread[w])'
    <3>1. thread'[w] = n /\ packet' = packet /\ held' = held
      BY <1>1, <2>1
    <3> HIDE DEF t
    <3> QED BY <1>2, <3>1 DEF AnswerSound
  <2> QED BY <2>2, <2>3
<1>3. AnswerSound(NoThread)
  BY DEF AnswerSound, NoThread
<1>4. CASE NoDevice(w) \/ Answer(w) \/ Forward(w) \/ Apply(w)
  BY <1>2, <1>3, <1>4 DEF NoDevice, Answer, Forward, Apply
<1>5. CASE Distribute(w)
  <2>1. AnswerSound(Begin(packet))
    <3>1. CASE packet.type = "Get_Dev"
      <4>1. PICK n : n = [NoThread EXCEPT !.pc = "read", !.mes = packet,
                            !.todo = IF packet.id = AllDevices THEN KontrolerTable ELSE <<packet.id>>]
        OBVIOUS
      <4>2. Begin(packet) = n /\ n.pc = "read" /\ n.out = <<>> /\ Len(n.out) = 0
            /\ n.todo = IF packet.id = AllDevices THEN KontrolerTable ELSE <<packet.id>>
        BY <3>1, <4>1 DEF Begin, NoThread
      <4>3. /\ 0 + Len(KontrolerTable) = Len(KontrolerTable)
            /\ \A i \in 1..Len(KontrolerTable) : 0 + i = i
            /\ 1..0 = {}
        BY TableTypes, LenProperties
      <4> QED BY <4>2, <4>3 DEF AnswerSound
    <3>2. CASE packet.type # "Get_Dev"
      <4>1. Begin(packet).pc \notin {"read", "reply"}
        BY <3>2 DEF Begin, NoThread
      <4> QED BY <4>1 DEF AnswerSound
    <3> QED BY <3>1, <3>2
  <2> QED BY <1>2, <1>5, <2>1 DEF Distribute
<1>6. CASE ReadDevice(w)
  <2>1. PICK y : y = IF Found(Head(t.todo)) THEN db[Head(t.todo)][t.mes.field] ELSE OutOfBounds
    OBVIOUS
  <2>2. PICK n : n = [t EXCEPT !.out = Append(@, y), !.todo = Tail(@),
                               !.pc = IF Len(t.todo) = 1 THEN "reply" ELSE "read"]
    OBVIOUS
  <2>3. /\ n.out = Append(t.out, y) /\ n.todo = Tail(t.todo) /\ n.pc = IF Len(t.todo) = 1 THEN "reply" ELSE "read"
        /\ t.pc = "read" /\ thread' = [thread EXCEPT ![w] = n]
    BY <1>1, <1>6, <2>1, <2>2 DEF ThreadOK, ReadDevice, In
  <2>4. /\ t.todo # <<>> /\ t.todo \in Seq(Targets) /\ t.mes = packet /\ packet \in Asks
        /\ packet.id \in Devices \cup {AllDevices} /\ packet.field \in Fields
    BY <1>1, <2>3 DEF ThreadOK, ThreadSound, Asks
  <2>5. PICK i \in Nat, k \in Nat : i = Len(t.out) /\ k = Len(t.todo)
    BY <1>1, <2>4, LenProperties DEF ThreadOK
  <2>6. Len(n.todo) = k - 1 /\ n.todo \in Seq(Targets) /\ k # 0
    BY <2>3, <2>4, <2>5, TailAt
  <2>7. /\ Len(n.out) = i + 1 /\ (i = 0 => n.out[1] = y) /\ n.out[i + 1] = y
        /\ \A e \in 1..i : n.out[e] = t.out[e]
    <3>1. PICK T : t.out \in Seq(T) /\ y \in T
      <4>1. t.out \in Seq(Texts \cup {OutOfBounds})
        BY <1>1 DEF ThreadOK
      <4>2. t.out \in Seq(Texts \cup {OutOfBounds} \cup {y})
        BY <4>1, SeqMonotonic
      <4> QED BY <4>2
    <3> QED BY <2>3, <2>5, <3>1, AppendAt
  <2>8. \A d \in Devices, f \in Fields : <<d, f, db[d][f]>> \in held
    BY DEF DbValuesWereHeld, SpacedInv
  <2>9. ASSUME packet.id = AllDevices
        PROVE  /\ Len(n.out) + Len(n.todo) = Len(KontrolerTable)
               /\ \A e \in 1..Len(n.out) : <<KontrolerTable[e], packet.field, n.out[e]>> \in held
               /\ \A e \in 1..Len(n.todo) : n.todo[e] = KontrolerTable[Len(n.out) + e]
    <3>1. /\ i + k = Len(KontrolerTable)
          /\ \A e \in 1..i : <<KontrolerTable[e], packet.field, t.out[e]>> \in held
          /\ \A e \in 1..k : t.todo[e] = KontrolerTable[i + e]
      BY <2>3, <2>5, <2>9 DEF AnswerSound
    <3>2. (i + 1) + (k - 1) = i + k /\ i + 1 \in 1..Len(KontrolerTable) /\ 1 \in 1..k
      BY <2>6, <3>1
    <3>3. Head(t.todo) = KontrolerTable[i + 1]
      BY <2>4, <3>1, <3>2, TailAt
    <3>4. KontrolerTable[i + 1] \in Devices
      BY <3>2, TableTypes, ElementOfSeq
    <3>5. <<KontrolerTable[i + 1], packet.field, y>> \in held
      BY <2>1, <2>4, <2>8, <3>3, <3>4 DEF Found
    <3>6. ASSUME NEW e \in 1..(i + 1)
          PROVE  <<KontrolerTable[e], packet.field, n.out[e]>> \in held
      <4>1. e \in 1..i \/ e = i + 1
        OBVIOUS
      <4> QED BY <2>7, <3>1, <3>5, <4>1
    <3>7. ASSUME NEW e \in 1..(k - 1)
          PROVE  n.todo[e] = KontrolerTable[(i + 1) + e]
      <4>1. n.todo[e] = t.todo[e + 1]
        BY <2>3, <2>4, <2>5, TailAt
      <4>2. e + 1 \in 1..k /\ i + (e + 1) = (i + 1) + e
        OBVIOUS
      <4> QED BY <3>1, <4>1, <4>2
    <3> QED BY <2>6, <2>7, <3>1, <3>2, <3>6, <3>7
  <2>10. n.pc = "reply" => n.todo = <<>>
    <3>1. n.pc = "reply" => Len(n.todo) = 0
      BY <2>3, <2>5, <2>6
    <3> QED BY <2>6, <3>1, EmptySeq
  <2>11. ASSUME packet.id # AllDevices
         PROVE  n.pc = "reply" /\ Len(n.out) = 1 /\ <<packet.id, packet.field, n.out[1]>> \in held
    <3>1. t.out = <<>> /\ t.todo = <<packet.id>> /\ packet.id \in Devices
      BY <2>3, <2>4, <2>11 DEF AnswerSound
    <3>2. k = 1 /\ i = 0 /\ Head(t.todo) = packet.id
      BY <2>5, <3>1
    <3>3. y = db[packet.id][packet.field]
      BY <2>1, <2>4, <3>1, <3>2 DEF Found
    <3>4. n.pc = "reply" /\ n.out[1] = y /\ Len(n.out) = 1
      BY <2>3, <2>5, <2>7, <3>2
    <3> QED BY <2>4, <2>8, <3>1, <3>3, <3>4
  <2>12. AnswerSound(n)
    BY <2>9, <2>10, <2>11 DEF AnswerSound
  <2> QED BY <1>2, <2>3, <2>12
<1>7. CASE Acknowledge(w)
  <2>1. PICK n : n = [t EXCEPT !.pc = "reread"]
    OBVIOUS
  <2>2. thread' = [thread EXCEPT ![w] = n] /\ n.pc = "reread"
    BY <1>1, <1>7, <2>1 DEF Acknowledge, ThreadOK
  <2> QED BY <1>2, <2>2 DEF AnswerSound
<1>8. CASE Reread(w)
  <2>1. PICK n : n = [t EXCEPT !.pc = "forward", !.mes = packet]
    OBVIOUS
  <2>2. thread' = [thread EXCEPT ![w] = n] /\ n.pc = "forward"
    BY <1>1, <1>8, <2>1 DEF Reread, ThreadOK
  <2> QED BY <1>2, <2>2 DEF AnswerSound
<1> QED BY <1>4, <1>5, <1>6, <1>7, <1>8 DEF Run

\* The steps that are no fault.
LEMMA ReplyStep ==
  ASSUME Spaced, TypeOK, SpacedInv, DbValuesWereHeld, ReplyInv, Step
  PROVE  ReplyInv'
<1>1. /\ BusTypeOK /\ PiTypeOK /\ KontrolerTypeOK /\ CliTypeOK
      /\ Kontroler \in Clients /\ Cli \in Clients /\ Kontroler \notin Pis /\ Cli \notin Pis /\ Pis \subseteq Clients
  BY ReplyTypes DEF TypeOK, Clients
<1>2. \A c \in {Cli, Kontroler} : error'[c] # "socket" => subscribed'[c]
  BY <1>1, StepKeeps DEF ReplyInv
<1>3. /\ \A w \in Workers : AnswerSound(thread[w])
      /\ error'[Cli] # "socket" => Replied
      /\ error'[Cli] # "socket" => subscribed[Cli]
      /\ error[Kontroler] = "none" => subscribed[Kontroler]
  BY <1>1, StepKeeps DEF ReplyInv
<1>4. held \subseteq held'
  <2>1. ASSUME NEW d, NEW f, NEW v, WriteField(d, f, v)
        PROVE  held \subseteq held'
    BY <2>1 DEF WriteField
  <2>2. ASSUME NEW p, NEW w, Work(p, w)
        PROVE  held \subseteq held'
    <3>1. CASE Write(p, w)
      BY <2>1, <3>1 DEF Write
    <3>2. CASE ~Write(p, w)
      BY <2>2, <3>2 DEF Work, Split, SplitAgain, ReadTopic, Loop, Format, Report
    <3> QED BY <3>1, <3>2
  <2>3. ASSUME NEW v, Sense(v)
        PROVE  held \subseteq held'
    BY <2>1, <2>3 DEF Sense
  <2>4. CASE PiStep \/ NewReading
    BY <2>2, <2>3, <2>4 DEF PiStep, NewReading, SensorReport, SensorPublish, CallbackTopic, CallbackMes
  <2>5. CASE UNCHANGED piVars
    BY <2>5 DEF piVars
  <2> QED BY <2>4, <2>5 DEF Step
<1>5. ASSUME UNCHANGED kontrolerVars
      PROVE  \A w \in Workers : AnswerSound(thread[w])'
  BY <1>3, <1>4, <1>5, AnswersKept DEF kontrolerVars
<1>6. ASSUME UNCHANGED <<kontrolerVars, pending>>, UNCHANGED <<inbox[Cli], outbox[Cli], outbox[Kontroler]>>,
             UNCHANGED <<inbox[Kontroler], error[Kontroler]>>
      PROVE  ReplyInv'
  <2>1. UNCHANGED <<pending, packet>> /\ (Owing' <=> Owing)
    BY <1>6 DEF kontrolerVars, Owing
  <2>2. Replied => Replied'
    BY <1>1, <1>4, <1>6, <2>1, RepliedKept
  <2> QED BY <1>2, <1>3, <1>5, <1>6, <2>2 DEF ReplyInv
<1>7. ASSUME NEW c \in Clients, BusStep(c), UNCHANGED <<piVars, kontrolerVars, pending>>
      PROVE  ReplyInv'
  <2>1. CASE Subscribe(c)
    BY <1>6, <1>7, <2>1 DEF Subscribe
  <2>2. CASE Send(c)
    <3>1. error'[Cli] # "socket" => Replied'
      BY <1>1, <1>3, <1>7, <2>2, RepliedSend
    <3> QED BY <1>2, <1>5, <1>7, <3>1 DEF ReplyInv
  <2> QED BY <1>7, <2>1, <2>2 DEF BusStep
<1>8. ASSUME PiStep \/ NewReading, UNCHANGED <<kontrolerVars, pending>>
      PROVE  ReplyInv'
  <2>1. ASSUME NEW p \in Pis, NEW t, NEW m, PublishOrExit(p, t, m)
        PROVE  UNCHANGED <<inbox[Cli], outbox[Cli], outbox[Kontroler], inbox[Kontroler], error[Kontroler]>>
    BY <1>1, <2>1, PublishQueues DEF PublishOrExit
  <2>2. ASSUME NEW p \in Pis, CallbackTopic(p) \/ \E w \in Workers : CallbackMes(p, w)
        PROVE  UNCHANGED <<inbox[Cli], outbox[Cli], outbox[Kontroler], inbox[Kontroler], error[Kontroler]>>
    BY <1>1, <2>2 DEF CallbackTopic, CallbackMes, BusTypeOK
  <2>3. ASSUME NEW p \in Pis, NEW w \in Workers, Work(p, w)
        PROVE  UNCHANGED <<inbox[Cli], outbox[Cli], outbox[Kontroler], inbox[Kontroler], error[Kontroler]>>
    BY <2>1, <2>3 DEF Work, Split, SplitAgain, ReadTopic, Loop, Write, Format, Report, busVars
  <2>4. ASSUME SensorReport \/ SensorPublish \/ NewReading
        PROVE  UNCHANGED <<inbox[Cli], outbox[Cli], outbox[Kontroler], inbox[Kontroler], error[Kontroler]>>
    <3>1. "senzorski_pi" \in Pis
      BY DEF Pis
    <3> QED BY <2>1, <2>4, <3>1 DEF SensorReport, SensorPublish, NewReading, Sense, busVars
  <2> QED BY <1>6, <1>8, <2>2, <2>3, <2>4 DEF PiStep
<1>9. ASSUME NEW w \in Workers, Callback(w) \/ Run(w), UNCHANGED <<piVars, pending>>
      PROVE  ReplyInv'
  <2>1. \A v \in Workers : AnswerSound(thread[v])'
    BY <1>1, <1>3, <1>9, AnswersCallback, AnswersRun DEF piVars
  <2>2. error'[Cli] # "socket" => Replied'
    BY <1>1, <1>3, <1>9, RepliedCallback, RepliedRun
  <2> QED BY <1>2, <2>1, <2>2 DEF ReplyInv
<1>10. ASSUME NewCommand \/ Display, UNCHANGED <<piVars, kontrolerVars>>
       PROVE  ReplyInv'
  <2>1. error'[Cli] # "socket" => Replied'
    BY <1>1, <1>3, <1>10, RepliedCommand, RepliedDisplay DEF NewCommand
  <2> QED BY <1>2, <1>5, <1>10, <2>1 DEF ReplyInv
<1> QED BY <1>7, <1>8, <1>9, <1>10, Apart DEF Step, KontrolerNext

\* A controller that is not started again loses no request.
LEMMA ReplyFault ==
  ASSUME Kontroler \notin MayRestart, TypeOK, ReplyInv, Fault
  PROVE  ReplyInv'
<1>1. /\ BusTypeOK /\ PiTypeOK /\ KontrolerTypeOK /\ CliTypeOK
      /\ Kontroler \in Clients /\ Cli \in Clients /\ Kontroler # Cli
      /\ Kontroler \notin Pis /\ Cli \notin Pis /\ Pis \subseteq Clients
  BY ReplyTypes DEF TypeOK, Clients
<1>2. ASSUME UNCHANGED <<kontrolerVars, pending>>, held \subseteq held',
             UNCHANGED <<inbox[Cli], outbox[Cli], outbox[Kontroler]>>,
             error'[Cli] # "socket" => error[Cli] # "socket" /\ subscribed'[Cli],
             error'[Kontroler] # "socket" => /\ error[Kontroler] # "socket" /\ subscribed'[Kontroler]
                                             /\ UNCHANGED <<inbox[Kontroler], error[Kontroler]>>
      PROVE  ReplyInv'
  <2>1. \A w \in Workers : AnswerSound(thread[w])'
    BY <1>2, AnswersKept DEF ReplyInv, kontrolerVars
  <2>2. UNCHANGED <<pending, packet>> /\ (Owing' <=> Owing)
    BY <1>2 DEF kontrolerVars, Owing
  <2>3. Replied => Replied'
    BY <1>1, <1>2, <2>2, RepliedKept
  <2> QED BY <1>2, <2>1, <2>3 DEF ReplyInv
<1>3. ASSUME NEW c \in Clients, Break(c)
      PROVE  ReplyInv'
  <2>1. /\ error' = [error EXCEPT ![c] = "socket"] /\ inbox' = [inbox EXCEPT ![c] = <<>>]
        /\ subscribed' = [subscribed EXCEPT ![c] = FALSE]
        /\ UNCHANGED <<outbox, held, kontrolerVars, pending>>
    BY <1>3 DEF Break, Disconnect, piVars
  <2>2. CASE c = Cli
    <3>1. /\ error'[Cli] = "socket" /\ error'[Kontroler] = error[Kontroler]
          /\ subscribed'[Kontroler] = subscribed[Kontroler]
      BY <1>1, <2>1, <2>2 DEF BusTypeOK
    <3>2. \A w \in Workers : AnswerSound(thread[w])'
      BY <2>1, AnswersKept DEF ReplyInv, kontrolerVars
    <3> QED BY <3>1, <3>2 DEF ReplyInv
  <2>3. CASE c # Cli
    <3>1. UNCHANGED <<inbox[Cli], error[Cli], subscribed[Cli]>>
      BY <1>1, <2>1, <2>3 DEF BusTypeOK
    <3>2. error'[Kontroler] # "socket" => UNCHANGED <<inbox[Kontroler], error[Kontroler], subscribed[Kontroler]>>
      BY <1>1, <2>1 DEF BusTypeOK
    <3> QED BY <1>2, <2>1, <3>1, <3>2 DEF ReplyInv
  <2> QED BY <2>2, <2>3
<1>4. ASSUME NEW c \in Pis, RestartPi(c), UNCHANGED <<kontrolerVars, pending>>
      PROVE  ReplyInv'
  <2>1. Reboot(c) /\ held \subseteq held'
    BY <1>4 DEF RestartPi
  <2>2. c # Cli /\ c # Kontroler
    BY <1>1
  <2>3. UNCHANGED <<inbox[Cli], outbox[Cli], outbox[Kontroler], inbox[Kontroler]>>
    BY <1>1, <2>1, <2>2 DEF Reboot, BusTypeOK
  <2>4. UNCHANGED <<error[Cli], error[Kontroler], subscribed[Cli], subscribed[Kontroler]>>
    BY <1>1, <2>1, <2>2 DEF Reboot, BusTypeOK
  <2>5. error[Cli] # "socket" => subscribed[Cli]
    BY DEF ReplyInv
  <2>6. error[Kontroler] # "socket" => subscribed[Kontroler]
    BY DEF ReplyInv
  <2> QED BY <1>2, <1>4, <2>1, <2>3, <2>4, <2>5, <2>6
<1> QED BY <1>3, <1>4 DEF Fault, Restart

LEMMA ReplyNext ==
  /\ Spaced /\ Kontroler \notin MayRestart
  /\ TypeOK /\ SpacedInv /\ DbValuesWereHeld /\ ReplyInv /\ [Next]_vars
  => ReplyInv'
<1> SUFFICES ASSUME Spaced, Kontroler \notin MayRestart, TypeOK, SpacedInv, DbValuesWereHeld, ReplyInv, [Next]_vars
             PROVE  ReplyInv'
  OBVIOUS
<1>1. CASE UNCHANGED vars
  <2>1. UNCHANGED <<inbox, outbox, error, subscribed, packet, thread, pending, held>>
    BY <1>1 DEF vars, busVars, piVars, kontrolerVars
  <2>2. \A w \in Workers : AnswerSound(thread[w])'
    BY <2>1, AnswersKept DEF ReplyInv
  <2>3. Replied => Replied'
    BY <2>1, RepliedKept DEF TypeOK, Owing
  <2> QED BY <2>1, <2>2, <2>3 DEF ReplyInv
<1>2. CASE Step
  BY <1>2, ReplyStep
<1> QED BY <1>1, <1>2, ReplyFault DEF Next

LEMMA ReplyInit == Init => ReplyInv
<1> SUFFICES ASSUME Init PROVE ReplyInv
  OBVIOUS
<1>1. /\ Kontroler \in Clients /\ Cli \in Clients
      /\ inbox[Cli] = <<>> /\ outbox[Cli] = <<>> /\ inbox[Kontroler] = <<>> /\ outbox[Kontroler] = <<>>
      /\ pending = <<>> /\ Len(pending) = 0 /\ subscribed[Cli] /\ subscribed[Kontroler]
      /\ \A w \in Workers : thread[w].pc = "idle"
  BY DEF Clients, Init, BusInit, CliInit, KontrolerInit, NoThread
<1>2. ~Owing /\ 0 + Owed = 0
  BY <1>1 DEF Owing, Owed
<1>3. Asked(0)
  BY <1>1, <1>2, FitsEmpty DEF Asked
<1>4. Replied
  BY <1>1, <1>3, FitsEmpty DEF Replied
<1> QED BY <1>1, <1>4 DEF ReplyInv, AnswerSound

\* Each reply the user interface prints answers the oldest open command, with a value
\* that device has had, or one of each device in the order of the table, when the controller works on one message at a time and is not
\* started again: requests, the thread and replies keep the order typed, and only a
\* controller that answers no more leaves a command out.
THEOREM RepliesAnswer ==
  ASSUME Spaced, Kontroler \notin MayRestart
  PROVE  Spec => RepliesInOrder
<1>1. TypeOK /\ SpacedInv /\ ReplyInv =>
        [Display => pending # <<>> /\ Answers(Head(inbox[Cli]).mes, Head(pending))]_vars
  <2>1. SUFFICES ASSUME TypeOK, SpacedInv, ReplyInv, Display
                 PROVE  pending # <<>> /\ Answers(Head(inbox[Cli]).mes, Head(pending))
    OBVIOUS
  <2>2. error[Cli] # "socket" /\ inbox[Cli] # <<>>
    BY <2>1 DEF Display, Arrived
  <2> QED BY <2>1, <2>2, FirstAnswers DEF TypeOK, ReplyInv
<1>2. Init => ReplyInv
  BY ReplyInit
<1>3. TypeOK /\ SpacedInv /\ DbValuesWereHeld /\ ReplyInv /\ [Next]_vars => ReplyInv'
  BY ReplyNext
<1>4. Spec => [](TypeOK /\ SpacedInv)
  BY SpacedInvariant
<1>5. Spec => []DbValuesWereHeld
  BY ReplicaShowsHeldValues
<1> QED BY <1>1, <1>2, <1>3, <1>4, <1>5, PTL DEF Spec, RepliesInOrder

=============================================================================
