----------------------------- MODULE SmartHome -----------------------------
(***************************************************************************)
(* The smart home: the two pis, the controller and the command line        *)
(* interface, composed through the broker.                                 *)
(***************************************************************************)
EXTENDS Pi, Kontroler, Cli

CONSTANTS
  UserLoad,     \* BOUND: the user types only below this much work in the home
  MaxFaults     \* BOUND on restarts of programs and connections that break

ASSUME LoadAssumption == UserLoad \in Nat /\ MaxFaults \in Nat

VARIABLES
  faults,     \* number of restarts and broken connections
  stale,      \* HISTORY: <<device, field>> the controller has not been told since
              \* the device or the controller was started again
  unaware     \* HISTORY: actuators whose room had no reading since a restart

history == <<faults, stale, unaware>>
vars == <<busVars, piVars, kontrolerVars, pending, history>>

HistoryTypeOK == /\ faults \in Nat /\ stale \subseteq Devices \X Fields
                 /\ unaware \subseteq Actuators

TypeOK == BusTypeOK /\ PiTypeOK /\ KontrolerTypeOK /\ CliTypeOK /\ HistoryTypeOK

Init == /\ BusInit /\ PiInit /\ KontrolerInit /\ CliInit
        /\ faults = 0 /\ stale = {} /\ unaware = {}

\* The work under way: packets, callbacks, threads.  The sources of new work,
\* the sensor thread and the user, act only while it is below a bound; a sensor
\* thread whose client has failed adds none.
Load == InFlight + Cardinality({c \in Clients : up[c] /\ delivering[c] # NoPacket})
          + Cardinality(Busy("senzorski_pi")) + Cardinality(Busy("aktuatorski_pi"))
          + Cardinality(BusyThreads)

BusStep(c) == Send(c) \/ Subscribe(c)

NewReading ==
  /\ error["senzorski_pi"] = "none" => Load < MaxLoad
  /\ \E v \in Readings : Sense(v)

NewCommand == Load < UserLoad /\ \E l \in Lines : Command(l)

\* What this step has queued at a pi: the changes reported, and the actuators
\* whose room a reading was published for.
Queued(p) == Len(outbox'[p]) > Len(outbox[p])
Latest(p) == outbox'[p][Len(outbox'[p])]
Told  == {x \in Devices \X Fields : \E p \in Pis :
            Queued(p) /\ Latest(p).mes.type = "PropertyChanged"
                      /\ Latest(p).mes.id = x[1] /\ Latest(p).mes.field = x[2]}
Heard == {a \in Actuators : \E p \in Pis :
            Queued(p) /\ Latest(p).mes.type = "Sensor_Mes" /\ Latest(p).topic = Place[a]}

\* The history follows: what is published while nobody is subscribed is lost.
Follow ==
  /\ UNCHANGED faults
  /\ stale' = IF subscribed[Kontroler] THEN stale \ Told ELSE stale \cup Told
  /\ unaware' = IF subscribed["aktuatorski_pi"] THEN unaware \ Heard ELSE unaware \cup Heard

Restart(c) ==
  /\ c \in MayRestart
  /\ \/ /\ c \in Pis /\ RestartPi(c) /\ UNCHANGED <<kontrolerVars, pending>>
        /\ stale' = stale \cup (Owned(c) \X Fields)
        /\ unaware' = unaware \cup {a \in Actuators : \E d \in Owned(c) : Place[d] = Place[a]}
     \/ /\ c = Kontroler /\ RestartKontroler /\ UNCHANGED <<piVars, pending>>
        /\ stale' = Devices \X Fields /\ UNCHANGED unaware

Break(c) == Disconnect(c) /\ UNCHANGED <<piVars, kontrolerVars, pending, stale, unaware>>

Fault ==
  /\ faults < MaxFaults /\ faults' = faults + 1
  /\ \E c \in Clients : Restart(c) \/ Break(c)

\* One step of a program or of the network.
Step ==
  \/ \E c \in Clients : BusStep(c) /\ UNCHANGED <<piVars, kontrolerVars, pending>>
  \/ (PiStep \/ NewReading) /\ UNCHANGED <<kontrolerVars, pending>>
  \/ KontrolerNext /\ UNCHANGED <<piVars, pending>>
  \/ (NewCommand \/ Display) /\ UNCHANGED <<piVars, kontrolerVars>>

Next == (Step /\ Follow) \/ Fault

Spec == Init /\ [][Next]_vars

\* Every thread that can take its next step takes it in the end: the refresher
\* threads run every 100 ms for ever, a worker never waits but for the mutex,
\* and the sensor thread loops.  The user and the network owe nothing.
OfBus == UNCHANGED <<piVars, kontrolerVars, pending>> /\ Follow
OfPi == UNCHANGED <<kontrolerVars, pending>> /\ Follow
OfKontroler == UNCHANGED <<piVars, pending>> /\ Follow

\* The sensor thread runs on; the mutex comes back from the callback.
SensorFairness ==
  /\ WF_vars((NewReading \/ SensorReport \/ SensorPublish) /\ OfPi)
  /\ WF_vars(\E w \in Workers : CallbackMes("senzorski_pi", w) /\ OfPi)

Fairness ==
  /\ \A c \in Clients : WF_vars((Send(c) \/ Subscribe(c)) /\ OfBus)
  /\ \A p \in Pis :
       /\ WF_vars(CallbackTopic(p) /\ OfPi)
       /\ \A w \in Workers : WF_vars(Work(p, w) /\ OfPi)
  /\ WF_vars(\E w \in Workers : CallbackMes("aktuatorski_pi", w) /\ OfPi)
  /\ WF_vars((TakeIn \/ \E w \in Workers : Callback(w) \/ LookUp(w)) /\ OfKontroler)
  /\ \A w \in Workers :
       WF_vars((Run(w) \/ BeginSplit(w) \/ EndSplit(w)) /\ OfKontroler)
  /\ WF_vars(Display /\ UNCHANGED <<piVars, kontrolerVars>> /\ Follow)

SensorSpec == Spec /\ SensorFairness
FairSpec == SensorSpec /\ Fairness

-----------------------------------------------------------------------------
(* Safety.                                                                 *)

\* The controller shows no value or info text that the device it names never had,
\* whatever is lost, overtaken or overwritten on the way: distribute_pub_message
\* takes device, field and value from one copy of callback_packet.mes.  The one
\* exception are the texts it has from a str_split that overlapped another one
\* (parse.h keeps the place in strtok's one pointer), which may say anything.
DbValuesWereHeld ==
  \A d \in Devices, f \in Fields :
    <<d, f, db[d][f]>> \in held \/ (mixed /\ db[d][f] = Stray)

\* The strengthening of DbValuesWereHeld that every step preserves: whatever a
\* device, a queue or a thread says about a device was held by it, but for what a
\* thread has from overlapping str_splits.
WasHeld(m) == m.type = "PropertyChanged" => <<m.id, m.field, m.value>> \in held
Mingled(m) == m.type = "PropertyChanged" /\ mixed /\ m.value = Stray

InitialHeld == \A d \in Devices, f \in Fields : <<d, f, Initial[d][f]>> \in held
DevicesHeld == \A d \in Devices, f \in Fields : <<d, f, dev[d][f]>> \in held
QueuesHeld  ==
  /\ \A c \in Clients : \A i \in 1..Len(outbox[c]) : WasHeld(outbox[c][i].mes)
  /\ \A c \in Clients : \A i \in 1..Len(inbox[c]) : WasHeld(inbox[c][i].mes)
WorkersHeld ==
  \A p \in Pis, w \in Workers :
    LET r == worker[p][w]
    IN r.pc = "publish" => <<Visited(p, r), r.field, r.out>> \in held
ThreadsHeld ==
  /\ WasHeld(packet)
  /\ \A w \in Workers : /\ WasHeld(thread[w].mes) \/ Mingled(thread[w].mes)
                        /\ thread[w].pc = "forward" => WasHeld(thread[w].mes)

HeldInv == /\ InitialHeld /\ DevicesHeld /\ QueuesHeld /\ WorkersHeld /\ ThreadsHeld
           /\ DbValuesWereHeld

\* Nothing is on its way: no packet, no callback, no thread at work.
Settled ==
  /\ InFlight = 0
  /\ \A c \in Clients : delivering[c] = NoPacket
  /\ \A p \in Pis : WorkersIdle(p)
  /\ ThreadsIdle
  /\ sensing.pc = "read"

Running(c) == up[c] /\ error[c] = "none"

\* When everything has settled the replica of the controller is the state of
\* the devices, except where a restart has made it stale: update_sensors_value,
\* automation_control, set_dev_value and set_dev_info report every change, in
\* order, and the first report after a restart puts the replica right again.
\* The controller follows even when its own send buffer has overflowed and it
\* can no longer answer.
DbConverges ==
  /\ Settled
  /\ \A p \in Pis : Running(p)
  /\ error[Kontroler] # "socket"
  => \A d \in Devices, f \in Fields : <<d, f>> \notin stale => db[d][f] = dev[d][f]

\* When everything has settled each actuator has the status that the sensor
\* reading of its own room asks for (automation_control), in a home whose users
\* set no values; after a restart of a pi from the first reading of the room on.
AutomationConverges ==
  /\ Settled
  /\ \A p \in Pis : Running(p)
  => \A s \in Sensors, a \in Actuators \ unaware :
       Place[s] = Place[a] =>
         dev[a].Value = IF Degrees[dev[s].Value] > Condition[a] THEN "ON" ELSE "OFF"

\* The reply r is one the code has for the command m.
Answers(r, m) ==
  IF m.id \notin Devices \cup {AllDevices} THEN r = NonExistent
  ELSE IF m.type = "Set_Dev" THEN r = HasBeenSet(m.field)
  ELSE /\ r.type = "Values"
       /\ m.id = AllDevices =>
            /\ Len(r.values) = Len(KontrolerTable)
            /\ \A i \in 1..Len(r.values) : <<KontrolerTable[i], m.field, r.values[i]>> \in held
       /\ m.id # AllDevices => /\ Len(r.values) = 1
                               /\ <<m.id, m.field, r.values[1]>> \in held

\* What the user interface prints answers its commands in the order they were
\* typed: one reply for each, of its kind, and values that the device asked for,
\* or each device of the table in its place, has had.
RepliesInOrder ==
  [][Display => pending # <<>> /\ Answers(Head(inbox[Cli]).mes, Head(pending))]_vars

-----------------------------------------------------------------------------
(* Liveness.                                                               *)

\* Every command gets its reply: there is no last one that stays open.
CommandsAnswered == []<>(pending = <<>>) \/ []<><<Display>>_vars

\* A new value for an actuator, or a new info for any device, reaches it, unless
\* the pi of that device has ended or lost its connection.
SetReachesDevice ==
  \A m \in Commands : \A p \in Pis :
    (m.type = "Set_Dev" /\ m.id \in Owned(p) /\ (m.field = "Info" \/ m.id \in Actuators))
      => (m \in Image(pending) ~> (<<m.id, m.field, m.value>> \in held \/ ~Running(p)))

\* senzorski_pi does not live on with a dead MQTT client: client_error_check
\* after each of the sensor thread's publishes ends the program, unless it is
\* started again before.
FailedSensorPiExits ==
  error["senzorski_pi"] # "none" ~> (~up["senzorski_pi"] \/ error["senzorski_pi"] = "none")

=============================================================================
