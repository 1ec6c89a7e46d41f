------------------------------ MODULE Kontroler ------------------------------
(***************************************************************************)
(* The controller.  It keeps a replica of every device, updated by the     *)
(* PropertyChanged messages of the two pis, answers the commands of the    *)
(* user interface from that replica, and passes on the commands that set   *)
(* something.  publish_callback stores the packet in the one global        *)
(* callback_packet, looks the device up and starts a thread, which reads   *)
(* callback_packet again.  It checks no error of its MQTT client.          *)
(*                                                                         *)
(* The callback and every thread split their own copy of the text, but     *)
(* strtok keeps its place in one pointer for the whole process.  A thread  *)
(* that is alone in str_split gets its own tokens; of those whose          *)
(* str_splits overlap, each may get the tokens of the others, or meet an   *)
(* assertion of str_split.  So where packets follow each other closely     *)
(* (~Spaced) a str_split has a beginning and an end; where they are spaced *)
(* nobody can fall into one, and it is a single step.  The other string    *)
(* operations are single steps, as in module Pi.                           *)
(***************************************************************************)
EXTENDS HomeBus

VARIABLES
  db,        \* [Devices -> [Fields -> Texts]], the Devices table of kontroler
  packet,    \* callback_packet.mes
  thread,    \* [Workers -> a thread of distribute_pub_message or publish_no_device]
  splitting, \* the threads inside str_split; Kontroler stands for the callback
  crossed,   \* those of them whose str_split has overlapped another one
  mixed      \* HISTORY: str_splits have overlapped since the program started

strtokVars == <<splitting, crossed, mixed>>
kontrolerVars == <<db, packet, thread, strtokVars>>

NoThread == [pc |-> "idle", mes |-> NoMessage, todo |-> <<>>, out |-> <<>>,
             topic |-> "none"]

ThreadOK(t) ==
  /\ t \in [pc : {"idle", "start", "split", "missing", "read", "reply", "ack",
                  "reread", "forward", "apply"},
            mes : Messages \cup {NoMessage},
            todo : Seq(Targets), out : Seq(Texts \cup {OutOfBounds}),
            topic : {FuncTopic, InfoTopic, "none"}]
  /\ t.pc = "read" => t.mes \in Asks /\ t.todo # <<>>
  /\ t.pc = "ack" => t.mes \in Sets
  /\ t.pc \in {"ack", "reread", "forward"} => t.topic # "none"
  /\ t.pc = "forward" => t.mes # NoMessage
  /\ t.pc = "apply" => t.mes \in Changes
  /\ t.pc = "split" => t.mes # NoMessage

KontrolerTypeOK ==
  /\ db \in [Devices -> [Fields -> Texts]]
  /\ packet \in Messages \cup {NoMessage}
  /\ DOMAIN thread = Workers
  /\ \A w \in Workers : ThreadOK(thread[w])
  /\ \A w \in Workers : thread[w].pc # "idle" => packet # NoMessage
  /\ splitting \subseteq Workers \cup {Kontroler} /\ crossed \subseteq splitting
  /\ splitting # {} => packet # NoMessage
  /\ mixed \in BOOLEAN /\ (crossed # {} => mixed)

KontrolerInit ==
  /\ db = Initial
  /\ packet = NoMessage
  /\ thread = [w \in Workers |-> NoThread]
  /\ splitting = {} /\ crossed = {} /\ mixed = FALSE

\* The controller's table holds all devices; their order there shows nowhere.
KontrolerTable == SensorTable \o ActuatorTable

\* findDevice(id) # -1
Found(id) == id \in Devices

BusyThreads == {w \in Workers : thread[w].pc # "idle"}
ThreadsIdle == BusyThreads = {}

\* Mutant: the device is not looked up.
Callback_Unchecked(w) ==
  /\ Arrived(Kontroler)
  /\ Spaced /\ ThreadsIdle
  /\ thread[w].pc = "idle"
  /\ packet' = Head(inbox[Kontroler]).mes
  /\ thread' = [thread EXCEPT ![w].pc = "start"]
  /\ inbox' = [inbox EXCEPT ![Kontroler] = Tail(@)]
  /\ UNCHANGED <<outbox, error, up, subscribed, delivering, db, strtokVars>>

\* publish_callback, with nobody else in str_split: the thread is
\* publish_no_device when the packet names a device that the table does not hold.
Callback(w) ==
  /\ Arrived(Kontroler)
  /\ Spaced /\ ThreadsIdle
  /\ thread[w].pc = "idle"
  /\ LET m == Head(inbox[Kontroler]).mes
     IN /\ packet' = m
        /\ thread' = [thread EXCEPT ![w].pc =
                        IF m.id = AllDevices \/ Found(m.id) THEN "start" ELSE "missing"]
  /\ inbox' = [inbox EXCEPT ![Kontroler] = Tail(@)]
  /\ UNCHANGED <<outbox, error, up, subscribed, delivering, db, strtokVars>>

In(w, pc) == up[Kontroler] /\ thread[w].pc = pc

\* publish_no_device.
NoDevice(w) ==
  /\ In(w, "missing")
  /\ Publish(Kontroler, UiTopic, NonExistent) /\ UNCHANGED up
  /\ thread' = [thread EXCEPT ![w] = NoThread]
  /\ UNCHANGED <<db, packet, strtokVars>>

\* The topic a command to set a field is passed on to.
ForwardTopic_FuncOnly(f) == FuncTopic   \* mutant: one topic for both fields
ForwardTopic(f) == IF f = "Value" THEN FuncTopic ELSE InfoTopic

\* The branches of distribute_pub_message on the type of the message m.
Begin(m) ==
  CASE m.type = "Get_Dev" ->
         [NoThread EXCEPT !.pc = "read", !.mes = m,
            !.todo = IF m.id = AllDevices THEN KontrolerTable ELSE <<m.id>>]
    [] m.type = "Set_Dev" ->
         [NoThread EXCEPT !.pc = "ack", !.mes = m, !.topic = ForwardTopic(m.field)]
    [] m.type = "PropertyChanged" -> [NoThread EXCEPT !.pc = "apply", !.mes = m]
    [] OTHER -> NoThread

\* distribute_pub_message copies callback_packet.mes and splits the copy, with
\* nobody else in str_split.
Distribute(w) ==
  /\ In(w, "start") /\ Spaced
  /\ thread' = [thread EXCEPT ![w] = Begin(packet)]
  /\ UNCHANGED <<busVars, db, packet, strtokVars>>

\* Get_Dev_*: one field of one device is copied into the reply.  The index is
\* findDevice of the text read in Distribute, not of the one checked.
ReadDevice(w) ==
  /\ In(w, "read")
  /\ LET r == thread[w]
         d == Head(r.todo)
     IN thread' = [thread EXCEPT ![w] =
          [r EXCEPT !.out = Append(@, IF Found(d) THEN db[d][r.mes.field] ELSE OutOfBounds),
                    !.todo = Tail(@),
                    !.pc = IF Len(r.todo) = 1 THEN "reply" ELSE "read"]]
  /\ UNCHANGED <<busVars, db, packet, strtokVars>>

\* The answer to Get_Dev_*.  The text for all devices is built with strcat on
\* an array nobody initialised.
Answer(w) ==
  /\ In(w, "reply")
  /\ \E g \in IF thread[w].mes.id = AllDevices THEN BOOLEAN ELSE {FALSE} :
       Publish(Kontroler, UiTopic, Values(thread[w].out, g))
  /\ thread' = [thread EXCEPT ![w] = NoThread]
  /\ UNCHANGED <<up, db, packet, strtokVars>>

\* Mutant: nothing is said.
Acknowledge_Silent(w) ==
  /\ In(w, "ack")
  /\ thread' = [thread EXCEPT ![w].pc = "reread"]
  /\ UNCHANGED <<busVars, db, packet, strtokVars>>

\* Set_Dev_*: the user interface is told first that the value has been set.
Acknowledge(w) ==
  /\ In(w, "ack")
  /\ Publish(Kontroler, UiTopic, HasBeenSet(thread[w].mes.field)) /\ UNCHANGED up
  /\ thread' = [thread EXCEPT ![w].pc = "reread"]
  /\ UNCHANGED <<db, packet, strtokVars>>

\* Then the text to pass on is copied from callback_packet again.
Reread(w) ==
  /\ In(w, "reread")
  /\ thread' = [thread EXCEPT ![w].pc = "forward", ![w].mes = packet]
  /\ UNCHANGED <<busVars, db, packet, strtokVars>>

Forward(w) ==
  /\ In(w, "forward")
  /\ Publish(Kontroler, thread[w].topic, thread[w].mes) /\ UNCHANGED up
  /\ thread' = [thread EXCEPT ![w] = NoThread]
  /\ UNCHANGED <<db, packet, strtokVars>>

\* Mutant: the value is read from callback_packet again.
Apply_Reread(w) ==
  /\ In(w, "apply")
  /\ LET m == thread[w].mes
     IN db' = [db EXCEPT ![m.id][m.field] =
                 IF packet.type = "PropertyChanged" THEN packet.value ELSE m.value]
  /\ thread' = [thread EXCEPT ![w] = NoThread]
  /\ UNCHANGED <<busVars, packet, strtokVars>>

\* PropertyChanged: the replica follows.
Apply(w) ==
  /\ In(w, "apply")
  /\ LET m == thread[w].mes
     IN db' = [db EXCEPT ![m.id][m.field] = m.value]
  /\ thread' = [thread EXCEPT ![w] = NoThread]
  /\ UNCHANGED <<busVars, packet, strtokVars>>

-----------------------------------------------------------------------------
(* str_split where others may be in it too.                                *)

\* One more begins: if others are inside, all of them have overlapped.
EnterSplit(c) ==
  /\ splitting' = splitting \cup {c}
  /\ crossed' = IF splitting = {} THEN crossed ELSE splitting \cup {c}
  /\ mixed' = (mixed \/ splitting # {})

LeaveSplit(c) ==
  /\ splitting' = splitting \ {c} /\ crossed' = crossed \ {c} /\ UNCHANGED mixed

\* One of the assertions of str_split, or a token that is not there, ends the
\* process.
EndProcess ==
  /\ up' = [up EXCEPT ![Kontroler] = FALSE]
  /\ delivering' = [delivering EXCEPT ![Kontroler] = NoPacket]
  /\ thread' = [w \in Workers |-> NoThread]
  /\ splitting' = {} /\ crossed' = {} /\ UNCHANGED mixed

\* What a thread makes of its message m when its str_split overlapped another.
\* The first token is its own in any case; the others may be anybody's.  A
\* PropertyChanged about no device or no field of the table changes no device.
Mixtures(m) ==
  CASE m.type = "Get_Dev" -> [type : {"Get_Dev"}, field : {m.field}, id : Targets]
    [] m.type = "PropertyChanged" ->
         {m, NoMessage} \cup {PropertyChanged(d, f, Stray) : d \in Devices, f \in Fields}
    [] OTHER -> {m}

\* publish_callback stores the packet, and its str_split begins; the client's
\* mutex stays with it until it returns.
TakeIn ==
  /\ Arrived(Kontroler) /\ ~Spaced
  /\ \E w \in Workers : thread[w].pc = "idle"
  /\ packet' = Head(inbox[Kontroler]).mes
  /\ delivering' = [delivering EXCEPT ![Kontroler] = Head(inbox[Kontroler])]
  /\ inbox' = [inbox EXCEPT ![Kontroler] = Tail(@)]
  /\ EnterSplit(Kontroler)
  /\ UNCHANGED <<outbox, error, up, subscribed, db, thread>>

\* Its str_split ends and the thread is created: which one depends on the second
\* token, the packet's own or another's.
LookUp(w) ==
  /\ up[Kontroler] /\ Kontroler \in splitting /\ ~Spaced
  /\ thread[w].pc = "idle"
  /\ \/ /\ \E known \in IF Kontroler \in crossed THEN BOOLEAN
                          ELSE {packet.id = AllDevices \/ Found(packet.id)} :
              thread' = [thread EXCEPT ![w].pc = IF known THEN "start" ELSE "missing"]
        /\ delivering' = [delivering EXCEPT ![Kontroler] = NoPacket]
        /\ LeaveSplit(Kontroler) /\ UNCHANGED up
     \/ Kontroler \in crossed /\ EndProcess
  /\ UNCHANGED <<outbox, inbox, error, subscribed, db, packet>>

\* distribute_pub_message copies callback_packet.mes, and its str_split begins.
BeginSplit(w) ==
  /\ In(w, "start") /\ ~Spaced
  /\ thread' = [thread EXCEPT ![w].pc = "split", ![w].mes = packet]
  /\ EnterSplit(w)
  /\ UNCHANGED <<busVars, db, packet>>

\* Its str_split ends, and it goes on with the tokens it got.
EndSplit(w) ==
  /\ In(w, "split") /\ ~Spaced
  /\ \/ /\ \E m \in IF w \in crossed THEN Mixtures(thread[w].mes) ELSE {thread[w].mes} :
              thread' = [thread EXCEPT ![w] = Begin(m)]
        /\ LeaveSplit(w) /\ UNCHANGED <<up, delivering>>
     \/ w \in crossed /\ EndProcess
  /\ UNCHANGED <<outbox, inbox, error, subscribed, db, packet>>

Overlap == TakeIn \/ \E w \in Workers : LookUp(w) \/ BeginSplit(w) \/ EndSplit(w)

-----------------------------------------------------------------------------
Run(w) ==
  NoDevice(w) \/ Distribute(w) \/ ReadDevice(w) \/ Answer(w) \/ Acknowledge(w)
    \/ Reread(w) \/ Forward(w) \/ Apply(w)

\* The controller is started again with the replica compiled in.
RestartKontroler ==
  /\ Reboot(Kontroler)
  /\ db' = Initial /\ packet' = NoMessage
  /\ thread' = [w \in Workers |-> NoThread]
  /\ splitting' = {} /\ crossed' = {} /\ mixed' = FALSE

KontrolerNext == (\E w \in Workers : Callback(w) \/ Run(w)) \/ Overlap

=============================================================================
