-------------------------------- MODULE Lssdp --------------------------------
(***************************************************************************)
(* Hosts in local networks, each with one program that runs the library    *)
(* lssdp.c as test/daemon.c does: it reads what has arrived on its socket, *)
(* and in each period it looks for changed network interfaces, sends       *)
(* M-SEARCH and NOTIFY on all of them and drops the neighbours of which it *)
(* has heard nothing for Timeout periods.                                  *)
(***************************************************************************)
EXTENDS Integers, SequencesExt, FiniteSetsExt

CONSTANTS
  Hosts,
  Stranger,    \* a device that is none of these hosts
  Addresses,   \* IP addresses
  Net,         \* Net[a]: the network of an address, addr & netmask
  Loopback,    \* 127.0.0.1
  Configs,     \* Configs[h]: the interfaces a host may have, lists of addresses
  IfCap,       \* LSSDP_INTERFACE_LIST_SIZE
  Timeout,     \* lssdp.neighbor_timeout in periods of the daemon: 15 s / 5 s
  MaxEvents    \* BOUND on changes of interfaces, failures, losses and stops

ASSUME LssdpAssumption ==
  /\ Stranger \notin Hosts
  /\ Loopback \in Addresses /\ DOMAIN Net = Addresses
  /\ \A h \in Hosts : Configs[h] \subseteq Seq(Addresses)
  /\ \A a \in Addresses : Net[a] = Net[Loopback] => a = Loopback
  /\ IfCap \in Nat \ {0} /\ Timeout \in Nat \ {0} /\ MaxEvents \in Nat

VARIABLES
  os,          \* the interfaces the system reports for a host
  pc,          \* "off", "start", "select", or the task of the period
  interface,   \* lssdp.interface[0..interface_num-1]
  open,        \* lssdp.sock > 0
  inbox,       \* datagrams that wait in the socket
  list,        \* lssdp.neighbor_list, [location |->, usn |->, age |->], age for update_time
  shown,       \* HISTORY: the list that neighbor_list_changed_callback was last given
  due,         \* a period has passed since last_time
  events       \* number of events so far
vars == <<os, pc, interface, open, inbox, list, shown, due, events>>

Tasks == {"update", "msearch", "notify", "check"}

\* The zeroed lssdp_ctx of main.
Init ==
  /\ os \in [Hosts -> UNION {Configs[h] : h \in Hosts}] /\ \A h \in Hosts : os[h] \in Configs[h]
  /\ \A g, h \in Hosts : g # h => Range(os[g]) \cap Range(os[h]) \subseteq {Loopback}
  /\ pc = [h \in Hosts |-> "start"] /\ open = [h \in Hosts |-> FALSE]
  /\ interface = [h \in Hosts |-> <<>>] /\ inbox = [h \in Hosts |-> <<>>]
  /\ list = [h \in Hosts |-> <<>>] /\ shown = [h \in Hosts |-> <<>>]
  /\ due = [h \in Hosts |-> FALSE] /\ events = 0

Events(n) == events + n <= MaxEvents /\ events' = events + n
NoEvent == UNCHANGED <<os, events>>

\* The elements of the list s at the positions K: the loops pass over the others.
Kept(s, K) ==
  LET upTo[k \in 0..Len(s)] == IF k = 0 THEN <<>>
                               ELSE IF k \in K THEN Append(upTo[k - 1], s[k]) ELSE upTo[k - 1]
  IN  upTo[Len(s)]

\* neighbor_list_changed_callback is given the list l.
Entry(n) == [location |-> n.location, usn |-> n.usn]
Entries(l) == [k \in DOMAIN l |-> Entry(l[k])]
Show(h, l) == shown' = [shown EXCEPT ![h] = Entries(l)]

-----------------------------------------------------------------------------
(* lssdp_network_interface_update. *)

\* MUTANT: the size of the list is not looked at.
Reported_NoCap(h) == os[h]

\* What fits in the list of interfaces.
Reported(h) == SubSeq(os[h], 1, Min({IfCap, Len(os[h])}))

\* lssdp_neighbor_remove_all
RemoveAll(h) ==
  /\ list' = [list EXCEPT ![h] = <<>>]
  /\ IF list[h] # <<>> THEN Show(h, <<>>) ELSE UNCHANGED shown

\* The callback show_interface_list_and_rebind_socket: lssdp_socket_create closes
\* the old socket, and the new one, if there is one, is empty.
Rebind(h, created) ==
  /\ open' = [open EXCEPT ![h] = created]
  /\ inbox' = [inbox EXCEPT ![h] = <<>>]

\* The question to the system may fail, which leaves no interface at all, and so
\* may the creation of the socket.
Update(h) ==
  /\ pc[h] \in {"start", "update"}
  /\ pc' = [pc EXCEPT ![h] = IF @ = "start" THEN "select" ELSE "msearch"]
  /\ \E asked, created \in BOOLEAN :
       LET found == IF asked THEN Reported(h) ELSE <<>>
           failures == Cardinality({x \in {<<1, asked>>, <<2, created>>} : ~x[2]})
       IN  /\ interface' = [interface EXCEPT ![h] = found]
           /\ Events(failures)
           /\ IF found = interface[h] THEN created /\ UNCHANGED <<open, inbox, list, shown>>
                                      ELSE RemoveAll(h) /\ Rebind(h, created)
  /\ UNCHANGED <<os, due>>

-----------------------------------------------------------------------------
(* Datagrams. *)

Nets(h) == {Net[a] : a \in Range(os[h])}

\* A multicast from address a reaches every open socket in its network, that of
\* the sender's other interfaces too.
Reaches(h, a, g) ==
  /\ open[g]
  /\ IF g = h THEN \E b \in Range(os[h]) \ {a} : Net[b] = Net[a] ELSE Net[a] \in Nets(g)

\* send_multicast_data for each interface but the loopback: binding the socket
\* fails for an address the host has no more.
Sources(h) == {k \in DOMAIN interface[h] :
                 interface[h][k] # Loopback /\ interface[h][k] \in Range(os[h])}

\* NOTIFY has the address of the interface as its location.
Datagram(h, method, a) == [method |-> method, from |-> a, location |-> a, usn |-> h]

Heard(h, g) == Kept(interface[h], {k \in Sources(h) : Reaches(h, interface[h][k], g)})

Multicast(h, method) ==
  inbox' = [g \in Hosts |->
              inbox[g] \o [k \in DOMAIN Heard(h, g) |-> Datagram(h, method, Heard(h, g)[k])]]

\* lssdp_send_msearch, lssdp_send_notify
SendMsearch(h) ==
  /\ pc[h] = "msearch" /\ pc' = [pc EXCEPT ![h] = "notify"]
  /\ Multicast(h, "M-SEARCH")
  /\ UNCHANGED <<interface, open, list, shown, due>> /\ NoEvent

SendNotify(h) ==
  /\ pc[h] = "notify" /\ pc' = [pc EXCEPT ![h] = "check"]
  /\ Multicast(h, "NOTIFY")
  /\ UNCHANGED <<interface, open, list, shown, due>> /\ NoEvent

\* find_interface_in_LAN: of the first interface in the network of an address.
InLan(l, a) == {k \in DOMAIN l : Net[l[k]] = Net[a]}

\* lssdp_send_response: the location is the listed interface, the sender the one
\* the system uses to reach that network, which may have changed since.
SendResponse(h, p) ==
  LET via == InLan(os[h], p.from)
      listed == InLan(interface[h], p.from)
      response == [method |-> "RESPONSE", from |-> os[h][Min(via)],
                   location |-> interface[h][Min(listed)], usn |-> h]
      rest == [inbox EXCEPT ![h] = Tail(@)]
  IN  inbox' = IF listed = {} \/ via = {} THEN rest
               ELSE [g \in Hosts |-> IF p.from \in Range(os[g]) /\ open[g]
                                     THEN Append(rest[g], response) ELSE rest[g]]

-----------------------------------------------------------------------------
(* The neighbour list. *)

Same(l, p) == {k \in DOMAIN l : l[k].location = p.location}

\* MUTANT: only the first neighbour is compared.
Known_FirstOnly(l, p) == Same(l, p) \cap {1}

\* The neighbour with the location of a packet.
Known(l, p) == Same(l, p)

\* MUTANT: update_time is only set together with another field.
Refreshed_IfChanged(n, p) == IF n.usn = p.usn THEN n ELSE [n EXCEPT !.usn = p.usn, !.age = 0]

\* sm_id and device_type are taken over with the usn.
Refreshed(n, p) == [location |-> n.location, usn |-> p.usn, age |-> 0]

\* neighbor_list_add; the callback hears of it when more than the time changed.
AddNeighbor(h, p) ==
  LET k == Known(list[h], p)
      now == IF k # {} THEN [list[h] EXCEPT ![Min(k)] = Refreshed(@, p)]
             ELSE Append(list[h], [location |-> p.location, usn |-> p.usn, age |-> 0])
  IN  /\ list' = [list EXCEPT ![h] = now]
      /\ IF Entries(now) # Entries(list[h]) THEN Show(h, now) ELSE UNCHANGED shown

\* MUTANT: packets from itself are not told apart.
FromSelf_Never(h, p) == FALSE

FromSelf(h, p) == p.from \in Range(interface[h])

\* lssdp_socket_read
Read(h) ==
  LET p == Head(inbox[h])
      drop == inbox' = [inbox EXCEPT ![h] = Tail(@)]
  IN  \/ FromSelf(h, p) /\ drop /\ UNCHANGED <<list, shown>>
      \/ ~FromSelf(h, p) /\ p.method = "other" /\ drop /\ UNCHANGED <<list, shown>>
      \/ /\ ~FromSelf(h, p) /\ p.method = "M-SEARCH"
         /\ SendResponse(h, p) /\ UNCHANGED <<list, shown>>
      \/ /\ ~FromSelf(h, p) /\ p.method \in {"NOTIFY", "RESPONSE"}
         /\ AddNeighbor(h, p) /\ drop

\* One turn of the daemon's loop: a packet, if there is one, then the tasks, if
\* the period is over.
Select(h) ==
  /\ pc[h] = "select"
  /\ \/ inbox[h] # <<>> /\ Read(h)
     \/ inbox[h] = <<>> /\ due[h] /\ UNCHANGED <<inbox, list, shown>>
  /\ pc' = [pc EXCEPT ![h] = IF due[h] THEN "update" ELSE "select"]
  /\ UNCHANGED <<interface, open, due>> /\ NoEvent

\* MUTANT: the callback is not called when the first neighbour goes.
Goes_Silent(h, l) == IF list[h][1].age >= Timeout THEN UNCHANGED shown ELSE Show(h, l)

Goes(h, l) == Show(h, l)

\* lssdp_neighbor_check_timeout
CheckTimeout(h) ==
  LET stay == Kept(list[h], {k \in DOMAIN list[h] : list[h][k].age < Timeout})
  IN  /\ pc[h] = "check" /\ pc' = [pc EXCEPT ![h] = "select"]
      /\ list' = [list EXCEPT ![h] = stay]
      /\ IF stay # list[h] THEN Goes(h, stay) ELSE UNCHANGED shown
      /\ due' = [due EXCEPT ![h] = FALSE]
      /\ UNCHANGED <<interface, open, inbox>> /\ NoEvent

Daemon(h) == Update(h) \/ Select(h) \/ SendMsearch(h) \/ SendNotify(h) \/ CheckTimeout(h)

-----------------------------------------------------------------------------
(* The world around the daemons. *)

\* Interfaces come and go; no address is at two hosts.  TIMING: before an address
\* changes hands, what its last owner sent has been read.
Move(h) ==
  /\ Events(1)
  /\ \E c \in Configs[h] \ {os[h]} :
       /\ \A g \in Hosts \ {h} : Range(os[g]) \cap Range(c) \subseteq {Loopback}
       /\ \A g \in Hosts : \A k \in DOMAIN inbox[g] :
            inbox[g][k].usn # h => inbox[g][k].from \notin Range(c)
       /\ os' = [os EXCEPT ![h] = c]
  /\ UNCHANGED <<pc, interface, open, inbox, list, shown, due>>

\* A packet that cannot be read or has another search target arrives.
Stray(h) ==
  /\ open[h] /\ Events(1)
  /\ \E a \in Addresses : /\ Net[a] \in Nets(h) /\ \A g \in Hosts : a \notin Range(os[g])
                         /\ inbox' = [inbox EXCEPT ![h] = Append(@, Datagram(Stranger, "other", a))]
  /\ UNCHANGED <<os, pc, interface, open, list, shown, due>>

\* The datagram that arrived last did not arrive.
Lose(h) ==
  /\ inbox[h] # <<>> /\ Events(1)
  /\ inbox' = [inbox EXCEPT ![h] = Front(@)]
  /\ UNCHANGED <<os, pc, interface, open, list, shown, due>>

\* A daemon ends without a word, and one is started.
Stop(h) ==
  /\ pc[h] # "off" /\ Events(1)
  /\ pc' = [pc EXCEPT ![h] = "off"] /\ open' = [open EXCEPT ![h] = FALSE]
  /\ interface' = [interface EXCEPT ![h] = <<>>] /\ inbox' = [inbox EXCEPT ![h] = <<>>]
  /\ list' = [list EXCEPT ![h] = <<>>] /\ shown' = [shown EXCEPT ![h] = <<>>]
  /\ due' = [due EXCEPT ![h] = FALSE]
  /\ UNCHANGED os

Start(h) ==
  /\ pc[h] = "off" /\ pc' = [pc EXCEPT ![h] = "start"]
  /\ UNCHANGED <<interface, open, inbox, list, shown, due>> /\ NoEvent

\* A period passes.  TIMING: it is long enough for every daemon to finish its
\* tasks and to read what has arrived.
Period ==
  /\ \A h \in Hosts : pc[h] = "off" \/ (pc[h] = "select" /\ ~due[h] /\ inbox[h] = <<>>)
  /\ due' = [h \in Hosts |-> pc[h] = "select"]
  /\ list' = [h \in Hosts |-> [k \in DOMAIN list[h] |->
                                 [list[h][k] EXCEPT !.age = Min({@ + 1, Timeout})]]]
  /\ UNCHANGED <<pc, interface, open, inbox, shown>> /\ NoEvent

Next == \/ \E h \in Hosts : Daemon(h) \/ Move(h) \/ Stray(h) \/ Lose(h) \/ Stop(h) \/ Start(h)
        \/ Period

\* The daemons' loops go on for ever, and so does time.
Spec == /\ Init /\ [][Next]_vars
        /\ \A h \in Hosts : WF_vars(Daemon(h))
        /\ WF_vars(Period)
-----------------------------------------------------------------------------
(* Properties. *)

Neighbors == [location : Addresses, usn : Hosts, age : 0..Timeout]
Datagrams == [method : {"M-SEARCH", "NOTIFY", "RESPONSE", "other"}, from : Addresses,
              location : Addresses, usn : Hosts \cup {Stranger}]

\* Type invariant: the list of interfaces stays in its array, a closed socket
\* holds no datagram and no neighbour.
TypeOK ==
  /\ os \in [Hosts -> Seq(Addresses)] /\ \A h \in Hosts : os[h] \in Configs[h]
  /\ pc \in [Hosts -> {"off", "start", "select"} \cup Tasks]
  /\ interface \in [Hosts -> Seq(Addresses)] /\ \A h \in Hosts : Len(interface[h]) <= IfCap
  /\ inbox \in [Hosts -> Seq(Datagrams)] /\ list \in [Hosts -> Seq(Neighbors)]
  /\ \A h \in Hosts : ~open[h] => inbox[h] = <<>> /\ list[h] = <<>>
  /\ shown \in [Hosts -> Seq([location : Addresses, usn : Hosts])]
  /\ open \in [Hosts -> BOOLEAN] /\ due \in [Hosts -> BOOLEAN]
  /\ events \in 0..MaxEvents

\* No location is in the list twice (neighbor_list_add), after any sequence of
\* packets, timeouts and changes.
NoneTwice == \A h \in Hosts : \A j, k \in DOMAIN list[h] :
               list[h][j].location = list[h][k].location => j = k

\* No host has itself as a neighbour: lssdp_socket_read drops what comes from one
\* of its addresses, and what it sent before it gave an address up is forgotten.
NeverItself == \A h \in Hosts : \A k \in DOMAIN list[h] : list[h][k].usn # h

\* neighbor_list_changed_callback has been told of every change of the list:
\* "if SSDP neighbor list has been changed, neighbor_list_changed_callback will
\* be invoked." (lssdp.h:132)
ShownIsCurrent == \A h \in Hosts : shown[h] = Entries(list[h])

\* The addresses under which a host hears other ones.
Audible(h) == {n \in [location : Addresses, usn : Hosts] :
                 /\ n.usn # h /\ pc[n.usn] # "off" /\ Net[n.location] \in Nets(h)
                 /\ \E k \in Sources(n.usn) : interface[n.usn][k] = n.location}

\* When nothing changes any more, every daemon with a socket ends up with exactly
\* its neighbours in the list, each with its name, and they stay: no one who is
\* gone remains, and no one who is there times out.
NeighborsConverge ==
  <>[](\A h \in Hosts : open[h] => {Entry(list[h][k]) : k \in DOMAIN list[h]} = Audible(h))

=============================================================================
