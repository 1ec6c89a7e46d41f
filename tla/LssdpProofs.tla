---------------------------- MODULE LssdpProofs ----------------------------
(***************************************************************************)
(* Proofs about the discovery library, for any number of hosts, networks,  *)
(* interfaces and neighbours and every order of datagrams.                 *)
(***************************************************************************)
EXTENDS Lssdp, SequenceTheorems, MinMaxProofs

-----------------------------------------------------------------------------
(* What the loops over a list keep.                                        *)

\* The recursion of Kept has a solution up to every position, and so up to the end.
LEMMA KeptRecursion ==
  ASSUME NEW S, NEW s \in Seq(S), NEW K
  PROVE  \E f : /\ f = [k \in 0..Len(s) |-> IF k = 0 THEN <<>>
                                             ELSE IF k \in K THEN Append(f[k - 1], s[k])
                                                  ELSE f[k - 1]]
               /\ Kept(s, K) = f[Len(s)]
<1> DEFINE Solves(f, n) == f = [k \in 0..n |-> IF k = 0 THEN <<>>
                                               ELSE IF k \in K THEN Append(f[k - 1], s[k])
                                                    ELSE f[k - 1]]
           T == {n \in Nat : \E f : Solves(f, n)}
<1>1. 0 \in T
  <2>1. Solves([k \in 0..0 |-> <<>>], 0)
    OBVIOUS
  <2> QED BY <2>1
<1>2. ASSUME NEW n \in Nat, n \in T PROVE n + 1 \in T
  <2>1. PICK f : Solves(f, n)
    BY <1>2
  <2>2. PICK g : g = [k \in 0..(n + 1) |-> IF k \in 0..n THEN f[k]
                                          ELSE IF k \in K THEN Append(f[n], s[n + 1])
                                               ELSE f[n]]
    OBVIOUS
  <2>3. ASSUME NEW k \in 0..n
        PROVE  g[k] = IF k = 0 THEN <<>> ELSE IF k \in K THEN Append(g[k - 1], s[k]) ELSE g[k - 1]
    <3>1. g[k] = f[k] /\ (k # 0 => k - 1 \in 0..n /\ g[k - 1] = f[k - 1])
      BY <2>2
    <3>2. f[k] = IF k = 0 THEN <<>> ELSE IF k \in K THEN Append(f[k - 1], s[k]) ELSE f[k - 1]
      BY <2>1
    <3> QED BY <3>1, <3>2
  <2>4. g[n + 1] = IF n + 1 \in K THEN Append(g[n], s[n + 1]) ELSE g[n]
    BY <2>2
  <2>5. Solves(g, n + 1)
    <3>1. \A k \in 0..(n + 1) : k \in 0..n \/ (k = n + 1 /\ k # 0 /\ k - 1 = n)
      OBVIOUS
    <3> QED BY <2>2, <2>3, <2>4, <3>1
  <2> HIDE DEF Solves
  <2> QED BY <2>5
<1>3. Len(s) \in Nat
  BY LenProperties
<1>4. Len(s) \in T
  <2>1. \A k \in 0..(Len(s) - 1) : k \in T => k + 1 \in T
    <3> HIDE DEF T
    <3> QED BY <1>2, <1>3
  <2>2. 0..Len(s) \subseteq T
    <3> HIDE DEF T
    <3> QED BY <2>1, <1>1, <1>3, InductionUpTo
  <2> HIDE DEF T
  <2> QED BY <2>2, <1>3
<1>5. \E f : Solves(f, Len(s))
  BY <1>4
<1>6. PICK f : Solves(f, Len(s)) /\ f = CHOOSE g : Solves(g, Len(s))
  BY <1>5
<1> QED BY <1>6, ZenonT(60) DEF Kept

\* What is kept of a list are the elements at the given positions, in their order:
\* an increasing function e says where each of them was.
LEMMA KeptProperties ==
  ASSUME NEW S, NEW s \in Seq(S), NEW K
  PROVE  /\ Kept(s, K) \in Seq(S)
         /\ \E e \in [1..Len(Kept(s, K)) -> K \cap (1..Len(s))] :
              /\ \A i \in 1..Len(Kept(s, K)) : Kept(s, K)[i] = s[e[i]]
              /\ \A i, j \in 1..Len(Kept(s, K)) : i < j => e[i] < e[j]
<1>1. PICK f : /\ f = [k \in 0..Len(s) |-> IF k = 0 THEN <<>>
                                           ELSE IF k \in K THEN Append(f[k - 1], s[k])
                                                ELSE f[k - 1]]
               /\ Kept(s, K) = f[Len(s)]
  BY KeptRecursion
<1>2. Len(s) \in Nat /\ \A k \in 1..Len(s) : s[k] \in S
  BY LenProperties, ElementOfSeq
<1>3. /\ f[0] = <<>>
      /\ \A k \in 0..(Len(s) - 1) : f[k + 1] = IF k + 1 \in K THEN Append(f[k], s[k + 1]) ELSE f[k]
  <2>1. 0 \in 0..Len(s) /\ \A k \in 0..(Len(s) - 1) : k + 1 \in 0..Len(s) /\ k + 1 # 0 /\ (k + 1) - 1 = k
    BY <1>2
  <2>2. \A k \in 0..Len(s) : f[k] = IF k = 0 THEN <<>> ELSE IF k \in K THEN Append(f[k - 1], s[k])
                                                             ELSE f[k - 1]
    BY <1>1
  <2> QED BY <2>1, <2>2
<1> DEFINE Embeds(e, k) == /\ e \in [1..Len(f[k]) -> K \cap (1..k)]
                           /\ \A i \in 1..Len(f[k]) : f[k][i] = s[e[i]]
                           /\ \A i, j \in 1..Len(f[k]) : i < j => e[i] < e[j]
           T == {k \in 0..Len(s) : f[k] \in Seq(S) /\ \E e : Embeds(e, k)}
<1>4. 0 \in T
  <2>1. f[0] \in Seq(S) /\ Len(f[0]) = 0
    BY <1>3
  <2>2. Embeds(<<>>, 0)
    BY <2>1
  <2> HIDE DEF Embeds
  <2> QED BY <1>2, <2>1, <2>2
<1>5. ASSUME NEW k \in 0..(Len(s) - 1), k \in T PROVE k + 1 \in T
  <2>1. k + 1 \in 1..Len(s) /\ k \in Nat
    BY <1>2
  <2>2. f[k] \in Seq(S) /\ Len(f[k]) \in Nat
    BY <1>5
  <2>3. PICK e : Embeds(e, k)
    <3> HIDE DEF Embeds
    <3> QED BY <1>5
  <2>4. CASE k + 1 \notin K
    <3>1. f[k + 1] = f[k]
      BY <1>3, <2>4
    <3>2. e \in [1..Len(f[k]) -> K \cap (1..(k + 1))]
      BY <2>1, <2>3
    <3>3. Embeds(e, k + 1)
      BY <3>1, <3>2, <2>3
    <3> HIDE DEF Embeds
    <3> QED BY <2>1, <2>2, <3>1, <3>3
  <2>5. CASE k + 1 \in K
    <3>1. f[k + 1] = Append(f[k], s[k + 1])
      BY <1>3, <2>5
    <3> DEFINE n == Len(f[k])
    <3>2. /\ f[k + 1] \in Seq(S) /\ Len(f[k + 1]) = n + 1 /\ f[k + 1][n + 1] = s[k + 1]
          /\ \A i \in 1..n : f[k + 1][i] = f[k][i]
      BY <1>2, <2>1, <2>2, <3>1, AppendProperties
    <3>3. PICK d : d = [i \in 1..(n + 1) |-> IF i \in 1..n THEN e[i] ELSE k + 1]
      OBVIOUS
    <3>4. d[n + 1] = k + 1 /\ \A i \in 1..n : d[i] = e[i] /\ e[i] \in K \cap (1..k)
      BY <2>2, <2>3, <3>3
    <3>5. \A i \in 1..(n + 1) : i \in 1..n \/ i = n + 1
      BY <2>2
    <3>6. d \in [1..(n + 1) -> K \cap (1..(k + 1))]
      <4>1. k + 1 \in 1..(k + 1) /\ 1..k \subseteq 1..(k + 1)
        BY <2>1
      <4>2. \A i \in 1..(n + 1) : d[i] \in K \cap (1..(k + 1))
        BY <2>5, <3>4, <3>5, <4>1
      <4> HIDE DEF n
      <4> QED BY <3>3, <4>2
    <3>7. \A i \in 1..(n + 1) : f[k + 1][i] = s[d[i]]
      BY <2>3, <3>2, <3>4, <3>5
    <3>8. ASSUME NEW i \in 1..(n + 1), NEW j \in 1..(n + 1), i < j PROVE d[i] < d[j]
      <4>1. i \in 1..n
        BY <2>2, <3>8
      <4>2. CASE j \in 1..n
        BY <2>3, <3>4, <3>8, <4>1, <4>2
      <4>3. CASE j = n + 1
        BY <2>1, <3>4, <4>1, <4>3
      <4> QED BY <3>5, <4>2, <4>3
    <3>9. Embeds(d, k + 1)
      BY <3>2, <3>6, <3>7, <3>8
    <3> HIDE DEF Embeds
    <3> QED BY <2>1, <3>2, <3>9
  <2> QED BY <2>4, <2>5
<1>6. Len(s) \in T
  <2>1. 0..Len(s) \subseteq T
    <3> HIDE DEF T
    <3> QED BY <1>2, <1>4, <1>5, InductionUpTo
  <2> HIDE DEF T
  <2> QED BY <1>2, <2>1
<1>7. PICK e : Embeds(e, Len(s))
  <2> HIDE DEF Embeds
  <2> QED BY <1>6
<1>8. e \in [1..Len(f[Len(s)]) -> K \cap (1..Len(s))]
  BY <1>7
<1> QED BY <1>1, <1>6, <1>7, <1>8

\* The elements that are kept are elements of the list, at their positions.
LEMMA KeptElements ==
  ASSUME NEW S, NEW s \in Seq(S), NEW K
  PROVE  /\ Kept(s, K) \in Seq(S)
         /\ \A i \in DOMAIN Kept(s, K) : \E k \in K \cap DOMAIN s : Kept(s, K)[i] = s[k]
         /\ K \cap DOMAIN s = {} => Kept(s, K) = <<>>
<1>1. DOMAIN s = 1..Len(s) /\ Kept(s, K) \in Seq(S) /\ DOMAIN Kept(s, K) = 1..Len(Kept(s, K))
  BY KeptProperties, LenProperties
<1>2. PICK e \in [1..Len(Kept(s, K)) -> K \cap (1..Len(s))] :
        \A i \in 1..Len(Kept(s, K)) : Kept(s, K)[i] = s[e[i]]
  BY KeptProperties
<1>3. ASSUME K \cap DOMAIN s = {} PROVE Kept(s, K) = <<>>
  <2>1. ~(1 \in 1..Len(Kept(s, K)))
    BY <1>1, <1>2, <1>3
  <2> QED BY <1>1, <2>1, EmptySeq
<1> QED BY <1>1, <1>2, <1>3

-----------------------------------------------------------------------------
(* The inductive invariant.                                                *)

\* No address but that of the loopback is at two hosts.
Apart == \A g, h \in Hosts : g # h => Range(os[g]) \cap Range(os[h]) \subseteq {Loopback}

\* A datagram that waits at host g: what has no name of a host is nothing the
\* neighbour list takes, its sender's address is at no other host, and what g sent
\* itself came from an address that g still lists.
Sound(g, p) ==
  /\ p.usn = Stranger => p.method = "other"
  /\ p.from # Loopback
  /\ \A h \in Hosts : p.usn # h => p.from \notin Range(os[h])
  /\ p.usn = g => p.from \in Range(interface[g])

InboxSound == \A g \in Hosts : \A p \in Range(inbox[g]) : Sound(g, p)

Inv == TypeOK /\ Apart /\ InboxSound

\* A datagram that h sends and g receives.
SentBy(h, g, p) ==
  /\ p \in Datagrams /\ p.usn = h /\ p.from \in Range(os[h]) /\ p.from # Loopback
  /\ g = h => p.from \in Range(interface[h])

\* Hosts receive nothing but what h sends, and only through an open socket.
Receives(h) ==
  /\ inbox' \in [Hosts -> Seq(Datagrams)]
  /\ \A g \in Hosts : /\ \A p \in Range(inbox'[g]) : p \in Range(inbox[g]) \/ SentBy(h, g, p)
                      /\ ~open[g] /\ inbox[g] = <<>> => inbox'[g] = <<>>

\* The same of what is still to be read at each host, when a loop sends to all of them.
LEMMA MulticastReceived ==
  ASSUME TypeOK, NEW h \in Hosts, NEW method \in {"M-SEARCH", "NOTIFY"}, Multicast(h, method)
  PROVE  Receives(h)
<1> DEFINE sent(g) == [k \in DOMAIN Heard(h, g) |-> Datagram(h, method, Heard(h, g)[k])]
<1>1. interface[h] \in Seq(Addresses)
  BY DEF TypeOK
<1>2. ASSUME NEW g \in Hosts
      PROVE  /\ sent(g) \in Seq(Datagrams)
             /\ \A p \in Range(sent(g)) : SentBy(h, g, p)
             /\ ~open[g] => sent(g) = <<>>
  <2> DEFINE K == {k \in Sources(h) : Reaches(h, interface[h][k], g)}
  <2>1. /\ Kept(interface[h], K) \in Seq(Addresses)
        /\ \A i \in DOMAIN Kept(interface[h], K) :
             \E k \in K \cap DOMAIN interface[h] : Kept(interface[h], K)[i] = interface[h][k]
        /\ K \cap DOMAIN interface[h] = {} => Kept(interface[h], K) = <<>>
    <3> HIDE DEF K
    <3> QED BY <1>1, KeptElements
  <2>2. Heard(h, g) = Kept(interface[h], K)
    BY DEF Heard
  <2>3. ASSUME NEW i \in DOMAIN Heard(h, g)
        PROVE  SentBy(h, g, Datagram(h, method, Heard(h, g)[i]))
    <3>1. PICK k \in DOMAIN interface[h] :
            /\ interface[h][k] # Loopback /\ interface[h][k] \in Range(os[h])
            /\ Heard(h, g)[i] = interface[h][k]
      BY <2>1, <2>2 DEF Sources
    <3>2. interface[h][k] \in Addresses /\ interface[h][k] \in Range(interface[h])
      BY <1>1, <3>1, LenProperties, ElementOfSeq DEF Range
    <3> QED BY <3>1, <3>2 DEF SentBy, Datagram, Datagrams
  <2>4. /\ Len(Heard(h, g)) \in Nat /\ DOMAIN Heard(h, g) = 1..Len(Heard(h, g))
        /\ sent(g) = [k \in 1..Len(Heard(h, g)) |-> Datagram(h, method, Heard(h, g)[k])]
    BY <2>1, <2>2, LenProperties
  <2>5. sent(g) \in [1..Len(Heard(h, g)) -> Datagrams]
    BY <2>3, <2>4 DEF SentBy
  <2>6. sent(g) \in Seq(Datagrams)
    <3> HIDE DEF sent
    <3> QED BY <2>4, <2>5, SeqDef
  <2>7. \A p \in Range(sent(g)) : SentBy(h, g, p)
    BY <2>3 DEF Range
  <2>8. ASSUME ~open[g] PROVE sent(g) = <<>>
    <3>1. Heard(h, g) = <<>>
      BY <2>1, <2>2, <2>8 DEF Reaches
    <3> QED BY <3>1
  <2> QED BY <2>6, <2>7, <2>8
<1>3. inbox' = [g \in Hosts |-> inbox[g] \o sent(g)]
  BY DEF Multicast
<1>4. ASSUME NEW g \in Hosts
      PROVE  /\ inbox[g] \o sent(g) \in Seq(Datagrams)
             /\ Range(inbox[g] \o sent(g)) = Range(inbox[g]) \cup Range(sent(g))
             /\ ~open[g] /\ inbox[g] = <<>> => inbox[g] \o sent(g) = <<>>
  <2>1. inbox[g] \in Seq(Datagrams) /\ sent(g) \in Seq(Datagrams) /\ (~open[g] => sent(g) = <<>>)
    BY <1>2 DEF TypeOK
  <2> HIDE DEF sent
  <2> QED BY <2>1, ConcatProperties, RangeConcatenation, ConcatEmptySeq
<1> HIDE DEF sent
<1> QED BY <1>2, <1>3, <1>4 DEF Receives

\* Dropping or losing a datagram leaves those that were there.
LEMMA TailReceived ==
  ASSUME TypeOK, NEW h \in Hosts, inbox[h] # <<>>
  PROVE  /\ Head(inbox[h]) \in Range(inbox[h]) /\ Head(inbox[h]) \in Datagrams
         /\ Tail(inbox[h]) \in Seq(Datagrams) /\ Range(Tail(inbox[h])) \subseteq Range(inbox[h])
         /\ Front(inbox[h]) \in Seq(Datagrams) /\ Range(Front(inbox[h])) \subseteq Range(inbox[h])
         /\ open[h]
<1> DEFINE s == inbox[h]
<1>1. s \in Seq(Datagrams) /\ s # <<>> /\ open[h]
  BY DEF TypeOK
<1>2. Len(s) \in Nat \ {0} /\ DOMAIN s = 1..Len(s) /\ \A k \in 1..Len(s) : s[k] \in Range(s)
  BY <1>1, EmptySeq, LenProperties DEF Range
<1>3. Head(s) = s[1]
  BY <1>1
<1>4. /\ Tail(s) \in Seq(Datagrams) /\ DOMAIN Tail(s) = 1..(Len(s) - 1)
      /\ \A k \in 1..(Len(s) - 1) : Tail(s)[k] = s[k + 1]
  <2> HIDE DEF s
  <2> QED BY <1>1, <1>2, HeadTailProperties, LenProperties
<1>5. /\ Front(s) \in Seq(Datagrams) /\ DOMAIN Front(s) = 1..(Len(s) - 1)
      /\ \A k \in 1..(Len(s) - 1) : Front(s)[k] = s[k]
  <2> HIDE DEF s
  <2>1. \A k \in 1..(Len(s) - 1) : s[k] \in Datagrams
    BY <1>1, <1>2, ElementOfSeq
  <2>2. /\ SubSeq(s, 1, Len(s) - 1) \in Seq(Datagrams)
        /\ Len(SubSeq(s, 1, Len(s) - 1)) = Len(s) - 1
        /\ \A k \in 1..(Len(s) - 1) : SubSeq(s, 1, Len(s) - 1)[k] = s[k]
    BY <1>2, <2>1, SubSeqProperties
  <2> QED BY <2>2, LenProperties DEF Front
<1>6. Head(s) \in Datagrams
  BY <1>1, <1>2, <1>3, ElementOfSeq
<1>7. \A k \in 1..(Len(s) - 1) : k \in 1..Len(s) /\ k + 1 \in 1..Len(s)
  BY <1>2
<1> HIDE DEF s
<1>8. Range(Tail(s)) \subseteq Range(s) /\ Range(Front(s)) \subseteq Range(s)
  BY <1>2, <1>4, <1>5, <1>7, ZenonT(60) DEF Range
<1> QED BY <1>1, <1>2, <1>3, <1>4, <1>5, <1>6, <1>8 DEF s

\* The first interface in a network is one of the list, and in that network.
LEMMA FirstInLan ==
  ASSUME NEW l \in Seq(Addresses), NEW a, InLan(l, a) # {}
  PROVE  /\ l[Min(InLan(l, a))] \in Range(l) /\ l[Min(InLan(l, a))] \in Addresses
         /\ Net[l[Min(InLan(l, a))]] = Net[a]
<1>1. Len(l) \in Nat /\ DOMAIN l = 1..Len(l)
  BY LenProperties
<1>2. InLan(l, a) \subseteq 0..Len(l)
  BY <1>1 DEF InLan
<1>3. Min(InLan(l, a)) \in InLan(l, a)
  BY <1>1, <1>2, Minimum
<1> QED BY <1>1, <1>3, ElementOfSeq DEF InLan, Range

\* A response goes to the host that asked; h does not answer itself, since no host
\* has the address of another one.
LEMMA ResponseReceived ==
  ASSUME Inv, NEW h \in Hosts, inbox[h] # <<>>,
         ~FromSelf(h, Head(inbox[h])), SendResponse(h, Head(inbox[h]))
  PROVE  Receives(h)
<1> DEFINE p == Head(inbox[h])
           via == InLan(os[h], p.from)
           listed == InLan(interface[h], p.from)
           response == [method |-> "RESPONSE", from |-> os[h][Min(via)],
                        location |-> interface[h][Min(listed)], usn |-> h]
           rest == [inbox EXCEPT ![h] = Tail(@)]
<1>1. /\ p \in Range(inbox[h]) /\ p \in Datagrams /\ Tail(inbox[h]) \in Seq(Datagrams)
      /\ Range(Tail(inbox[h])) \subseteq Range(inbox[h]) /\ open[h]
  BY TailReceived DEF Inv
<1>2. rest \in [Hosts -> Seq(Datagrams)] /\ \A g \in Hosts : Range(rest[g]) \subseteq Range(inbox[g])
  BY <1>1 DEF Inv, TypeOK
<1>3. ASSUME NEW g \in Hosts, ~open[g] PROVE rest[g] = inbox[g]
  BY <1>1, <1>3 DEF Inv, TypeOK
<1>4. CASE listed = {} \/ via = {}
  <2>1. inbox' = rest
    BY <1>4 DEF SendResponse
  <2> HIDE DEF rest
  <2> QED BY <1>2, <1>3, <2>1 DEF Receives
<1>5. CASE listed # {} /\ via # {}
  <2>1. /\ os[h][Min(via)] \in Range(os[h]) /\ os[h][Min(via)] \in Addresses
        /\ Net[os[h][Min(via)]] = Net[p.from] /\ interface[h][Min(listed)] \in Addresses
    BY <1>5, FirstInLan DEF Inv, TypeOK
  <2>2. p.from # Loopback /\ p.from \in Addresses /\ p.from \notin Range(interface[h])
    BY <1>1 DEF Inv, InboxSound, Sound, Datagrams, FromSelf
  <2>3. p.from \notin Range(os[h])
    BY <1>1, <2>2 DEF Inv, InboxSound, Sound
  <2>4. os[h][Min(via)] # Loopback
    BY <2>1, <2>2, LssdpAssumption
  <2>5. response \in Datagrams
    BY <2>1 DEF Datagrams
  <2>6. \A g \in Hosts \ {h} : SentBy(h, g, response)
    BY <2>1, <2>4, <2>5 DEF SentBy
  <2>7. inbox' = [g \in Hosts |-> IF p.from \in Range(os[g]) /\ open[g]
                                  THEN Append(rest[g], response) ELSE rest[g]]
    BY <1>5 DEF SendResponse
  <2>8. ASSUME NEW g \in Hosts, p.from \in Range(os[g]), open[g]
        PROVE  /\ Append(rest[g], response) \in Seq(Datagrams)
               /\ \A q \in Range(Append(rest[g], response)) :
                     q \in Range(inbox[g]) \/ SentBy(h, g, q)
    <3>1. rest[g] \in Seq(Datagrams) /\ g # h
      BY <1>2, <2>3, <2>8
    <3> DEFINE n == Len(rest[g])
    <3> HIDE DEF rest, response
    <3>2. /\ Append(rest[g], response) \in Seq(Datagrams)
          /\ Len(Append(rest[g], response)) = n + 1
          /\ \A i \in 1..n : Append(rest[g], response)[i] = rest[g][i]
          /\ Append(rest[g], response)[n + 1] = response
      BY <2>5, <3>1, AppendProperties
    <3>3. /\ DOMAIN rest[g] = 1..n /\ DOMAIN Append(rest[g], response) = 1..(n + 1)
          /\ \A i \in 1..(n + 1) : i \in 1..n \/ i = n + 1
      BY <3>1, <3>2, LenProperties
    <3>4. \A q \in Range(Append(rest[g], response)) : q \in Range(rest[g]) \/ q = response
      BY <3>2, <3>3 DEF Range
    <3> QED BY <1>2, <2>6, <3>1, <3>2, <3>4
  <2> HIDE DEF rest, response
  <2> QED BY <1>2, <1>3, <2>7, <2>8 DEF Receives
<1> QED BY <1>4, <1>5

\* While os and interface stay, what h sends keeps the datagrams sound.
LEMMA ReceivedSound ==
  ASSUME Inv, NEW h \in Hosts, Receives(h), UNCHANGED <<os, interface>>
  PROVE  InboxSound'
<1>1. ASSUME NEW g \in Hosts, NEW p, SentBy(h, g, p) PROVE Sound(g, p)
  <2>1. \A i \in Hosts : h # i => p.from \notin Range(os[i])
    BY <1>1 DEF Inv, Apart, SentBy
  <2> QED BY <1>1, <2>1, LssdpAssumption DEF SentBy, Sound
<1>2. \A g \in Hosts : \A p \in Range(inbox'[g]) : Sound(g, p)
  BY <1>1 DEF Inv, InboxSound, Receives
<1> QED BY <1>2 DEF InboxSound, Sound

\* A neighbour that is heard of again keeps its location.
LEMMA RefreshedNeighbor ==
  ASSUME NEW m \in Neighbors, NEW p, p.usn \in Hosts
  PROVE  /\ Refreshed(m, p) \in Neighbors
         /\ Refreshed(m, p).usn = p.usn /\ Refreshed(m, p).location = m.location
<1>1. 0 \in 0..Timeout
  BY LssdpAssumption
<1> QED BY <1>1 DEF Refreshed, Neighbors

\* The list is the same but for one neighbour of the packet's name, without age,
\* whose location no other has; the callback hears of every other change than that
\* of an age.
LEMMA NeighborAdded ==
  ASSUME TypeOK, NEW h \in Hosts, NEW p \in Datagrams, p.usn \in Hosts, AddNeighbor(h, p)
  PROVE  /\ list' \in [Hosts -> Seq(Neighbors)]
         /\ \A g \in Hosts \ {h} : list'[g] = list[g]
         /\ \A k \in DOMAIN list'[h] :
              \/ list'[h][k].usn = p.usn
              \/ k \in DOMAIN list[h] /\ list'[h][k] = list[h][k]
         /\ \A k \in DOMAIN list'[h] :
              list'[h][k].location = IF k \in DOMAIN list[h] THEN list[h][k].location ELSE p.location
         /\ \A k \in DOMAIN list'[h] \ DOMAIN list[h] :
              /\ k = Len(list[h]) + 1
              /\ \A j \in DOMAIN list[h] : list[h][j].location # p.location
<1> DEFINE l == list[h]
           k == Known(l, p)
<1>1. l \in Seq(Neighbors) /\ Len(l) \in Nat /\ DOMAIN l = 1..Len(l)
  BY LenProperties DEF TypeOK
<1>2. CASE k # {}
  <2>1. Min(k) \in 1..Len(l) /\ l[Min(k)].location = p.location
    <3>1. k \subseteq 0..Len(l)
      BY <1>1 DEF Known, Same
    <3>2. Min(k) \in k
      BY <1>1, <1>2, <3>1, Minimum
    <3> QED BY <1>1, <3>2 DEF Known, Same
  <2> DEFINE n == Refreshed(l[Min(k)], p)
             now == [l EXCEPT ![Min(k)] = n]
  <2>2. l[Min(k)] \in Neighbors
    BY <1>1, <2>1, ElementOfSeq
  <2>3. n \in Neighbors /\ n.usn = p.usn /\ n.location = l[Min(k)].location
    <3> HIDE DEF k, l
    <3> QED BY <2>2, RefreshedNeighbor
  <2>4. /\ now \in Seq(Neighbors) /\ Len(now) = Len(l)
        /\ \A j \in 1..Len(l) : now[j] = IF j = Min(k) THEN n ELSE l[j]
    <3> HIDE DEF l, k, n
    <3> QED BY <1>1, <2>1, <2>3, ExceptSeq
  <2>5. list' = [list EXCEPT ![h] = now]
    BY <1>2 DEF AddNeighbor
  <2>6. list' \in [Hosts -> Seq(Neighbors)] /\ list'[h] = now /\ \A g \in Hosts \ {h} : list'[g] = list[g]
    <3> HIDE DEF now
    <3> QED BY <2>4, <2>5 DEF TypeOK
  <2>7. DOMAIN now = 1..Len(l)
    BY <2>4, LenProperties
  <2> HIDE DEF now, n, k
  <2> QED BY <1>1, <2>1, <2>3, <2>4, <2>6, <2>7
<1>3. CASE k = {}
  <2> DEFINE n == [location |-> p.location, usn |-> p.usn, age |-> 0]
             now == Append(l, n)
  <2>1. n \in Neighbors
    BY LssdpAssumption DEF Neighbors, Datagrams
  <2>2. /\ now \in Seq(Neighbors) /\ Len(now) = Len(l) + 1 /\ now[Len(l) + 1] = n
        /\ \A j \in 1..Len(l) : now[j] = l[j]
    <3> HIDE DEF l, n
    <3> QED BY <1>1, <2>1, AppendProperties
  <2>3. list' = [list EXCEPT ![h] = now]
    BY <1>3 DEF AddNeighbor
  <2>4. list' \in [Hosts -> Seq(Neighbors)] /\ list'[h] = now /\ \A g \in Hosts \ {h} : list'[g] = list[g]
    <3> HIDE DEF now
    <3> QED BY <2>2, <2>3 DEF TypeOK
  <2>5. DOMAIN now = 1..(Len(l) + 1) /\ \A j \in 1..(Len(l) + 1) : j \in 1..Len(l) \/ j = Len(l) + 1
    BY <1>1, <2>2, LenProperties
  <2>6. \A j \in DOMAIN l : l[j].location # p.location
    BY <1>3 DEF Known, Same
  <2>7. n.usn = p.usn /\ n.location = p.location /\ Len(l) + 1 \notin 1..Len(l)
    BY <1>1
  <2> HIDE DEF now, n, k
  <2> QED BY <1>1, <2>2, <2>4, <2>5, <2>6, <2>7
<1> QED BY <1>2, <1>3

\* The callback is given entries of the list.
LEMMA EntriesTypes ==
  ASSUME NEW l \in Seq(Neighbors)
  PROVE  Entries(l) \in Seq([location : Addresses, usn : Hosts])
<1> DEFINE T == [location : Addresses, usn : Hosts]
<1>1. Len(l) \in Nat /\ DOMAIN l = 1..Len(l) /\ \A k \in 1..Len(l) : l[k] \in Neighbors
  BY LenProperties, ElementOfSeq
<1>2. Entries(l) \in [1..Len(l) -> T]
  BY <1>1 DEF Entries, Entry, Neighbors
<1>3. Entries(l) \in Seq(T)
  <2> HIDE DEF T
  <2> QED BY <1>1, <1>2, SeqDef
<1> QED BY <1>3

-----------------------------------------------------------------------------
(* The invariant is kept, one lemma per action.                            *)

\* The bound on events.
LEMMA EventsTypes == ASSUME TypeOK, NEW n \in Nat, Events(n) PROVE events' \in 0..MaxEvents
BY LssdpAssumption DEF TypeOK, Events

\* What the system reports is cut to the size of the array.
LEMMA ReportedTypes ==
  ASSUME TypeOK, NEW h \in Hosts
  PROVE  Reported(h) \in Seq(Addresses) /\ Len(Reported(h)) <= IfCap
<1>1. os[h] \in Seq(Addresses) /\ Len(os[h]) \in Nat /\ IfCap \in Nat
  BY LenProperties, LssdpAssumption DEF TypeOK
<1> DEFINE n == Min({IfCap, Len(os[h])})
<1>2. n \in Nat /\ n <= IfCap /\ n <= Len(os[h])
  BY <1>1, MinimumOfTwo
<1>3. \A k \in 1..n : os[h][k] \in Addresses
  BY <1>1, <1>2, ElementOfSeq
<1> HIDE DEF n
<1>4. /\ SubSeq(os[h], 1, n) \in Seq(Addresses)
      /\ Len(SubSeq(os[h], 1, n)) = IF 1 <= n THEN n - 1 + 1 ELSE 0
  BY <1>2, <1>3, SubSeqProperties
<1>5. Reported(h) = SubSeq(os[h], 1, n)
  BY DEF Reported, n
<1> QED BY <1>1, <1>2, <1>4, <1>5

LEMMA UpdateKeeps == ASSUME Inv, NEW h \in Hosts, Update(h) PROVE Inv'
<1>1. PICK asked \in BOOLEAN, created \in BOOLEAN :
        LET found == IF asked THEN Reported(h) ELSE <<>>
            failures == Cardinality({x \in {<<1, asked>>, <<2, created>>} : ~x[2]})
        IN  /\ interface' = [interface EXCEPT ![h] = found]
            /\ Events(failures)
            /\ IF found = interface[h] THEN created /\ UNCHANGED <<open, inbox, list, shown>>
                                       ELSE RemoveAll(h) /\ Rebind(h, created)
  BY DEF Update
<1> DEFINE found == IF asked THEN Reported(h) ELSE <<>>
           failures == Cardinality({x \in {<<1, asked>>, <<2, created>>} : ~x[2]})
<1>2. TypeOK /\ UNCHANGED <<os, due>> /\ pc' \in [Hosts -> {"off", "start", "select"} \cup Tasks]
  BY DEF Inv, TypeOK, Update, Tasks
<1>3. interface' = [interface EXCEPT ![h] = found] /\ Events(failures)
  BY <1>1
<1>4. found \in Seq(Addresses) /\ Len(found) <= IfCap
  BY <1>2, ReportedTypes, EmptySeq, LssdpAssumption
<1>5. interface' \in [Hosts -> Seq(Addresses)] /\ \A g \in Hosts : Len(interface'[g]) <= IfCap
  <2> HIDE DEF found
  <2> QED BY <1>2, <1>3, <1>4 DEF TypeOK
<1>6. events' \in 0..MaxEvents
  <2>1. failures \in Nat
    <3>1. IsFiniteSet({<<1, asked>>, <<2, created>>})
      <4>1. IsFiniteSet({<<1, asked>>})
        BY FS_Singleton
      <4>2. IsFiniteSet({<<1, asked>>} \cup {<<2, created>>})
        BY <4>1, FS_AddElement
      <4> QED BY <4>2
    <3>2. IsFiniteSet({x \in {<<1, asked>>, <<2, created>>} : ~x[2]})
      BY <3>1, FS_Subset
    <3> QED BY <3>2, FS_CardinalityType
  <2> HIDE DEF failures
  <2> QED BY <1>2, <1>3, <2>1, EventsTypes
<1>7. CASE found = interface[h]
  <2>1. UNCHANGED <<open, inbox, list, shown>>
    BY <1>1, <1>7
  <2>2. UNCHANGED interface
    <3> HIDE DEF found
    <3> QED BY <1>2, <1>3, <1>7 DEF TypeOK
  <2> HIDE DEF found, failures
  <2>3. TypeOK'
    BY <1>2, <1>5, <1>6, <2>1 DEF TypeOK
  <2>4. Apart' /\ InboxSound'
    BY <1>2, <2>1, <2>2 DEF Inv, Apart, InboxSound, Sound
  <2> QED BY <2>3, <2>4 DEF Inv
<1>8. CASE found # interface[h]
  <2>1. /\ list' = [list EXCEPT ![h] = <<>>] /\ open' = [open EXCEPT ![h] = created]
        /\ inbox' = [inbox EXCEPT ![h] = <<>>]
        /\ shown' = [shown EXCEPT ![h] = Entries(<<>>)] \/ UNCHANGED shown
    BY <1>1, <1>8 DEF RemoveAll, Rebind, Show
  <2> HIDE DEF found, failures
  <2>2. /\ list' \in [Hosts -> Seq(Neighbors)] /\ open' \in [Hosts -> BOOLEAN]
        /\ inbox' \in [Hosts -> Seq(Datagrams)]
        /\ \A g \in Hosts : ~open'[g] => inbox'[g] = <<>> /\ list'[g] = <<>>
    BY <1>2, <2>1, EmptySeq DEF TypeOK
  <2>3. shown' \in [Hosts -> Seq([location : Addresses, usn : Hosts])]
    <3> DEFINE T == [location : Addresses, usn : Hosts]
    <3>1. Entries(<<>>) \in Seq(T)
      BY EmptySeq, EntriesTypes
    <3>2. shown \in [Hosts -> Seq(T)]
      BY <1>2 DEF TypeOK
    <3> HIDE DEF T
    <3>3. shown' \in [Hosts -> Seq(T)]
      BY <2>1, <3>1, <3>2
    <3> QED BY <3>3 DEF T
  <2>4. TypeOK'
    BY <1>2, <1>5, <1>6, <2>2, <2>3 DEF TypeOK
  <2>5. Apart'
    BY <1>2 DEF Inv, Apart
  <2>6. ASSUME NEW g \in Hosts, NEW p \in Range(inbox'[g]) PROVE Sound(g, p)'
    <3>1. g # h /\ p \in Range(inbox[g])
      BY <1>2, <2>1, <2>6 DEF TypeOK, Range
    <3>2. interface'[g] = interface[g]
      BY <1>2, <1>3, <3>1 DEF TypeOK
    <3> QED BY <1>2, <3>1, <3>2 DEF Inv, InboxSound, Sound
  <2> QED BY <2>4, <2>5, <2>6 DEF Inv, InboxSound
<1> QED BY <1>7, <1>8

LEMMA SendKeeps ==
  ASSUME Inv, NEW h \in Hosts, SendMsearch(h) \/ SendNotify(h)
  PROVE  Inv'
<1>1. Receives(h)
  BY MulticastReceived DEF Inv, SendMsearch, SendNotify
<1>2. /\ UNCHANGED <<os, interface, open, list, shown, due, events>>
      /\ pc' \in [Hosts -> {"off", "start", "select"} \cup Tasks]
  BY DEF Inv, TypeOK, SendMsearch, SendNotify, NoEvent, Tasks
<1>3. InboxSound'
  BY <1>1, <1>2, ReceivedSound
<1>4. TypeOK'
  BY <1>1, <1>2 DEF Inv, TypeOK, Receives
<1> QED BY <1>2, <1>3, <1>4 DEF Inv, Apart

\* A datagram that was read leaves the others.
LEMMA DropReceived ==
  ASSUME TypeOK, NEW h \in Hosts, inbox[h] # <<>>, inbox' = [inbox EXCEPT ![h] = Tail(@)]
  PROVE  Receives(h)
<1>1. Tail(inbox[h]) \in Seq(Datagrams) /\ Range(Tail(inbox[h])) \subseteq Range(inbox[h])
  BY TailReceived
<1>2. inbox' \in [Hosts -> Seq(Datagrams)] /\ \A g \in Hosts : Range(inbox'[g]) \subseteq Range(inbox[g])
  BY <1>1 DEF TypeOK
<1>3. \A g \in Hosts : inbox[g] = <<>> => inbox'[g] = <<>>
  BY DEF TypeOK
<1> QED BY <1>2, <1>3 DEF Receives

\* The callback's list has the types of entries, whatever was shown before.
LEMMA ShowTypes ==
  ASSUME TypeOK, NEW h \in Hosts, NEW l \in Seq(Neighbors), Show(h, l) \/ UNCHANGED shown
  PROVE  shown' \in [Hosts -> Seq([location : Addresses, usn : Hosts])]
<1> DEFINE T == [location : Addresses, usn : Hosts]
<1>1. Entries(l) \in Seq(T) /\ shown \in [Hosts -> Seq(T)]
  BY EntriesTypes DEF TypeOK
<1> HIDE DEF T
<1>2. shown' \in [Hosts -> Seq(T)]
  BY <1>1 DEF Show
<1> QED BY <1>2 DEF T

LEMMA SelectKeeps == ASSUME Inv, NEW h \in Hosts, Select(h) PROVE Inv'
<1>1. /\ TypeOK /\ UNCHANGED <<os, interface, open, due, events>>
      /\ pc' \in [Hosts -> {"off", "start", "select"} \cup Tasks]
  BY DEF Inv, TypeOK, Select, NoEvent, Tasks
<1>2. CASE UNCHANGED <<inbox, list, shown>>
  BY <1>1, <1>2 DEF Inv, TypeOK, Apart, InboxSound, Sound
<1>3. CASE inbox[h] # <<>> /\ Read(h)
  <2> DEFINE p == Head(inbox[h])
  <2>1. p \in Range(inbox[h]) /\ p \in Datagrams /\ open[h]
    BY <1>1, <1>3, TailReceived
  <2>2. Receives(h)
    <3>1. CASE inbox' = [inbox EXCEPT ![h] = Tail(@)]
      BY <1>1, <1>3, <3>1, DropReceived
    <3>2. CASE ~FromSelf(h, p) /\ SendResponse(h, p)
      BY <1>3, <3>2, ResponseReceived
    <3> QED BY <1>3, <3>1, <3>2 DEF Read
  <2>3. InboxSound'
    BY <1>1, <2>2, ReceivedSound
  <2>4. CASE UNCHANGED <<list, shown>>
    <3>1. TypeOK'
      BY <1>1, <2>2, <2>4 DEF TypeOK, Receives
    <3> QED BY <1>1, <2>3, <3>1 DEF Inv, Apart
  <2>5. CASE p.method \in {"NOTIFY", "RESPONSE"} /\ AddNeighbor(h, p)
    <3>1. p.usn \in Hosts
      BY <2>1, <2>5 DEF Inv, InboxSound, Sound, Datagrams
    <3>2. list' \in [Hosts -> Seq(Neighbors)] /\ \A g \in Hosts \ {h} : list'[g] = list[g]
      BY <1>1, <2>1, <2>5, <3>1, NeighborAdded
    <3>3. PICK now : list' = [list EXCEPT ![h] = now] /\ (Show(h, now) \/ UNCHANGED shown)
      BY <2>5 DEF AddNeighbor
    <3>4. now \in Seq(Neighbors)
      BY <1>1, <3>2, <3>3 DEF TypeOK
    <3>5. shown' \in [Hosts -> Seq([location : Addresses, usn : Hosts])]
      BY <1>1, <3>3, <3>4, ShowTypes
    <3>6. TypeOK'
      BY <1>1, <2>1, <2>2, <3>2, <3>5 DEF TypeOK, Receives
    <3> QED BY <1>1, <2>3, <3>6 DEF Inv, Apart
  <2> QED BY <1>3, <2>4, <2>5 DEF Read
<1> QED BY <1>2, <1>3 DEF Select

LEMMA CheckTimeoutKeeps == ASSUME Inv, NEW h \in Hosts, CheckTimeout(h) PROVE Inv'
<1> DEFINE stay == Kept(list[h], {k \in DOMAIN list[h] : list[h][k].age < Timeout})
<1>1. /\ TypeOK /\ UNCHANGED <<os, interface, open, inbox, events>>
      /\ pc' \in [Hosts -> {"off", "start", "select"} \cup Tasks] /\ due' \in [Hosts -> BOOLEAN]
  BY DEF Inv, TypeOK, CheckTimeout, NoEvent, Tasks
<1>2. list' = [list EXCEPT ![h] = stay] /\ (Show(h, stay) \/ UNCHANGED shown)
  BY DEF CheckTimeout, Goes
<1>3. stay \in Seq(Neighbors) /\ (list[h] = <<>> => stay = <<>>)
  BY <1>1, KeptElements DEF TypeOK
<1> HIDE DEF stay
<1>4. /\ list' \in [Hosts -> Seq(Neighbors)]
      /\ \A g \in Hosts : list[g] = <<>> => list'[g] = <<>>
  BY <1>1, <1>2, <1>3 DEF TypeOK
<1>5. shown' \in [Hosts -> Seq([location : Addresses, usn : Hosts])]
  BY <1>1, <1>2, <1>3, ShowTypes
<1>6. TypeOK'
  BY <1>1, <1>4, <1>5 DEF TypeOK
<1> QED BY <1>1, <1>6 DEF Inv, Apart, InboxSound, Sound

LEMMA MoveKeeps == ASSUME Inv, NEW h \in Hosts, Move(h) PROVE Inv'
<1>1. PICK c \in Configs[h] :
        /\ \A g \in Hosts \ {h} : Range(os[g]) \cap Range(c) \subseteq {Loopback}
        /\ \A g \in Hosts : \A k \in DOMAIN inbox[g] :
             inbox[g][k].usn # h => inbox[g][k].from \notin Range(c)
        /\ os' = [os EXCEPT ![h] = c]
  BY DEF Move
<1>2. TypeOK /\ UNCHANGED <<pc, interface, open, inbox, list, shown, due>> /\ events' \in 0..MaxEvents
  BY EventsTypes DEF Inv, Move
<1>3. os' \in [Hosts -> Seq(Addresses)] /\ \A g \in Hosts : os'[g] \in Configs[g]
  BY <1>1, <1>2, LssdpAssumption DEF TypeOK
<1>4. TypeOK'
  BY <1>2, <1>3 DEF TypeOK
<1>5. os'[h] = c /\ \A g \in Hosts \ {h} : os'[g] = os[g]
  BY <1>1, <1>2 DEF TypeOK
<1>6. Apart'
  <2>1. SUFFICES ASSUME NEW g \in Hosts, NEW i \in Hosts, g # i
                 PROVE  Range(os'[g]) \cap Range(os'[i]) \subseteq {Loopback}
    BY DEF Apart
  <2>2. CASE g = h
    BY <1>1, <1>5, <2>1, <2>2
  <2>3. CASE i = h
    BY <1>1, <1>5, <2>1, <2>3
  <2>4. CASE g # h /\ i # h
    BY <1>5, <2>1, <2>4 DEF Inv, Apart
  <2> QED BY <2>2, <2>3, <2>4
<1>7. InboxSound'
  <2>1. \A g \in Hosts : \A p \in Range(inbox[g]) : p.usn # h => p.from \notin Range(c)
    BY <1>1 DEF Range
  <2>2. ASSUME NEW g \in Hosts, NEW p \in Range(inbox[g]), NEW i \in Hosts, p.usn # i
        PROVE  p.from \notin Range(os'[i])
    <3>1. CASE i = h
      BY <1>5, <2>1, <2>2, <3>1
    <3>2. CASE i # h
      BY <1>5, <2>2, <3>2 DEF Inv, InboxSound, Sound
    <3> QED BY <3>1, <3>2
  <2> QED BY <1>2, <2>2 DEF Inv, InboxSound, Sound
<1> QED BY <1>4, <1>6, <1>7 DEF Inv

LEMMA StrayKeeps == ASSUME Inv, NEW h \in Hosts, Stray(h) PROVE Inv'
<1>1. PICK a \in Addresses :
        /\ Net[a] \in Nets(h) /\ \A g \in Hosts : a \notin Range(os[g])
        /\ inbox' = [inbox EXCEPT ![h] = Append(@, Datagram(Stranger, "other", a))]
  BY DEF Stray
<1>2. /\ TypeOK /\ UNCHANGED <<os, pc, interface, open, list, shown, due>>
      /\ open[h] /\ events' \in 0..MaxEvents
  BY EventsTypes DEF Inv, Stray
<1> DEFINE p == Datagram(Stranger, "other", a)
<1>3. p \in Datagrams /\ p.usn = Stranger /\ p.method = "other" /\ p.from = a
  BY DEF Datagram, Datagrams
<1>4. a # Loopback
  <2>1. PICK b \in Range(os[h]) : Net[a] = Net[b]
    BY <1>1 DEF Nets
  <2>2. b \in Addresses
    BY <1>2, <2>1, RangeOfSeq DEF TypeOK
  <2> QED BY <1>1, <2>1, <2>2, LssdpAssumption
<1> HIDE DEF p
<1>5. /\ inbox' \in [Hosts -> Seq(Datagrams)]
      /\ inbox'[h] = Append(inbox[h], p) /\ \A g \in Hosts \ {h} : inbox'[g] = inbox[g]
  BY <1>1, <1>2, <1>3 DEF TypeOK, p
<1>6. \A q \in Range(Append(inbox[h], p)) : q \in Range(inbox[h]) \/ q = p
  <2>1. /\ inbox[h] \in Seq(Datagrams) /\ Len(inbox[h]) \in Nat
        /\ DOMAIN inbox[h] = 1..Len(inbox[h])
        /\ DOMAIN Append(inbox[h], p) = 1..(Len(inbox[h]) + 1)
        /\ Append(inbox[h], p)[Len(inbox[h]) + 1] = p
        /\ \A i \in 1..Len(inbox[h]) : Append(inbox[h], p)[i] = inbox[h][i]
    BY <1>2, <1>3, AppendProperties, LenProperties DEF TypeOK
  <2>2. \A i \in 1..(Len(inbox[h]) + 1) : i \in 1..Len(inbox[h]) \/ i = Len(inbox[h]) + 1
    BY <2>1
  <2> QED BY <2>1, <2>2 DEF Range
<1>7. TypeOK'
  BY <1>2, <1>5 DEF TypeOK
<1>8. \A g \in Hosts : Sound(g, p)
  BY <1>1, <1>3, <1>4, LssdpAssumption DEF Sound
<1>9. InboxSound'
  <2>1. \A g \in Hosts : \A q \in Range(inbox'[g]) : Sound(g, q)
    BY <1>5, <1>6, <1>8 DEF Inv, InboxSound
  <2> QED BY <1>2, <2>1 DEF InboxSound, Sound
<1> QED BY <1>2, <1>7, <1>9 DEF Inv, Apart

LEMMA LoseKeeps == ASSUME Inv, NEW h \in Hosts, Lose(h) PROVE Inv'
<1>1. /\ TypeOK /\ UNCHANGED <<os, pc, interface, open, list, shown, due>> /\ events' \in 0..MaxEvents
      /\ inbox' = [inbox EXCEPT ![h] = Front(@)] /\ inbox[h] # <<>>
  BY EventsTypes DEF Inv, Lose
<1>2. Front(inbox[h]) \in Seq(Datagrams) /\ Range(Front(inbox[h])) \subseteq Range(inbox[h]) /\ open[h]
  BY <1>1, TailReceived
<1>3. /\ inbox' \in [Hosts -> Seq(Datagrams)]
      /\ \A g \in Hosts : Range(inbox'[g]) \subseteq Range(inbox[g])
      /\ \A g \in Hosts \ {h} : inbox'[g] = inbox[g]
  BY <1>1, <1>2 DEF TypeOK
<1>4. TypeOK'
  BY <1>1, <1>2, <1>3 DEF TypeOK
<1> QED BY <1>1, <1>3, <1>4, ZenonT(60) DEF Inv, Apart, InboxSound, Sound

LEMMA StopKeeps == ASSUME Inv, NEW h \in Hosts, Stop(h) PROVE Inv'
<1>1. /\ TypeOK /\ UNCHANGED os /\ events' \in 0..MaxEvents
      /\ pc' = [pc EXCEPT ![h] = "off"] /\ open' = [open EXCEPT ![h] = FALSE]
      /\ interface' = [interface EXCEPT ![h] = <<>>] /\ inbox' = [inbox EXCEPT ![h] = <<>>]
      /\ list' = [list EXCEPT ![h] = <<>>] /\ shown' = [shown EXCEPT ![h] = <<>>]
      /\ due' = [due EXCEPT ![h] = FALSE]
  BY EventsTypes DEF Inv, Stop
<1>2. /\ pc' \in [Hosts -> {"off", "start", "select"} \cup Tasks]
      /\ open' \in [Hosts -> BOOLEAN] /\ due' \in [Hosts -> BOOLEAN]
      /\ interface' \in [Hosts -> Seq(Addresses)] /\ \A g \in Hosts : Len(interface'[g]) <= IfCap
  BY <1>1, EmptySeq, LssdpAssumption DEF TypeOK
<1>3. /\ inbox' \in [Hosts -> Seq(Datagrams)] /\ list' \in [Hosts -> Seq(Neighbors)]
      /\ \A g \in Hosts : ~open'[g] => inbox'[g] = <<>> /\ list'[g] = <<>>
  BY <1>1, EmptySeq DEF TypeOK
<1>4. shown' \in [Hosts -> Seq([location : Addresses, usn : Hosts])]
  <2> DEFINE T == [location : Addresses, usn : Hosts]
  <2>1. shown \in [Hosts -> Seq(T)] /\ <<>> \in Seq(T)
    BY <1>1, EmptySeq DEF TypeOK
  <2> HIDE DEF T
  <2>2. shown' \in [Hosts -> Seq(T)]
    BY <1>1, <2>1
  <2> QED BY <2>2 DEF T
<1>5. TypeOK'
  BY <1>1, <1>2, <1>3, <1>4 DEF TypeOK
<1>6. ASSUME NEW g \in Hosts, NEW p \in Range(inbox'[g]) PROVE Sound(g, p)'
  <2>1. g # h /\ p \in Range(inbox[g])
    BY <1>1, <1>6 DEF TypeOK, Range
  <2>2. interface'[g] = interface[g]
    BY <1>1, <2>1 DEF TypeOK
  <2> QED BY <1>1, <2>1, <2>2 DEF Inv, InboxSound, Sound
<1> QED BY <1>1, <1>5, <1>6 DEF Inv, Apart, InboxSound

LEMMA StartKeeps == ASSUME Inv, NEW h \in Hosts, Start(h) PROVE Inv'
<1>1. TypeOK'
  BY DEF Inv, TypeOK, Start, NoEvent
<1> QED BY <1>1 DEF Inv, Apart, InboxSound, Sound, Start, NoEvent

\* A neighbour grows older, but not beyond the age at which it goes.
LEMMA PeriodKeeps ==
  ASSUME Inv, Period
  PROVE  Inv' /\ \A h \in Hosts : Entries(list'[h]) = Entries(list[h])
<1> DEFINE older(l) == [k \in DOMAIN l |-> [l[k] EXCEPT !.age = Min({@ + 1, Timeout})]]
<1>1. ASSUME NEW n \in Neighbors
      PROVE  /\ [n EXCEPT !.age = Min({@ + 1, Timeout})] \in Neighbors
             /\ Entry([n EXCEPT !.age = Min({@ + 1, Timeout})]) = Entry(n)
  <2>1. n.age \in 0..Timeout /\ Min({n.age + 1, Timeout}) \in 0..Timeout
    BY MinimumOfTwo, LssdpAssumption DEF Neighbors
  <2> QED BY <2>1 DEF Neighbors, Entry
<1>2. ASSUME NEW l \in Seq(Neighbors)
      PROVE  older(l) \in Seq(Neighbors) /\ Entries(older(l)) = Entries(l) /\ (l = <<>> => older(l) = <<>>)
  <2>1. Len(l) \in Nat /\ DOMAIN l = 1..Len(l) /\ \A k \in 1..Len(l) : l[k] \in Neighbors
    BY LenProperties, ElementOfSeq
  <2>2. \A k \in 1..Len(l) : older(l)[k] \in Neighbors /\ Entry(older(l)[k]) = Entry(l[k])
    BY <1>1, <2>1
  <2>3. older(l) \in [1..Len(l) -> Neighbors]
    BY <2>1, <2>2
  <2>4. DOMAIN older(l) = DOMAIN l
    OBVIOUS
  <2>5. l = <<>> => older(l) = <<>>
    OBVIOUS
  <2> HIDE DEF older
  <2>6. older(l) \in Seq(Neighbors)
    BY <2>1, <2>3, SeqDef
  <2> QED BY <2>1, <2>2, <2>4, <2>5, <2>6 DEF Entries
<1>3. list' = [h \in Hosts |-> older(list[h])]
  BY DEF Period
<1>4. TypeOK /\ UNCHANGED <<os, events, pc, interface, open, inbox, shown>> /\ due' \in [Hosts -> BOOLEAN]
  BY DEF Inv, Period, NoEvent
<1> HIDE DEF older
<1>5. /\ list' \in [Hosts -> Seq(Neighbors)]
      /\ \A h \in Hosts : Entries(list'[h]) = Entries(list[h]) /\ (list[h] = <<>> => list'[h] = <<>>)
  BY <1>2, <1>3, <1>4 DEF TypeOK
<1>6. TypeOK'
  BY <1>4, <1>5 DEF TypeOK
<1> QED BY <1>4, <1>5, <1>6 DEF Inv, Apart, InboxSound, Sound

LEMMA InitInv == ASSUME Init PROVE Inv
<1>1. os \in [Hosts -> Seq(Addresses)] /\ \A h \in Hosts : os[h] \in Configs[h]
  BY LssdpAssumption DEF Init
<1> DEFINE T == [location : Addresses, usn : Hosts]
<1>2. <<>> \in Seq(Addresses) /\ <<>> \in Seq(Datagrams) /\ <<>> \in Seq(Neighbors) /\ <<>> \in Seq(T)
  BY EmptySeq
<1>3. shown \in [Hosts -> Seq(T)]
  <2> HIDE DEF T
  <2> QED BY <1>2 DEF Init
<1>4. TypeOK
  BY <1>1, <1>2, <1>3, LssdpAssumption DEF Init, TypeOK, Tasks
<1>5. \A h \in Hosts : Range(inbox[h]) = {}
  BY DEF Init, Range
<1> QED BY <1>4, <1>5 DEF Init, Inv, Apart, InboxSound

LEMMA NextInv == ASSUME Inv, [Next]_vars PROVE Inv'
<1>1. ASSUME NEW h \in Hosts, Daemon(h) PROVE Inv'
  BY <1>1, UpdateKeeps, SelectKeeps, SendKeeps, CheckTimeoutKeeps DEF Daemon
<1>2. CASE UNCHANGED vars
  BY <1>2 DEF vars, Inv, TypeOK, Apart, InboxSound, Sound
<1> QED BY <1>1, <1>2, MoveKeeps, StrayKeeps, LoseKeeps, StopKeeps, StartKeeps, PeriodKeeps DEF Next

\* The invariant of all states, on which the theorems rest.
LEMMA Invariant == Spec => []Inv
<1>1. Init => Inv
  BY InitInv
<1>2. Inv /\ [Next]_vars => Inv'
  BY NextInv
<1> QED BY <1>1, <1>2, PTL DEF Spec

-----------------------------------------------------------------------------
(* What can happen to a neighbour list.                                    *)

\* A host reads a packet that comes from another one, and remembers its sender.
Adds(h) == \E p \in Range(inbox[h]) :
             p \in Datagrams /\ p.usn \in Hosts \ {h} /\ AddNeighbor(h, p)

\* Every step leaves a list's entries as they are, empties it, adds a neighbour, or
\* keeps some of them; and the callback follows.
ListStep(h) ==
  /\ \/ Entries(list'[h]) = Entries(list[h])
     \/ list'[h] = <<>>
     \/ Adds(h)
     \/ \E K : list'[h] = Kept(list[h], K)
  /\ shown[h] = Entries(list[h]) => shown'[h] = Entries(list'[h])

LEMMA ListSteps == ASSUME Inv, [Next]_vars, NEW g \in Hosts PROVE ListStep(g)
<1>1. CASE UNCHANGED <<list, shown>>
  BY <1>1 DEF ListStep
<1>2. /\ list \in [Hosts -> Seq(Neighbors)] /\ Entries(<<>>) = <<>>
      /\ DOMAIN shown = Hosts /\ DOMAIN inbox = Hosts
  BY DEF Inv, TypeOK, Entries
<1>3. ASSUME NEW h \in Hosts, Update(h) PROVE ListStep(g)
  <2>1. CASE RemoveAll(h)
    <3>1. CASE g = h
      BY <1>2, <2>1, <3>1 DEF RemoveAll, Show, ListStep
    <3>2. CASE g # h
      BY <1>2, <2>1, <3>2 DEF RemoveAll, Show, ListStep
    <3> QED BY <3>1, <3>2
  <2> QED BY <1>1, <1>3, <2>1 DEF Update
<1>4. ASSUME NEW h \in Hosts, Select(h) PROVE ListStep(g)
  <2> DEFINE p == Head(inbox[h])
  <2>1. CASE inbox[h] # <<>> /\ ~FromSelf(h, p) /\ p.method \in {"NOTIFY", "RESPONSE"} /\ AddNeighbor(h, p)
    <3>1. p \in Range(inbox[h]) /\ p \in Datagrams
      BY <2>1, TailReceived DEF Inv
    <3>2. p.usn \in Hosts \ {h}
      BY <2>1, <3>1 DEF Inv, InboxSound, Sound, Datagrams, FromSelf
    <3>3. Adds(h)
      BY <2>1, <3>1, <3>2 DEF Adds
    <3> DEFINE k == Known(list[h], p)
               now == IF k # {} THEN [list[h] EXCEPT ![Min(k)] = Refreshed(@, p)]
                      ELSE Append(list[h], [location |-> p.location, usn |-> p.usn, age |-> 0])
    <3>4. /\ list' = [list EXCEPT ![h] = now]
          /\ IF Entries(now) # Entries(list[h]) THEN Show(h, now) ELSE UNCHANGED shown
      BY <2>1 DEF AddNeighbor
    <3> HIDE DEF now
    <3>5. CASE g = h
      BY <1>2, <3>3, <3>4, <3>5 DEF Show, ListStep
    <3>6. CASE g # h
      BY <1>2, <3>4, <3>6 DEF Show, ListStep
    <3> QED BY <3>5, <3>6
  <2> QED BY <1>1, <1>4, <2>1 DEF Select, Read
<1>5. ASSUME NEW h \in Hosts, CheckTimeout(h) PROVE ListStep(g)
  <2> DEFINE K == {k \in DOMAIN list[h] : list[h][k].age < Timeout}
             stay == Kept(list[h], K)
  <2>1. /\ list' = [list EXCEPT ![h] = stay]
        /\ IF stay # list[h] THEN Show(h, stay) ELSE UNCHANGED shown
    BY <1>5 DEF CheckTimeout, Goes
  <2>2. stay = Kept(list[h], K)
    OBVIOUS
  <2> HIDE DEF stay, K
  <2>3. CASE g = h
    BY <1>2, <2>1, <2>2, <2>3 DEF Show, ListStep
  <2>4. CASE g # h
    BY <1>2, <2>1, <2>4 DEF Show, ListStep
  <2> QED BY <2>3, <2>4
<1>6. ASSUME NEW h \in Hosts, Stop(h) PROVE ListStep(g)
  <2>1. CASE g = h
    BY <1>2, <1>6, <2>1 DEF Stop, ListStep
  <2>2. CASE g # h
    BY <1>2, <1>6, <2>2 DEF Stop, ListStep
  <2> QED BY <2>1, <2>2
<1>7. CASE Period
  <2>1. UNCHANGED shown /\ Entries(list'[g]) = Entries(list[g])
    BY <1>7, PeriodKeeps DEF Period
  <2> QED BY <2>1 DEF ListStep
<1>8. ASSUME NEW h \in Hosts,
             SendMsearch(h) \/ SendNotify(h) \/ Move(h) \/ Stray(h) \/ Lose(h) \/ Start(h)
      PROVE  UNCHANGED <<list, shown>>
  BY <1>8 DEF SendMsearch, SendNotify, Move, Stray, Lose, Start
<1> QED BY <1>1, <1>3, <1>4, <1>5, <1>6, <1>7, <1>8 DEF Next, Daemon, vars

-----------------------------------------------------------------------------
(* The theorems.                                                           *)

\* All variables keep their types: the interfaces stay within their array, and a
\* daemon without a socket has neither datagrams nor neighbours.
THEOREM TypeCorrect == Spec => []TypeOK
BY Invariant, PTL DEF Inv

\* neighbor_list_changed_callback has always been told of the list as it is, but
\* for the times: no packet, timeout, change of interfaces or restart goes unheard.
THEOREM CallbackHearsAll == Spec => []ShownIsCurrent
<1>1. Init => ShownIsCurrent
  BY DEF Init, ShownIsCurrent, Entries
<1>2. Inv /\ ShownIsCurrent /\ [Next]_vars => ShownIsCurrent'
  BY ListSteps DEF ListStep, ShownIsCurrent, Entries, Entry
<1> QED BY <1>1, <1>2, Invariant, PTL DEF Spec

\* No location is in a neighbour list twice: a packet adds a neighbour only if no
\* other has its location, and what goes leaves the others in their order.
THEOREM OneNeighborPerLocation == Spec => []NoneTwice
<1>1. Init => NoneTwice
  BY DEF Init, NoneTwice
<1>2. ASSUME Inv, NoneTwice, [Next]_vars PROVE NoneTwice'
  <2>1. SUFFICES ASSUME NEW h \in Hosts, NEW j \in DOMAIN list'[h], NEW k \in DOMAIN list'[h],
                        list'[h][j].location = list'[h][k].location
                 PROVE  j = k
    BY DEF NoneTwice
  <2>2. ListStep(h) /\ list[h] \in Seq(Neighbors) /\ TypeOK
    BY <1>2, ListSteps DEF Inv, TypeOK
  <2>3. CASE Entries(list'[h]) = Entries(list[h])
    <3>1. /\ DOMAIN list'[h] = DOMAIN list[h]
          /\ \A i \in DOMAIN list[h] : list'[h][i].location = list[h][i].location
      BY <2>3 DEF Entries, Entry
    <3> QED BY <1>2, <2>1, <3>1 DEF NoneTwice
  <2>4. CASE list'[h] = <<>>
    BY <2>1, <2>4
  <2>5. CASE Adds(h)
    <3>1. PICK p \in Datagrams : p.usn \in Hosts /\ AddNeighbor(h, p)
      BY <2>5 DEF Adds
    <3>2. /\ \A i \in DOMAIN list'[h] :
               list'[h][i].location = IF i \in DOMAIN list[h] THEN list[h][i].location ELSE p.location
          /\ \A i \in DOMAIN list'[h] \ DOMAIN list[h] :
               /\ i = Len(list[h]) + 1
               /\ \A m \in DOMAIN list[h] : list[h][m].location # p.location
      BY <2>2, <3>1, NeighborAdded
    <3>3. CASE j \in DOMAIN list[h] /\ k \in DOMAIN list[h]
      BY <1>2, <2>1, <3>2, <3>3 DEF NoneTwice
    <3>4. CASE j \notin DOMAIN list[h] \/ k \notin DOMAIN list[h]
      BY <2>1, <3>2, <3>4
    <3> QED BY <3>3, <3>4
  <2>6. CASE \E K : list'[h] = Kept(list[h], K)
    <3>1. PICK K : list'[h] = Kept(list[h], K)
      BY <2>6
    <3> DEFINE n == Len(Kept(list[h], K))
    <3>2. PICK e \in [1..n -> K \cap (1..Len(list[h]))] :
            /\ \A i \in 1..n : Kept(list[h], K)[i] = list[h][e[i]]
            /\ \A i, m \in 1..n : i < m => e[i] < e[m]
      BY <2>2, KeptProperties
    <3>3. n \in Nat /\ DOMAIN list'[h] = 1..n /\ DOMAIN list[h] = 1..Len(list[h]) /\ Len(list[h]) \in Nat
      BY <2>2, <3>1, KeptProperties, LenProperties
    <3>4. e[j] = e[k] /\ e[j] \in Nat
      <4>1. e[j] \in DOMAIN list[h] /\ e[k] \in DOMAIN list[h]
        BY <3>2, <3>3
      <4>2. list[h][e[j]].location = list[h][e[k]].location
        BY <2>1, <3>1, <3>2, <3>3
      <4> QED BY <1>2, <3>3, <4>1, <4>2 DEF NoneTwice
    <3> QED BY <3>2, <3>3, <3>4
  <2> QED BY <2>2, <2>3, <2>4, <2>5, <2>6 DEF ListStep
<1> QED BY <1>1, <1>2, Invariant, PTL DEF Spec

\* No host has itself as a neighbour: whatever it sent and now reads came from an
\* address that it still lists, and no other host uses its name.
THEOREM NeverItsOwnNeighbor == Spec => []NeverItself
<1>1. Init => NeverItself
  BY DEF Init, NeverItself
<1>2. ASSUME Inv, NeverItself, [Next]_vars PROVE NeverItself'
  <2>1. SUFFICES ASSUME NEW h \in Hosts, NEW k \in DOMAIN list'[h] PROVE list'[h][k].usn # h
    BY DEF NeverItself
  <2>2. ListStep(h) /\ list[h] \in Seq(Neighbors) /\ TypeOK
    BY <1>2, ListSteps DEF Inv, TypeOK
  <2>3. CASE Entries(list'[h]) = Entries(list[h])
    <3>1. DOMAIN list'[h] = DOMAIN list[h] /\ \A i \in DOMAIN list[h] : list'[h][i].usn = list[h][i].usn
      BY <2>3 DEF Entries, Entry
    <3> QED BY <1>2, <3>1 DEF NeverItself
  <2>4. CASE list'[h] = <<>>
    BY <2>4
  <2>5. CASE Adds(h)
    BY <1>2, <2>2, <2>5, NeighborAdded DEF Adds, NeverItself
  <2>6. CASE \E K : list'[h] = Kept(list[h], K)
    BY <1>2, <2>2, <2>6, KeptElements DEF NeverItself
  <2> QED BY <2>2, <2>3, <2>4, <2>5, <2>6 DEF ListStep
<1> QED BY <1>1, <1>2, Invariant, PTL DEF Spec

=============================================================================
