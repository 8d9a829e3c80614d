----------------------------- MODULE NetworkProofs -----------------------------
(***************************************************************************)
(* What holds of Network for every number of stations, cache entries,      *)
(* descriptors and frames: the cache gives the address of the last         *)
(* request, the send ring stays in step with the card unless a handler     *)
(* sends in between, and the kernel hangs only where something was lost.   *)
(***************************************************************************)
EXTENDS Network, TLAPS, WellFoundedInduction, SequenceTheorems

-----------------------------------------------------------------------------
(* The cache                                                               *)

(* A set of natural numbers has a least element.                           *)
Below == OpToRel(<, Nat)

LEMMA BelowIsWellFounded == IsWellFoundedOn(Below, Nat)
BY NatLessThanWellFounded, Zenon DEF Below

LEMMA BelowIsLess == \A m, n \in Nat : n < m => <<n, m>> \in Below
BY Zenon DEF Below, OpToRel

LEMMA LeastIn ==
    ASSUME NEW S \in SUBSET Nat, S # {}
    PROVE  \E m \in S : \A n \in S : m <= n
<1>1. \E m \in S : \A n \in S : ~ (<<n, m>> \in Below)
  <2>1. S \subseteq Nat
    OBVIOUS
  <2> QED BY <2>1, BelowIsWellFounded, WFMin, Zenon
<1> PICK m \in S : \A n \in S : ~ (<<n, m>> \in Below)
  BY <1>1
<1>2. ASSUME NEW n \in S PROVE m <= n
  <2>1. m \in Nat /\ n \in Nat
    OBVIOUS
  <2>2. ~ (n < m)
    BY <2>1, BelowIsLess
  <2> QED BY <2>1, <2>2
<1> QED BY <1>2

Cached == [ip : Stations, mac : Macs]

IsCache(c) == c \in Seq(Cached) /\ Len(c) \in 0 .. CacheSize

Knows(c, s) == \E i \in 1 .. Len(c) : c[i].ip = s

(* The first entry of an address counts.                                   *)
IsFirst(c, s, i) ==
    /\ i \in 1 .. Len(c) /\ c[i].ip = s
    /\ \A j \in 1 .. i - 1 : c[j].ip # s

LEMMA FirstExists ==
    ASSUME NEW c, IsCache(c), NEW s, Knows(c, s)
    PROVE  \E i : IsFirst(c, s, i)
<1> DEFINE S == {i \in 1 .. Len(c) : c[i].ip = s}
<1>1. S \in SUBSET Nat /\ S # {} /\ Len(c) \in Nat
  BY DEF Knows, IsCache
<1>2. PICK m \in S : \A n \in S : m <= n
  <2> HIDE DEF S
  <2> QED BY <1>1, LeastIn
<1>3. ASSUME NEW j \in 1 .. m - 1 PROVE c[j].ip # s
  <2>1. j \in 1 .. Len(c) /\ ~ (m <= j)
    BY <1>1
  <2> QED BY <1>2, <2>1
<1> QED BY <1>1, <1>3 DEF IsFirst

LEMMA GetsFirst ==
    ASSUME NEW c, IsCache(c), NEW s, NEW i, IsFirst(c, s, i)
    PROVE  GetMACFromCache(c, s) = c[i].mac
<1> DEFINE S == Entries(c, s)
<1>1. S = {k \in 1 .. Len(c) : c[k].ip = s} /\ Len(c) \in Nat
  BY DEF Entries, IsCache
<1>2. i \in S /\ \A j \in S : i <= j
  <2>1. ASSUME NEW j \in S PROVE i <= j
    <3>1. j \in 1 .. Len(c) /\ j \notin 1 .. i - 1 /\ i \in 1 .. Len(c)
      BY <1>1 DEF IsFirst
    <3> QED BY <1>1, <3>1
  <2> QED BY <1>1, <2>1 DEF IsFirst
<1>3. ASSUME NEW k \in S, \A j \in S : k <= j PROVE k = i
  <2>1. k \in Nat /\ i \in Nat /\ k <= i /\ i <= k
    BY <1>1, <1>2, <1>3
  <2> QED BY <2>1
<1>4. (CHOOSE k \in S : \A j \in S : k <= j) = i
  <2> HIDE DEF S
  <2> QED BY <1>2, <1>3
<1> QED BY <1>2, <1>4 DEF GetMACFromCache

LEMMA GetsNothing ==
    ASSUME NEW c, IsCache(c), NEW s
    PROVE  /\ ~ Knows(c, s) => GetMACFromCache(c, s) = NoMac
           /\ Knows(c, s) => GetMACFromCache(c, s) \in Macs
<1>1. Entries(c, s) = {k \in 1 .. Len(c) : c[k].ip = s}
  BY DEF Entries, IsCache
<1>2. ~ Knows(c, s) => GetMACFromCache(c, s) = NoMac
  BY <1>1 DEF Knows, GetMACFromCache
<1>3. ASSUME Knows(c, s) PROVE GetMACFromCache(c, s) \in Macs
  <2> PICK i : IsFirst(c, s, i)
    BY <1>3, FirstExists
  <2>1. c[i] \in Cached
    BY ElementOfSeq DEF IsFirst, IsCache
  <2> QED BY <2>1, GetsFirst DEF Cached
<1> QED BY <1>2, <1>3

LEMMA NoMacIsNone == NoMac \notin Macs
BY DEF NoMac, Macs

LEMMA AppendGets ==
    ASSUME NEW c, IsCache(c), Len(c) < CacheSize, NEW e \in Cached
    PROVE  /\ IsCache(Append(c, e)) /\ Len(Append(c, e)) = Len(c) + 1
           /\ \A s : Knows(c, s) =>
                 /\ Knows(Append(c, e), s)
                 /\ GetMACFromCache(Append(c, e), s) = GetMACFromCache(c, s)
           /\ ~ Knows(c, e.ip) => GetMACFromCache(Append(c, e), e.ip) = e.mac
           /\ Knows(Append(c, e), e.ip)
           /\ \A s : s # e.ip /\ ~ Knows(c, s) => ~ Knows(Append(c, e), s)
<1> PICK d : d = Append(c, e)
  OBVIOUS
<1>1. /\ d \in Seq(Cached) /\ Len(d) = Len(c) + 1 /\ Len(c) \in Nat
      /\ \A i \in 1 .. Len(c) : d[i] = c[i]
      /\ d[Len(c) + 1] = e
  BY AppendProperties DEF IsCache
<1>2. IsCache(d)
  BY <1>1, CacheAssumption DEF IsCache
<1>3. ASSUME NEW s, NEW i, IsFirst(c, s, i)
      PROVE  IsFirst(d, s, i) /\ d[i] = c[i]
  BY <1>1, <1>3 DEF IsFirst
<1>4. ASSUME NEW s, Knows(c, s)
      PROVE  Knows(d, s) /\ GetMACFromCache(d, s) = GetMACFromCache(c, s)
  <2> PICK i : IsFirst(c, s, i)
    BY <1>4, FirstExists
  <2>1. IsFirst(d, s, i) /\ d[i] = c[i]
    BY <1>3
  <2>2. GetMACFromCache(d, s) = d[i].mac /\ GetMACFromCache(c, s) = c[i].mac
    BY <1>2, <2>1, GetsFirst
  <2>3. Knows(d, s)
    BY <2>1 DEF Knows, IsFirst
  <2> QED BY <2>1, <2>2, <2>3
<1>5. Knows(d, e.ip)
  BY <1>1 DEF Knows
<1>6. ASSUME ~ Knows(c, e.ip) PROVE GetMACFromCache(d, e.ip) = e.mac
  <2>1. IsFirst(d, e.ip, Len(c) + 1)
    BY <1>1, <1>6 DEF IsFirst, Knows
  <2>2. GetMACFromCache(d, e.ip) = d[Len(c) + 1].mac
    BY <1>2, <2>1, GetsFirst
  <2> QED BY <1>1, <2>2
<1>7. ASSUME NEW s, s # e.ip, ~ Knows(c, s) PROVE ~ Knows(d, s)
  BY <1>1, <1>7 DEF Knows
<1> QED BY <1>1, <1>2, <1>4, <1>5, <1>6, <1>7

(* What an ARP response and a request make of the cache.                   *)
LEMMA ResponseGets ==
    ASSUME NEW c, IsCache(c), NEW ip \in Stations, NEW m \in Macs
    PROVE  LET d == AddResponse(c, ip, m) IN
           /\ IsCache(d) /\ Len(c) <= Len(d)
           /\ Len(c) < CacheSize => Knows(d, ip)
           /\ \A s : Knows(c, s) =>
                 Knows(d, s) /\ GetMACFromCache(d, s) = GetMACFromCache(c, s)
<1>1. Entry(ip, m) \in Cached /\ Entry(ip, m).ip = ip
  BY DEF Entry, Cached
<1>2. Len(c) \in Nat /\ CacheSize \in Nat
  BY CacheAssumption DEF IsCache
<1>3. CASE Len(c) >= CacheSize
  BY <1>2, <1>3 DEF AddResponse
<1>4. CASE Len(c) < CacheSize
  BY <1>1, <1>2, <1>4, AppendGets DEF AddResponse
<1> QED BY <1>2, <1>3, <1>4

LEMMA RenewGets ==
    ASSUME NEW c, IsCache(c), NEW ip \in Stations, NEW m \in Macs, Knows(c, ip),
           NEW d, d = [i \in DOMAIN c |->
                         IF c[i].ip = ip THEN Entry(ip, m) ELSE c[i]]
    PROVE  /\ IsCache(d) /\ Len(d) = Len(c)
           /\ GetMACFromCache(d, ip) = m
           /\ \A s : Knows(c, s) => Knows(d, s)
           /\ \A s : s # ip => GetMACFromCache(d, s) = GetMACFromCache(c, s)
<1>1. Entry(ip, m) \in Cached /\ Entry(ip, m).ip = ip /\ Entry(ip, m).mac = m
  BY DEF Entry, Cached
<1>2. /\ d \in Seq(Cached) /\ Len(d) = Len(c) /\ Len(c) \in Nat
      /\ \A i \in 1 .. Len(c) :
            /\ d[i].ip = c[i].ip
            /\ c[i].ip # ip => d[i] = c[i]
            /\ c[i].ip = ip => d[i].mac = m
  <2>1. Len(c) \in Nat /\ c \in [1 .. Len(c) -> Cached] /\ DOMAIN c = 1 .. Len(c)
    BY LenProperties DEF IsCache
  <2>2. d \in [1 .. Len(c) -> Cached]
    BY <1>1, <2>1
  <2>3. d \in Seq(Cached) /\ Len(d) = Len(c)
    BY <2>1, <2>2, IsASeq, LenProperties
  <2> QED BY <1>1, <2>1, <2>3
<1>3. IsCache(d)
  BY <1>2 DEF IsCache
<1>4. ASSUME NEW s, NEW i, IsFirst(c, s, i) PROVE IsFirst(d, s, i)
  <2>1. i \in 1 .. Len(d) /\ \A j \in 1 .. i - 1 : j \in 1 .. Len(c)
    BY <1>2, <1>4 DEF IsFirst
  <2> QED BY <1>2, <1>4, <2>1 DEF IsFirst
<1>5. \A s : Knows(c, s) <=> Knows(d, s)
  BY <1>2 DEF Knows
<1>6. GetMACFromCache(d, ip) = m
  <2> PICK i : IsFirst(c, ip, i)
    BY FirstExists
  <2>1. IsFirst(d, ip, i)
    BY <1>4
  <2>2. GetMACFromCache(d, ip) = d[i].mac
    BY <1>3, <2>1, GetsFirst
  <2> QED BY <1>2, <2>2 DEF IsFirst
<1>7. ASSUME NEW s, s # ip PROVE GetMACFromCache(d, s) = GetMACFromCache(c, s)
  <2>1. CASE Knows(c, s)
    <3> PICK i : IsFirst(c, s, i)
      BY <2>1, FirstExists
    <3>1. d[i] = c[i]
      BY <1>2, <1>7 DEF IsFirst
    <3>2. IsFirst(d, s, i)
      BY <1>4
    <3> QED BY <1>3, <3>1, <3>2, GetsFirst
  <2>2. CASE ~ Knows(c, s)
    BY <1>3, <1>5, <2>2, GetsNothing
  <2> QED BY <2>1, <2>2
<1> QED BY <1>2, <1>3, <1>5, <1>6, <1>7

LEMMA RequestGets ==
    ASSUME NEW c, IsCache(c), NEW ip \in Stations, NEW m \in Macs
    PROVE  LET d == AddMacAddress(c, ip, m) IN
           /\ IsCache(d) /\ Len(c) <= Len(d)
           /\ Len(c) < CacheSize => Knows(d, ip) /\ GetMACFromCache(d, ip) = m
           /\ \A s : Knows(c, s) => Knows(d, s)
           /\ \A s : s # ip /\ Knows(c, s) =>
                 GetMACFromCache(d, s) = GetMACFromCache(c, s)
<1>1. /\ Entry(ip, m) \in Cached
      /\ Entry(ip, m).ip = ip /\ Entry(ip, m).mac = m
  BY DEF Entry, Cached
<1>2. Len(c) \in Nat /\ CacheSize \in Nat
  BY CacheAssumption DEF IsCache
<1>3. CASE Len(c) >= CacheSize
  BY <1>2, <1>3 DEF AddMacAddress
<1>4. Entries(c, ip) = {} <=> ~ Knows(c, ip)
  <2>1. Entries(c, ip) = {k \in 1 .. Len(c) : c[k].ip = ip}
    BY DEF Entries, IsCache
  <2> QED BY <2>1 DEF Knows
<1>5. CASE Len(c) < CacheSize /\ ~ Knows(c, ip)
  <2>1. AddMacAddress(c, ip, m) = Append(c, Entry(ip, m))
    BY <1>2, <1>4, <1>5 DEF AddMacAddress
  <2> QED BY <1>1, <1>2, <1>5, <2>1, AppendGets
<1>6. CASE Len(c) < CacheSize /\ Knows(c, ip)
  <2> PICK d : d = AddMacAddress(c, ip, m)
    OBVIOUS
  <2>1. d = [i \in DOMAIN c |-> IF c[i].ip = ip THEN Entry(ip, m) ELSE c[i]]
    BY <1>2, <1>4, <1>6 DEF AddMacAddress
  <2>2. /\ IsCache(d) /\ Len(d) = Len(c)
        /\ GetMACFromCache(d, ip) = m
        /\ \A s : Knows(c, s) => Knows(d, s)
        /\ \A s : s # ip => GetMACFromCache(d, s) = GetMACFromCache(c, s)
    BY ONLY <1>6, <2>1, RenewGets, IsCache(c), ip \in Stations, m \in Macs
  <2> QED BY <1>2, <1>6, <2>2
<1> QED BY <1>2, <1>3, <1>5, <1>6

-----------------------------------------------------------------------------
(* What the variables hold                                                 *)

Coming == [kind : {"request", "stray", "segment", "ping", "response"},
           from : Stations, host : Stations \cup Remote, mac : Macs]

Going == [kind : {"nothing", "torn", "request", "reply", "segment", "pong"},
          to : Stations]

Places == {"start", "take", "load", "store", "copy", "copying", "copied",
           "wait", "done"}

Holds ==
    /\ IsCache(cache)
    /\ recv \in Seq(Coming) /\ Len(recv) <= RecvBuffers /\ rint \in BOOLEAN
    /\ \A i \in 1 .. Len(recv) :
          recv[i].kind = "segment" => recv[i].from = Route(recv[i].host)
    /\ handler \in {"idle", "receiving", "waiting", "acknowledging"}
    /\ ring \in [Slots -> [own : BOOLEAN, frame : Going]]
    /\ current \in Slots /\ card \in Slots
    /\ main \in [at : Places, host : Stations \cup Remote, frame : Going,
                 slot : Slots, load : Slots]
    /\ main.frame.kind # "reply"
    /\ mac \in [Stations -> Macs] /\ asked \in [Stations -> Macs \cup {NoMac}]
    /\ knows \subseteq Stations /\ missed \subseteq Stations

LEMMA RouteIsStation == \A host \in Stations \cup Remote : Route(host) \in Stations
BY NetworkAssumption DEF Route

LEMMA NextSlot == \A d \in Slots : (d + 1) % SendBuffers \in Slots
BY NetworkAssumption DEF Slots

LEMMA OutgoingIsGoing ==
    ASSUME NEW kind \in {"nothing", "torn", "request", "reply", "segment", "pong"},
           NEW to \in Stations
    PROVE  /\ Outgoing(kind, to) \in Going
           /\ Outgoing(kind, to).kind = kind /\ Outgoing(kind, to).to = to
BY DEF Outgoing, Going

LEMMA HoldsInit == Init => Holds
<1> SUFFICES ASSUME Init PROVE Holds
  OBVIOUS
<1>1. Gateway \in Stations /\ 0 \in Slots
  BY NetworkAssumption DEF Slots
<1>2. Nothing \in Going /\ Nothing.kind = "nothing"
  BY <1>1, OutgoingIsGoing DEF Nothing
<1>3. ring \in [Slots -> [own : BOOLEAN, frame : Going]]
  BY <1>2 DEF Init
<1>4. main \in [at : Places, host : Stations \cup Remote, frame : Going,
                slot : Slots, load : Slots] /\ main.frame.kind # "reply"
  BY <1>1, <1>2 DEF Init, Places
<1>5. IsCache(cache) /\ recv \in Seq(Coming) /\ Len(recv) = 0
  BY CacheAssumption DEF Init, IsCache
<1>6. mac \in [Stations -> Macs] /\ asked \in [Stations -> Macs \cup {NoMac}]
  BY DEF Init, Macs
<1>7. /\ rint \in BOOLEAN /\ handler = "idle" /\ current \in Slots /\ card \in Slots
      /\ knows = {} /\ missed = {}
  BY <1>1 DEF Init
<1>8. Len(recv) <= RecvBuffers /\ 1 .. Len(recv) = {}
  BY <1>5, NetworkAssumption
<1> QED BY <1>3, <1>4, <1>5, <1>6, <1>7, <1>8 DEF Holds

(* A frame arrives, or does not.                                           *)
LEMMA ArrivesHolds ==
    ASSUME Holds, NEW f \in Coming, f.kind = "segment" => f.from = Route(f.host),
           Arrives(f)
    PROVE  /\ recv' \in Seq(Coming) /\ Len(recv') <= RecvBuffers /\ rint' \in BOOLEAN
           /\ \A i \in 1 .. Len(recv') :
                 recv'[i].kind = "segment" => recv'[i].from = Route(recv'[i].host)
           /\ missed' \subseteq Stations /\ missed \subseteq missed'
           /\ \/ /\ Len(recv') = Len(recv) + 1
                 /\ \A i \in 1 .. Len(recv) : recv'[i] = recv[i]
                 /\ recv'[Len(recv) + 1] = f
              \/ /\ recv' = recv
                 /\ f.kind = "response" => missed' # {}
<1>0. recv \in Seq(Coming) /\ Len(recv) \in Nat /\ RecvBuffers \in Nat
      /\ f.from \in Stations
  BY NetworkAssumption DEF Holds, Coming
<1>1. CASE Len(recv) < RecvBuffers
  <2>1. recv' = Append(recv, f) /\ rint' = TRUE /\ missed' = missed
    BY <1>1 DEF Arrives
  <2>2. /\ recv' \in Seq(Coming) /\ Len(recv') = Len(recv) + 1
        /\ \A i \in 1 .. Len(recv) : recv'[i] = recv[i]
        /\ recv'[Len(recv) + 1] = f
    BY <1>0, <2>1, AppendProperties
  <2>3. ASSUME NEW i \in 1 .. Len(recv')
        PROVE  recv'[i].kind = "segment" => recv'[i].from = Route(recv'[i].host)
    <3>1. i \in 1 .. Len(recv) \/ i = Len(recv) + 1
      BY <1>0, <2>2
    <3> QED BY <2>2, <3>1 DEF Holds
  <2> QED BY <1>0, <1>1, <2>1, <2>2, <2>3 DEF Holds
<1>2. CASE ~ (Len(recv) < RecvBuffers)
  BY <1>0, <1>2 DEF Arrives, Holds
<1> QED BY <1>1, <1>2

LEMMA SpeaksHolds ==
    ASSUME Holds, NEW f \in Coming, f.kind = "segment" => f.from = Route(f.host),
           Speaks(f)
    PROVE  Holds'
<1>1. Arrives(f) /\ UNCHANGED <<kernel, ring, card, mac, knows, asked>>
  BY DEF Speaks
<1> QED BY <1>1, ArrivesHolds DEF Holds, kernel

(* All the stations send.                                                  *)
LEMMA StationsSpeak ==
    ASSUME Holds,
           \/ \E s \in Stations : Asks(s)
           \/ \E host \in Stations \cup Remote : Talks(host)
    PROVE  \E f \in Coming :
              /\ Speaks(f) /\ f.kind # "response"
              /\ f.kind = "segment" => f.from = Route(f.host) /\ f.from \in knows
<1>1. ASSUME NEW s \in Stations, Asks(s)
      PROVE  \E f \in Coming : Speaks(f) /\ f.kind \in {"request", "stray"}
  <2>1. \A kind \in {"request", "stray"} :
           /\ Incoming(kind, s, s, mac[s]) \in Coming
           /\ Incoming(kind, s, s, mac[s]).kind = kind
    BY DEF Incoming, Coming, Holds
  <2> QED BY <1>1, <2>1 DEF Asks
<1>2. ASSUME NEW host \in Stations \cup Remote, Talks(host)
      PROVE  \E f \in Coming :
                /\ Speaks(f) /\ f.kind \in {"segment", "ping"}
                /\ f.from = Route(f.host) /\ f.from \in knows
  <2>1. Route(host) \in Stations
    BY RouteIsStation
  <2>2. \A kind \in {"segment", "ping"} :
           /\ Incoming(kind, Route(host), host, mac[Route(host)]) \in Coming
           /\ Incoming(kind, Route(host), host, mac[Route(host)]).kind = kind
           /\ Incoming(kind, Route(host), host, mac[Route(host)]).from = Route(host)
           /\ Incoming(kind, Route(host), host, mac[Route(host)]).host = host
    BY <2>1 DEF Incoming, Coming, Holds
  <2>3. /\ Route(host) \in knows
        /\ \E kind \in {"segment", "ping"} :
              Speaks(Incoming(kind, Route(host), host, mac[Route(host)]))
    BY <1>2 DEF Talks, Route
  <2> QED BY <2>2, <2>3
<1> QED BY <1>1, <1>2

LEMMA TransmitsHolds ==
    ASSUME Holds, Transmits
    PROVE  /\ Holds'
           /\ UNCHANGED <<kernel, mac, asked, raced, overrun>>
           /\ ring[card].own
           /\ ring' = [ring EXCEPT ![card] = [own |-> FALSE, frame |-> Nothing]]
           /\ card' = (card + 1) % SendBuffers
<1> PICK f : f = ring[card].frame
  OBVIOUS
<1>0. f \in Going /\ Nothing \in Going /\ Gateway \in Stations
  BY OutgoingIsGoing, NetworkAssumption DEF Holds, Nothing
<1>1. /\ ring[card].own
      /\ ring' = [ring EXCEPT ![card] = [own |-> FALSE, frame |-> Nothing]]
      /\ card' = (card + 1) % SendBuffers
      /\ knows' \in {knows \cup {f.to}, knows}
      /\ UNCHANGED <<kernel, mac, asked, raced, overrun>>
  BY DEF Transmits
<1>2. \/ Arrives(Incoming("response", f.to, f.to, mac[f.to]))
      \/ missed' = missed \cup {f.to} /\ UNCHANGED <<recv, rint>>
      \/ UNCHANGED <<recv, rint, missed>>
  BY DEF Transmits
<1>3. f.to \in Stations
  BY <1>0 DEF Going
<1>4. /\ recv' \in Seq(Coming) /\ Len(recv') <= RecvBuffers /\ rint' \in BOOLEAN
      /\ \A i \in 1 .. Len(recv') :
            recv'[i].kind = "segment" => recv'[i].from = Route(recv'[i].host)
      /\ missed' \subseteq Stations
  <2>1. CASE Arrives(Incoming("response", f.to, f.to, mac[f.to]))
    <3> PICK a : a = Incoming("response", f.to, f.to, mac[f.to])
      OBVIOUS
    <3>1. a \in Coming /\ a.kind = "response"
      BY <1>3 DEF Incoming, Coming, Holds
    <3> QED BY <2>1, <3>1, ArrivesHolds
  <2>2. CASE ~ Arrives(Incoming("response", f.to, f.to, mac[f.to]))
    BY <1>2, <1>3, <2>2 DEF Holds
  <2> QED BY <2>1, <2>2
<1>5. ring' \in [Slots -> [own : BOOLEAN, frame : Going]] /\ card' \in Slots
  BY <1>0, <1>1, NextSlot DEF Holds
<1>6. knows' \subseteq Stations
  BY <1>1, <1>3 DEF Holds
<1>7. Holds'
  BY <1>1, <1>4, <1>5, <1>6 DEF Holds, kernel
<1> QED BY <1>1, <1>7

(* A handler's frame takes the next descriptor.                            *)
LEMMA HandlerSendHolds ==
    ASSUME Holds, NEW f \in Going, HandlerSend(f)
    PROVE  /\ ring' \in [Slots -> [own : BOOLEAN, frame : Going]]
           /\ current' \in Slots
BY NextSlot DEF Holds, HandlerSend

LEMMA ReceivesHolds ==
    ASSUME Holds, Receives
    PROVE  Holds'
<1> PICK f : f = Head(recv)
  OBVIOUS
<1>1. recv # <<>> /\ f = recv[1] /\ Len(recv) \in Nat \ {0}
      /\ f \in Coming /\ f.from \in Stations /\ f.mac \in Macs
      /\ f.host \in Stations \cup Remote
  <2>1. recv # <<>> /\ recv \in Seq(Coming)
    BY DEF Receives, Holds
  <2>2. f = recv[1] /\ Len(recv) \in Nat \ {0} /\ f \in Coming
    BY <2>1, HeadTailProperties, EmptySeq
  <2> QED BY <2>1, <2>2 DEF Coming
<1>2. recv' \in {recv, Tail(recv)} /\ OnRawDataReceived(f)
      /\ UNCHANGED <<main, rint, card, mac, knows, missed>>
  BY DEF Receives, outside
<1>3. /\ recv' \in Seq(Coming) /\ Len(recv') <= RecvBuffers
      /\ \A i \in 1 .. Len(recv') :
            recv'[i].kind = "segment" => recv'[i].from = Route(recv'[i].host)
  <2>1. CASE recv' = recv
    BY <2>1 DEF Holds
  <2>2. CASE recv' = Tail(recv)
    <3>1. /\ recv' \in Seq(Coming) /\ Len(recv') = Len(recv) - 1
          /\ \A i \in 1 .. Len(recv') : recv'[i] = recv[i + 1]
      BY <1>1, <2>2, HeadTailProperties DEF Holds
    <3> QED BY <1>1, <3>1, NetworkAssumption DEF Holds
  <2> QED BY <1>2, <2>1, <2>2
<1>4. IsCache(cache')
  <2>1. \/ cache' = cache
        \/ cache' = AddMacAddress(cache, f.from, f.mac)
        \/ cache' = AddResponse(cache, f.from, f.mac)
    BY <1>2 DEF OnRawDataReceived, OnRequest, OnResponse, OnPing, OnSegment, OnStray,
                OnInternetProtocolReceived
  <2>2. IsCache(cache)
    BY DEF Holds
  <2>3. /\ IsCache(AddMacAddress(cache, f.from, f.mac))
        /\ IsCache(AddResponse(cache, f.from, f.mac))
    BY <1>1, <2>2, RequestGets, ResponseGets
  <2> QED BY <2>1, <2>2, <2>3
<1>5. handler' \in {handler, "waiting"}
  BY <1>2 DEF OnRawDataReceived, OnRequest, OnResponse, OnPing, OnSegment, OnStray,
              OnInternetProtocolReceived
<1>6. asked' \in [Stations -> Macs \cup {NoMac}]
  BY <1>1, <1>2 DEF OnRawDataReceived, OnRequest, OnResponse, OnPing, OnSegment,
                    OnStray, OnInternetProtocolReceived, Holds
<1>7. SendsNothing \/ \E g \in Going : HandlerSend(g)
  <2>1. Route(f.host) \in Stations
    BY <1>1, RouteIsStation
  <2> QED BY <1>1, <1>2, <2>1, OutgoingIsGoing
             DEF OnRawDataReceived, OnRequest, OnResponse, OnPing, OnSegment, OnStray,
                 OnInternetProtocolReceived, Request
<1>8. ring' \in [Slots -> [own : BOOLEAN, frame : Going]] /\ current' \in Slots
  BY <1>7, HandlerSendHolds DEF SendsNothing, Holds
<1> QED BY <1>2, <1>3, <1>4, <1>5, <1>6, <1>8 DEF Holds

(* What the main loop does to the ring and to its locals.                  *)
LEMMA MainHolds ==
    ASSUME Holds, Main \/ \E host \in Stations \cup Remote : Connects(host)
    PROVE  Holds'
<1>0. main \in [at : Places, host : Stations \cup Remote, frame : Going,
                slot : Slots, load : Slots] /\ main.frame.kind # "reply"
  BY DEF Holds
<1>1. UNCHANGED <<cache, handler, recv, rint, card, outside, asked, missed>>
  BY DEF Main, MainTakes, MainLoads, MainStores, MainCopies, MainCopied, MainGives,
         MainResolves, Connects, MainGoes
<1>2. ASSUME /\ main' \in [at : Places, host : Stations \cup Remote, frame : Going,
                           slot : Slots, load : Slots]
             /\ main'.frame.kind # "reply"
             /\ ring' \in [Slots -> [own : BOOLEAN, frame : Going]]
             /\ current' \in Slots
      PROVE  Holds'
  BY <1>1, <1>2 DEF Holds, outside
<1>3. ASSUME NEW host \in Stations \cup Remote, Connects(host) PROVE Holds'
  <2>1. Route(host) \in Stations
    BY RouteIsStation
  <2> PICK g : /\ g \in {Outgoing("segment", Route(host)), Request(Route(host))}
               /\ main' = [main EXCEPT !.at = "take", !.host = host, !.frame = g]
    BY <1>3 DEF Connects, MainGoes
  <2>2. g \in Going /\ g.kind # "reply"
    BY <2>1, OutgoingIsGoing DEF Request
  <2>3. Quiet
    BY <1>3 DEF Connects
  <2> QED BY <1>0, <1>2, <2>2, <2>3 DEF Places, Quiet, Holds
<1>4. CASE MainTakes \/ MainLoads
  BY <1>0, <1>2, <1>4 DEF MainTakes, MainLoads, MainGoes, Quiet, Holds, Places
<1>5. CASE MainStores
  BY <1>0, <1>2, <1>5, NextSlot DEF MainStores, MainGoes, Holds, Places
<1>6. CASE MainCopies \/ MainCopied
  <2>1. Torn \in Going
    BY OutgoingIsGoing, NetworkAssumption DEF Torn
  <2>2. /\ \E place \in Places : main' = [main EXCEPT !.at = place]
        /\ \E g \in Going : ring' = [ring EXCEPT ![main.slot].frame = g]
        /\ current' = current
    BY <1>0, <1>6, <2>1 DEF MainCopies, MainCopied, MainGoes, Places
  <2>3. ring' \in [Slots -> [own : BOOLEAN, frame : Going]]
    <3>1. PICK g \in Going : ring' = [ring EXCEPT ![main.slot].frame = g]
      BY <2>2
    <3>2. main.slot \in Slots /\ ring \in [Slots -> [own : BOOLEAN, frame : Going]]
      BY <1>0 DEF Holds
    <3>3. [ring[main.slot] EXCEPT !.frame = g] \in [own : BOOLEAN, frame : Going]
      BY <3>2
    <3> QED BY <3>1, <3>2, <3>3
  <2>4. /\ main' \in [at : Places, host : Stations \cup Remote, frame : Going,
                      slot : Slots, load : Slots]
        /\ main'.frame.kind # "reply"
    BY <1>0, <2>2
  <2>5. current' \in Slots
    BY <2>2 DEF Holds
  <2> QED BY <1>2, <2>3, <2>4, <2>5
<1>7. CASE MainGives
  <2>1. /\ \E place \in Places :
              main' = [main EXCEPT !.at = place, !.slot = 0, !.load = 0]
        /\ ring' = [ring EXCEPT ![main.slot].own = TRUE]
        /\ current' = current
    BY <1>7 DEF MainGives, MainGoes, Places
  <2>2. 0 \in Slots
    BY NetworkAssumption DEF Slots
  <2> QED BY <1>0, <1>2, <2>1, <2>2 DEF Holds
<1>8. CASE MainResolves
  <2> PICK g : g = Outgoing("segment", Route(main.host))
    OBVIOUS
  <2>1. g \in Going /\ g.kind # "reply"
    BY <1>0, RouteIsStation, OutgoingIsGoing
  <2>2. main' = [main EXCEPT !.at = "take", !.frame = g] /\ Quiet
    BY <1>8 DEF MainResolves, MainGoes
  <2> QED BY <1>0, <1>2, <2>1, <2>2 DEF Places, Quiet, Holds
<1> QED BY <1>3, <1>4, <1>5, <1>6, <1>7, <1>8 DEF Main

LEMMA HoldsStep ==
    ASSUME Holds, [Next]_vars
    PROVE  Holds'
<1>1. CASE UNCHANGED vars
  BY <1>1 DEF vars, Holds, kernel, outside, history
<1>2. ASSUME NEW s \in Stations, Replaces(s) PROVE Holds'
  <2>1. mac' \in [Stations -> Macs] /\ knows' \subseteq Stations
    BY <1>2 DEF Replaces, Holds, Macs
  <2> QED BY <1>2, <2>1 DEF Replaces, Holds, kernel, history
<1>3. CASE Interrupt \/ FoundEmpty \/ Acknowledge
  BY <1>3 DEF Interrupt, FoundEmpty, Acknowledge, Holds, outside, history
<1> QED
  BY <1>1, <1>2, <1>3, StationsSpeak, SpeaksHolds, TransmitsHolds, ReceivesHolds,
     MainHolds DEF Next, Handler

-----------------------------------------------------------------------------
(* The last request counts                                                 *)

(* What a step makes of the cache and of what was asked.                   *)
LEMMA CacheSteps ==
    ASSUME Holds, [Next]_vars
    PROVE  \/ cache' = cache /\ asked' = asked
           \/ \E s \in Stations, m \in Macs :
                 /\ cache' = AddMacAddress(cache, s, m)
                 /\ asked' = [asked EXCEPT ![s] = m]
           \/ \E s \in Stations, m \in Macs :
                 cache' = AddResponse(cache, s, m) /\ asked' = asked
<1>1. CASE Receives
  <2> PICK f : f = Head(recv)
    OBVIOUS
  <2>1. f.from \in Stations /\ f.mac \in Macs
    <3>1. recv # <<>> /\ recv \in Seq(Coming)
      BY <1>1 DEF Receives, Holds
    <3>2. f \in Coming
      BY <3>1, HeadTailProperties
    <3> QED BY <3>2 DEF Coming
  <2>2. OnRawDataReceived(f)
    BY <1>1 DEF Receives
  <2> QED BY <2>1, <2>2 DEF OnRawDataReceived, OnRequest, OnResponse, OnPing,
             OnSegment, OnStray, OnInternetProtocolReceived
<1>2. CASE \/ \E s \in Stations : Asks(s)
           \/ \E host \in Stations \cup Remote : Talks(host)
  <2>1. PICK f : Speaks(f)
    BY <1>2, StationsSpeak
  <2> QED BY <2>1 DEF Speaks, kernel
<1>3. CASE Transmits
  BY <1>3 DEF Transmits, kernel
<1>4. CASE \/ UNCHANGED vars
           \/ \E s \in Stations : Replaces(s)
           \/ Interrupt \/ FoundEmpty \/ Acknowledge
  BY <1>4 DEF vars, kernel, history, Replaces, Interrupt, FoundEmpty, Acknowledge
<1>5. CASE Main \/ \E host \in Stations \cup Remote : Connects(host)
  BY <1>5 DEF Main, MainTakes, MainLoads, MainStores, MainCopies, MainCopied,
              MainGives, MainResolves, Connects, MainGoes
<1> QED BY <1>1, <1>2, <1>3, <1>4, <1>5 DEF Next, Handler

LEMMA LastRequestStep ==
    ASSUME Holds, LastRequestCounts, [Next]_vars
    PROVE  LastRequestCounts'
<1> SUFFICES ASSUME NEW s \in Stations, asked'[s] # NoMac, Len(cache') # CacheSize
             PROVE  GetMACFromCache(cache', s) = asked'[s]
  BY DEF LastRequestCounts, CacheFull
<1>1. IsCache(cache) /\ IsCache(cache') /\ asked \in [Stations -> Macs \cup {NoMac}]
  BY HoldsStep DEF Holds
<1>2. Len(cache) \in Nat /\ Len(cache') \in Nat /\ CacheSize \in Nat
      /\ Len(cache) <= CacheSize /\ Len(cache') < CacheSize
  BY <1>1, CacheAssumption DEF IsCache
<1>3. ASSUME asked[s] # NoMac, Len(cache) # CacheSize
      PROVE  Knows(cache, s) /\ GetMACFromCache(cache, s) = asked[s]
  <2>1. GetMACFromCache(cache, s) = asked[s]
    BY <1>3 DEF LastRequestCounts, CacheFull
  <2> QED BY <1>1, <1>3, <2>1, GetsNothing
<1>4. CASE cache' = cache /\ asked' = asked
  BY <1>3, <1>4
<1>5. ASSUME NEW ip \in Stations, NEW m \in Macs,
             cache' = AddMacAddress(cache, ip, m), asked' = [asked EXCEPT ![ip] = m]
      PROVE  GetMACFromCache(cache', s) = asked'[s]
  <2>1. /\ Len(cache) <= Len(cache')
        /\ Len(cache) < CacheSize => GetMACFromCache(cache', ip) = m
        /\ s # ip /\ Knows(cache, s) =>
              GetMACFromCache(cache', s) = GetMACFromCache(cache, s)
    BY <1>1, <1>5, RequestGets
  <2>2. Len(cache) < CacheSize
    BY <1>2, <2>1
  <2>3. CASE s = ip
    BY <1>1, <1>5, <2>1, <2>2, <2>3
  <2>4. CASE s # ip
    <3>1. asked'[s] = asked[s]
      BY <1>1, <1>5, <2>4
    <3> QED BY <1>2, <1>3, <2>1, <2>2, <2>4, <3>1
  <2> QED BY <2>3, <2>4
<1>6. ASSUME NEW ip \in Stations, NEW m \in Macs,
             cache' = AddResponse(cache, ip, m), asked' = asked
      PROVE  GetMACFromCache(cache', s) = asked'[s]
  <2>1. /\ Len(cache) <= Len(cache')
        /\ Knows(cache, s) => GetMACFromCache(cache', s) = GetMACFromCache(cache, s)
    BY <1>1, <1>6, ResponseGets
  <2>2. Len(cache) < CacheSize
    BY <1>2, <2>1
  <2> QED BY <1>2, <1>3, <1>6, <2>1, <2>2
<1> QED BY <1>4, <1>5, <1>6, CacheSteps

LEMMA HoldsAlways == Spec => []Holds
<1>1. Holds /\ [Next]_vars => Holds'
  BY HoldsStep
<1> QED BY <1>1, HoldsInit, PTL DEF Spec

(* A station whose address the cache has is reached at the one it gave     *)
(* last.                                                                   *)
THEOREM LastRequestWins == Spec => []LastRequestCounts
<1>1. Init => LastRequestCounts
  BY DEF Init, LastRequestCounts
<1>2. Holds /\ LastRequestCounts /\ [Next]_vars => LastRequestCounts'
  BY LastRequestStep
<1> QED BY <1>1, <1>2, HoldsAlways, PTL DEF Spec

-----------------------------------------------------------------------------
(* The kernel hangs only where something was lost                          *)

ResponseBefore(q, s, i) ==
    \E j \in 1 .. i - 1 : q[j].kind = "response" /\ q[j].from = s

(* Whoever knows this host was remembered when it asked, or its own answer *)
(* is still in the receive ring, in front of what it sends.                *)
Met ==
    /\ handler # "waiting"
    /\ \A d \in Slots :
          ring[d].frame.kind = "reply" => Knows(cache, ring[d].frame.to)
    /\ \A s \in knows : Knows(cache, s) \/ ResponseBefore(recv, s, Len(recv) + 1)
    /\ \A i \in 1 .. Len(recv) :
          recv[i].kind = "segment" =>
              \/ Knows(cache, recv[i].from)
              \/ ResponseBefore(recv, recv[i].from, i)

MetOrLost == CacheFull \/ missed # {} \/ Met

LEMMA ResponseStays ==
    ASSUME NEW q, Len(q) \in Nat, NEW u, NEW s, NEW i \in 1 .. Len(q) + 1,
           NEW k \in Nat, i <= k, \A j \in 1 .. Len(q) : u[j] = q[j],
           ResponseBefore(q, s, i)
    PROVE  ResponseBefore(u, s, k)
BY DEF ResponseBefore

(* What was lost stays so, and a full cache stays full.                    *)
LEMMA LossStays ==
    ASSUME Holds, [Next]_vars
    PROVE  /\ missed \subseteq missed' /\ (CacheFull => CacheFull')
           /\ \A s : Knows(cache, s) => Knows(cache', s)
<1>1. IsCache(cache) /\ IsCache(cache') /\ CacheSize \in Nat
  BY HoldsStep, CacheAssumption DEF Holds
<1>2. Len(cache) <= Len(cache') /\ \A s : Knows(cache, s) => Knows(cache', s)
  <2>1. CASE cache' = cache
    BY <1>1, <2>1 DEF IsCache
  <2>2. ASSUME NEW ip \in Stations, NEW m \in Macs,
               \/ cache' = AddMacAddress(cache, ip, m)
               \/ cache' = AddResponse(cache, ip, m)
        PROVE  Len(cache) <= Len(cache') /\ \A s : Knows(cache, s) => Knows(cache', s)
    BY <1>1, <2>2, RequestGets, ResponseGets
  <2> QED BY <2>1, <2>2, CacheSteps
<1>3. CacheFull => CacheFull'
  BY <1>1, <1>2 DEF CacheFull, IsCache
<1>4. missed \subseteq missed'
  <2>1. CASE \/ \E s \in Stations : Asks(s)
             \/ \E host \in Stations \cup Remote : Talks(host)
    BY <2>1, StationsSpeak DEF Speaks, Arrives
  <2>2. CASE Transmits
    <3> PICK f : f = ring[card].frame
      OBVIOUS
    <3>1. \/ Arrives(Incoming("response", f.to, f.to, mac[f.to]))
          \/ missed' = missed \cup {f.to}
          \/ UNCHANGED missed
      BY <2>2 DEF Transmits
    <3> QED BY <3>1 DEF Arrives
  <2>3. CASE \/ UNCHANGED vars
             \/ \E s \in Stations : Replaces(s)
             \/ Handler
    BY <2>3 DEF vars, history, Replaces, Handler, Receives, Interrupt, FoundEmpty,
                Acknowledge
  <2>4. CASE Main \/ \E host \in Stations \cup Remote : Connects(host)
    BY <2>4 DEF Main, MainTakes, MainLoads, MainStores, MainCopies, MainCopied,
                MainGives, MainResolves, Connects, MainGoes
  <2> QED BY <2>1, <2>2, <2>3, <2>4 DEF Next
<1> QED BY <1>2, <1>3, <1>4

LEMMA SpeaksMet ==
    ASSUME Holds, Holds', Met, NEW f \in Coming, Speaks(f),
           f.kind = "segment" => f.from = Route(f.host) /\ f.from \in knows
    PROVE  Met'
<1>1. /\ Arrives(f) /\ UNCHANGED <<cache, handler, ring, knows>>
      /\ recv \in Seq(Coming) /\ Len(recv) \in Nat
  BY DEF Speaks, kernel, Holds
<1>2. CASE recv' = recv
  BY <1>1, <1>2 DEF Met
<1>3. CASE /\ Len(recv') = Len(recv) + 1
           /\ \A i \in 1 .. Len(recv) : recv'[i] = recv[i]
           /\ recv'[Len(recv) + 1] = f
  <2> PICK q, u : q = recv /\ u = recv'
    OBVIOUS
  <2>1. /\ Len(q) \in Nat /\ Len(u) = Len(q) + 1 /\ u[Len(q) + 1] = f
        /\ \A i \in 1 .. Len(q) : u[i] = q[i]
    BY <1>1, <1>3
  <2>2. \A s : ResponseBefore(q, s, Len(q) + 1) => ResponseBefore(u, s, Len(q) + 2)
    BY <2>1, ResponseStays
  <2>3. \A s \in knows : Knows(cache, s) \/ ResponseBefore(u, s, Len(u) + 1)
    BY <2>1, <2>2 DEF Met
  <2>4. ASSUME NEW i \in 1 .. Len(u), u[i].kind = "segment"
        PROVE  Knows(cache, u[i].from) \/ ResponseBefore(u, u[i].from, i)
    <3>1. CASE i \in 1 .. Len(q)
      <4>1. Knows(cache, q[i].from) \/ ResponseBefore(q, q[i].from, i)
        BY <2>1, <2>4, <3>1 DEF Met
      <4>2. ResponseBefore(q, q[i].from, i) => ResponseBefore(u, q[i].from, i)
        BY <2>1, <3>1, ResponseStays
      <4> QED BY <2>1, <3>1, <4>1, <4>2
    <3>2. CASE i = Len(q) + 1
      <4>1. Knows(cache, f.from) \/ ResponseBefore(q, f.from, Len(q) + 1)
        BY <2>1, <2>4, <3>2 DEF Met
      <4>2. ResponseBefore(q, f.from, Len(q) + 1)
               => ResponseBefore(u, f.from, Len(q) + 1)
        BY <2>1, ResponseStays
      <4> QED BY <2>1, <3>2, <4>1, <4>2
    <3> QED BY <2>1, <3>1, <3>2
  <2> QED BY <1>1, <2>3, <2>4 DEF Met
<1> QED BY <1>1, <1>2, <1>3, ArrivesHolds

LEMMA TransmitsMet ==
    ASSUME Holds, Met, Transmits, missed' = {}
    PROVE  Met'
<1> PICK f : f = ring[card].frame
  OBVIOUS
<1> PICK a : a = Incoming("response", f.to, f.to, mac[f.to])
  OBVIOUS
<1>1. /\ ring' = [ring EXCEPT ![card] = [own |-> FALSE, frame |-> Nothing]]
      /\ UNCHANGED <<cache, handler>>
      /\ knows' = IF f.kind \in {"request", "reply"} THEN knows \cup {f.to} ELSE knows
      /\ IF f.kind = "request" /\ f.to \in Stations
         THEN \/ Arrives(Incoming("response", f.to, f.to, mac[f.to]))
              \/ missed' = missed \cup {f.to} /\ UNCHANGED <<recv, rint>>
         ELSE UNCHANGED <<recv, rint, missed>>
  BY DEF Transmits, kernel
<1>2. /\ f.to \in Stations /\ card \in Slots /\ f \in Going
      /\ ring \in [Slots -> [own : BOOLEAN, frame : Going]]
      /\ recv \in Seq(Coming) /\ Len(recv) \in Nat
  BY DEF Holds, Going
<1>3. \A d \in Slots :
         ring'[d].frame.kind = "reply" => Knows(cache, ring'[d].frame.to)
  <2>1. Nothing.kind = "nothing"
    BY DEF Nothing, Outgoing
  <2> QED BY <1>1, <1>2, <2>1 DEF Met
<1>4. CASE f.kind = "request"
  <2>1. Arrives(a)
    BY <1>1, <1>2, <1>4
  <2>2. a \in Coming /\ a.kind = "response" /\ a.from = f.to
    BY <1>2 DEF Incoming, Coming, Holds
  <2>3. /\ Len(recv') = Len(recv) + 1
        /\ \A i \in 1 .. Len(recv) : recv'[i] = recv[i]
        /\ recv'[Len(recv) + 1] = a
    BY <2>1, <2>2, ArrivesHolds
  <2> PICK q, u : q = recv /\ u = recv'
    OBVIOUS
  <2>4. /\ Len(q) \in Nat /\ Len(u) = Len(q) + 1 /\ u[Len(q) + 1] = a
        /\ \A i \in 1 .. Len(q) : u[i] = q[i]
    BY <1>2, <2>3
  <2>5. \A s : ResponseBefore(q, s, Len(q) + 1) => ResponseBefore(u, s, Len(q) + 2)
    BY <2>4, ResponseStays
  <2>6. ResponseBefore(u, f.to, Len(u) + 1)
    BY <2>2, <2>4 DEF ResponseBefore
  <2>7. \A s \in knows' : Knows(cache, s) \/ ResponseBefore(u, s, Len(u) + 1)
    BY <1>1, <2>4, <2>5, <2>6 DEF Met
  <2>8. ASSUME NEW i \in 1 .. Len(u), u[i].kind = "segment"
        PROVE  Knows(cache, u[i].from) \/ ResponseBefore(u, u[i].from, i)
    <3>1. i \in 1 .. Len(q) /\ u[i] = q[i]
      BY <2>2, <2>4, <2>8
    <3>2. Knows(cache, q[i].from) \/ ResponseBefore(q, q[i].from, i)
      BY <2>8, <3>1 DEF Met
    <3>3. ResponseBefore(q, q[i].from, i) => ResponseBefore(u, q[i].from, i)
      BY <2>4, <3>1, ResponseStays
    <3> QED BY <3>1, <3>2, <3>3
  <2> QED BY <1>1, <1>3, <2>7, <2>8 DEF Met
<1>5. CASE f.kind # "request"
  <2>1. recv' = recv
    BY <1>1, <1>5
  <2>2. \A s \in knows' : s \in knows \/ Knows(cache, s)
    BY <1>1, <1>2, <1>5 DEF Met
  <2> QED BY <1>1, <1>3, <2>1, <2>2 DEF Met
<1> QED BY <1>4, <1>5

LEMMA ReceivesMet ==
    ASSUME Holds, Holds', Met, Receives, ~ CacheFull
    PROVE  Met'
<1> PICK f : f = Head(recv)
  OBVIOUS
<1>1. /\ recv # <<>> /\ recv \in Seq(Coming) /\ f = recv[1]
      /\ Len(recv) \in Nat \ {0} /\ f \in Coming
  <2>1. recv # <<>> /\ recv \in Seq(Coming)
    BY DEF Receives, Holds
  <2> QED BY <2>1, HeadTailProperties, EmptySeq
<1>2. /\ f.from \in Stations /\ f.mac \in Macs /\ f.host \in Stations \cup Remote
      /\ f.kind = "segment" => f.from = Route(f.host)
  <2>1. 1 \in 1 .. Len(recv)
    BY <1>1
  <2>2. f.kind = "segment" => f.from = Route(f.host)
    BY <1>1, <2>1 DEF Holds
  <2> QED BY <1>1, <2>2 DEF Coming
<1>3. /\ OnRawDataReceived(f) /\ UNCHANGED knows
      /\ recv' = IF handler' = "waiting" THEN recv ELSE Tail(recv)
      /\ handler = "receiving"
  BY DEF Receives, outside
<1>4. IsCache(cache) /\ Len(cache) < CacheSize
  BY CacheAssumption DEF Holds, IsCache, CacheFull
<1>5. /\ \A s : Knows(cache, s) => Knows(cache', s)
      /\ f.kind \in {"request", "response"} => Knows(cache', f.from)
  <2>1. /\ f.kind = "request" => cache' = AddMacAddress(cache, f.from, f.mac)
        /\ f.kind = "response" => cache' = AddResponse(cache, f.from, f.mac)
        /\ f.kind \notin {"request", "response"} => cache' = cache
    BY <1>3 DEF OnRawDataReceived, OnRequest, OnResponse, OnPing, OnSegment, OnStray,
                OnInternetProtocolReceived
  <2>2. /\ Knows(AddMacAddress(cache, f.from, f.mac), f.from)
        /\ Knows(AddResponse(cache, f.from, f.mac), f.from)
        /\ \A s : Knows(cache, s) =>
              /\ Knows(AddMacAddress(cache, f.from, f.mac), s)
              /\ Knows(AddResponse(cache, f.from, f.mac), s)
    BY <1>2, <1>4, RequestGets, ResponseGets
  <2> QED BY <2>1, <2>2
<1>6. handler' = "receiving"
  <2>1. ASSUME f.kind = "segment" PROVE GetMACFromCache(cache, Route(f.host)) # NoMac
    <3>1. ~ ResponseBefore(recv, f.from, 1)
      BY DEF ResponseBefore
    <3>2. Knows(cache, f.from)
      BY <1>1, <2>1, <3>1 DEF Met
    <3> QED BY <1>2, <1>4, <2>1, <3>2, GetsNothing, NoMacIsNone
  <2> QED BY <1>3, <2>1 DEF OnRawDataReceived, OnRequest, OnResponse, OnPing, OnSegment,
             OnStray, OnInternetProtocolReceived
<1>7. ASSUME NEW d \in Slots, ring'[d].frame.kind = "reply"
      PROVE  Knows(cache', ring'[d].frame.to)
  <2>1. \/ ring' = ring
        \/ f.kind = "request" /\ HandlerSend(Outgoing("reply", f.from))
        \/ \E g : g.kind # "reply" /\ HandlerSend(g)
    BY <1>3 DEF OnRawDataReceived, OnRequest, OnResponse, OnPing, OnSegment, OnStray,
                OnInternetProtocolReceived, Request, Outgoing, SendsNothing
  <2>2. current \in Slots /\ ring \in [Slots -> [own : BOOLEAN, frame : Going]]
    BY DEF Holds
  <2>3. Outgoing("reply", f.from).to = f.from
    BY DEF Outgoing
  <2>4. \/ ring'[d] = ring[d]
        \/ f.kind = "request" /\ ring'[d].frame.to = f.from
    BY <1>7, <2>1, <2>2, <2>3 DEF HandlerSend
  <2> QED BY <1>5, <1>7, <2>4 DEF Met
<1> PICK q, u : q = recv /\ u = recv'
  OBVIOUS
<1>8. /\ Len(u) = Len(q) - 1 /\ Len(q) \in Nat \ {0} /\ f = q[1]
      /\ \A i \in 1 .. Len(u) : u[i] = q[i + 1]
  BY <1>1, <1>3, <1>6, HeadTailProperties
<1>9. ASSUME NEW s, NEW i \in 1 .. Len(u) + 1, ResponseBefore(q, s, i + 1)
      PROVE  Knows(cache', s) \/ ResponseBefore(u, s, i)
  <2> PICK j \in 1 .. i : q[j].kind = "response" /\ q[j].from = s
    BY <1>8, <1>9 DEF ResponseBefore
  <2>1. CASE j = 1
    BY <1>5, <1>8, <2>1
  <2>2. CASE j # 1
    <3>1. j - 1 \in 1 .. Len(u) /\ u[j - 1] = q[j] /\ j - 1 \in 1 .. i - 1
      BY <1>8, <2>2
    <3> QED BY <3>1 DEF ResponseBefore
  <2> QED BY <2>1, <2>2
<1>10. \A s \in knows : Knows(cache', s) \/ ResponseBefore(u, s, Len(u) + 1)
  <2>1. Len(u) + 1 \in 1 .. Len(u) + 1 /\ Len(u) + 1 + 1 = Len(q) + 1
    BY <1>8
  <2> QED BY <1>5, <1>9, <2>1 DEF Met
<1>11. ASSUME NEW i \in 1 .. Len(u), u[i].kind = "segment"
       PROVE  Knows(cache', u[i].from) \/ ResponseBefore(u, u[i].from, i)
  <2>1. u[i] = q[i + 1] /\ i + 1 \in 1 .. Len(q) /\ i \in 1 .. Len(u) + 1
    BY <1>8
  <2>2. Knows(cache, q[i + 1].from) \/ ResponseBefore(q, q[i + 1].from, i + 1)
    BY <1>11, <2>1 DEF Met
  <2> QED BY <1>5, <1>9, <2>1, <2>2
<1> QED BY <1>3, <1>6, <1>7, <1>10, <1>11 DEF Met

LEMMA MainMet ==
    ASSUME Holds, Met, Main \/ \E host \in Stations \cup Remote : Connects(host)
    PROVE  Met'
<1>1. UNCHANGED <<cache, handler, recv, knows>>
  BY DEF Main, MainTakes, MainLoads, MainStores, MainCopies, MainCopied, MainGives,
         MainResolves, Connects, MainGoes, outside
<1>2. /\ ring \in [Slots -> [own : BOOLEAN, frame : Going]] /\ main.slot \in Slots
      /\ main.frame.kind # "reply" /\ Torn.kind # "reply"
  BY DEF Holds, Torn, Outgoing
<1>3. ASSUME NEW d \in Slots, ring'[d].frame.kind = "reply"
      PROVE  ring[d].frame = ring'[d].frame
  <2>1. CASE ring' = ring
    BY <2>1
  <2>2. CASE ring' = [ring EXCEPT ![main.slot].own = TRUE]
    BY <1>2, <2>2
  <2>3. ASSUME NEW g, g.kind # "reply", ring' = [ring EXCEPT ![main.slot].frame = g]
        PROVE  ring[d].frame = ring'[d].frame
    BY <1>2, <1>3, <2>3
  <2>4. \/ ring' = ring
        \/ ring' = [ring EXCEPT ![main.slot].own = TRUE]
        \/ \E g \in {Torn, main.frame} : ring' = [ring EXCEPT ![main.slot].frame = g]
    BY DEF Main, MainTakes, MainLoads, MainStores, MainCopies, MainCopied, MainGives,
           MainResolves, Connects, Quiet
  <2> QED BY <1>2, <2>1, <2>2, <2>3, <2>4
<1> QED BY <1>1, <1>3 DEF Met

LEMMA MetStep ==
    ASSUME Holds, MetOrLost, [Next]_vars
    PROVE  MetOrLost'
<1> SUFFICES ASSUME ~ CacheFull', missed' = {} PROVE Met'
  BY DEF MetOrLost
<1>1. Met /\ Holds' /\ ~ CacheFull
  BY LossStays, HoldsStep DEF MetOrLost
<1>2. CASE UNCHANGED vars
  BY <1>1, <1>2 DEF Met, vars, kernel, outside
<1>3. ASSUME NEW s \in Stations, Replaces(s) PROVE Met'
  BY <1>1, <1>3 DEF Met, Replaces, kernel
<1>4. CASE Interrupt \/ FoundEmpty \/ Acknowledge
  BY <1>1, <1>4 DEF Met, Interrupt, FoundEmpty, Acknowledge, outside
<1>5. CASE \/ \E s \in Stations : Asks(s)
           \/ \E host \in Stations \cup Remote : Talks(host)
  BY <1>1, <1>5, StationsSpeak, SpeaksMet
<1> QED BY <1>1, <1>2, <1>3, <1>4, <1>5, TransmitsMet, ReceivesMet, MainMet
           DEF Next, Handler

(* The kernel hangs in its interrupt handler only if the cache was full or *)
(* a response was lost.                                                    *)
THEOREM OnlyLossHangs == Spec => []HangsOnlyByLoss
<1>1. Init => MetOrLost
  <2> SUFFICES ASSUME Init PROVE Met
    BY DEF MetOrLost
  <2>1. /\ handler = "idle" /\ knows = {} /\ 1 .. Len(recv) = {}
        /\ \A d \in Slots : ring[d].frame.kind # "reply"
    BY DEF Init, Nothing, Outgoing
  <2> QED BY <2>1 DEF Met
<1>2. Holds /\ MetOrLost /\ [Next]_vars => MetOrLost'
  BY MetStep
<1>3. MetOrLost => HangsOnlyByLoss
  BY DEF MetOrLost, Met, HangsOnlyByLoss
<1> QED BY <1>1, <1>2, <1>3, HoldsAlways, PTL DEF Spec

-----------------------------------------------------------------------------
(* The send ring stays in step                                             *)

(* The descriptor that comes k after c, around the ring.                   *)
SlotAt(c, k) == IF c + k < SendBuffers THEN c + k ELSE c + k - SendBuffers

(* The descriptors in use are those from the card's place to cur.          *)
Follow(used, c, cur, n) ==
    cur = SlotAt(c, n) /\ used = {SlotAt(c, i) : i \in 0 .. n - 1}

Used == {d \in Slots : ring[d].own} \cup Filling

Ring ==
    /\ raced \in BOOLEAN /\ overrun \in BOOLEAN
    /\ (~ raced /\ ~ overrun) =>
          /\ \E n \in 0 .. SendBuffers : Follow(Used, card, current, n)
          /\ \A d \in Filling : ~ ring[d].own
          /\ main.at \in {"load", "store"} => main.slot = current
          /\ main.at = "store" => main.load = current

LEMMA Around ==
    ASSUME NEW c \in Slots
    PROVE  /\ SlotAt(c, 0) = c /\ SlotAt(c, SendBuffers) = c
           /\ \A k \in 0 .. SendBuffers : SlotAt(c, k) \in Slots
           /\ \A i \in 0 .. SendBuffers - 1 :
                 /\ SlotAt(SlotAt(c, 1), i) = SlotAt(c, i + 1)
                 /\ SlotAt(SlotAt(c, i), 1) = SlotAt(c, i + 1)
           /\ \A i, j \in 0 .. SendBuffers - 1 : SlotAt(c, i) = SlotAt(c, j) => i = j
BY NetworkAssumption DEF SlotAt, Slots

LEMMA Remainder ==
    ASSUME NEW a \in Nat, a < SendBuffers
    PROVE  a % SendBuffers = a /\ (a + SendBuffers) % SendBuffers = a
BY NetworkAssumption

LEMMA SlotIsRemainder ==
    ASSUME NEW c \in Slots, NEW k \in 0 .. SendBuffers
    PROVE  (c + k) % SendBuffers = SlotAt(c, k)
<1>1. SendBuffers \in Nat \ {0} /\ c \in 0 .. SendBuffers - 1
  BY NetworkAssumption DEF Slots
<1>2. CASE c + k < SendBuffers
  BY <1>1, <1>2, Remainder DEF SlotAt
<1>3. CASE ~ (c + k < SendBuffers)
  <2> PICK a : a = c + k - SendBuffers
    OBVIOUS
  <2>1. a \in Nat /\ a < SendBuffers /\ c + k = a + SendBuffers
    BY <1>1, <1>3
  <2> QED BY <1>3, <2>1, Remainder DEF SlotAt
<1> QED BY <1>2, <1>3

(* The card sends its frame; a sender takes the next descriptor.           *)
LEMMA CardGoesOn ==
    ASSUME NEW used, NEW c \in Slots, NEW cur, NEW n \in 0 .. SendBuffers,
           Follow(used, c, cur, n), c \in used
    PROVE  n - 1 \in 0 .. SendBuffers /\ Follow(used \ {c}, SlotAt(c, 1), cur, n - 1)
<1>1. n - 1 \in 0 .. SendBuffers - 1 /\ SendBuffers \in Nat \ {0}
  <2>1. 0 .. n - 1 # {}
    BY DEF Follow
  <2> QED BY <2>1, NetworkAssumption
<1>2. cur = SlotAt(SlotAt(c, 1), n - 1)
  BY <1>1, Around DEF Follow
<1>3. ASSUME NEW d \in used, d # c
      PROVE  \E i \in 0 .. n - 1 - 1 : d = SlotAt(SlotAt(c, 1), i)
  <2> PICK j \in 0 .. n - 1 : d = SlotAt(c, j)
    BY <1>3 DEF Follow
  <2>1. j # 0
    BY <1>3, Around
  <2>2. j - 1 \in 0 .. n - 1 - 1 /\ j - 1 \in 0 .. SendBuffers - 1 /\ j = j - 1 + 1
    BY <1>1, <2>1
  <2> QED BY <2>2, Around
<1>4. ASSUME NEW i \in 0 .. n - 1 - 1
      PROVE  SlotAt(SlotAt(c, 1), i) \in used \ {c}
  <2>1. /\ i + 1 \in 0 .. n - 1 /\ i + 1 \in 0 .. SendBuffers - 1 /\ i + 1 # 0
        /\ i \in 0 .. SendBuffers - 1 /\ 0 \in 0 .. SendBuffers - 1
    BY <1>1
  <2>2. SlotAt(SlotAt(c, 1), i) = SlotAt(c, i + 1) /\ SlotAt(c, i + 1) # SlotAt(c, 0)
    BY <2>1, Around
  <2> QED BY <2>1, <2>2, Around DEF Follow
<1> QED BY <1>1, <1>2, <1>3, <1>4 DEF Follow

LEMMA SenderTakes ==
    ASSUME NEW used, NEW c \in Slots, NEW cur, NEW n \in 0 .. SendBuffers,
           Follow(used, c, cur, n), cur \notin used
    PROVE  /\ n + 1 \in 0 .. SendBuffers
           /\ Follow(used \cup {cur}, c, SlotAt(cur, 1), n + 1)
<1>1. n \in 0 .. SendBuffers - 1
  <2>1. ASSUME n = SendBuffers PROVE FALSE
    <3>1. cur = SlotAt(c, 0) /\ 0 \in 0 .. n - 1
      BY <2>1, Around, NetworkAssumption DEF Follow
    <3> QED BY <3>1 DEF Follow
  <2> QED BY <2>1, NetworkAssumption
<1>2. n + 1 \in 0 .. SendBuffers /\ n + 1 - 1 = n
  BY <1>1, NetworkAssumption
<1>3. SlotAt(cur, 1) = SlotAt(c, n + 1)
  BY <1>1, Around DEF Follow
<1>4. ASSUME NEW d PROVE
        d \in used \cup {cur} <=> \E i \in 0 .. n + 1 - 1 : d = SlotAt(c, i)
  <2>1. \A i : i \in 0 .. n + 1 - 1 <=> i \in 0 .. n - 1 \/ i = n
    BY <1>1
  <2> QED BY <2>1 DEF Follow
<1> QED BY <1>2, <1>3, <1>4 DEF Follow

(* What leaves the ring, its places and the main loop alone.               *)
LEMMA RingSame ==
    ASSUME Ring, UNCHANGED <<ring, current, card, main, raced, overrun>>
    PROVE  Ring'
BY DEF Ring, Used, Filling

LEMMA RingTransmits ==
    ASSUME Holds, Ring, Transmits
    PROVE  Ring'
<1>1. /\ UNCHANGED <<current, main, raced, overrun>>
      /\ ring[card].own
      /\ ring' = [ring EXCEPT ![card] = [own |-> FALSE, frame |-> Nothing]]
      /\ card' = (card + 1) % SendBuffers
  BY TransmitsHolds DEF kernel
<1>2. /\ ring \in [Slots -> [own : BOOLEAN, frame : Going]]
      /\ card \in Slots /\ 1 \in 0 .. SendBuffers
  BY NetworkAssumption DEF Holds
<1> SUFFICES ASSUME ~ raced, ~ overrun
             PROVE  /\ \E n \in 0 .. SendBuffers : Follow(Used', card', current, n)
                    /\ \A d \in Filling : ~ ring'[d].own
  BY <1>1 DEF Ring, Filling
<1>3. card' = SlotAt(card, 1)
  BY <1>1, <1>2, SlotIsRemainder
<1>4. \A d \in Filling : ~ ring[d].own /\ d # card
  BY <1>1 DEF Ring
<1>5. Used' = Used \ {card} /\ card \in Used
  <2>1. Filling' = Filling
    BY <1>1 DEF Filling
  <2>2. \A d \in Slots : ring'[d].own <=> ring[d].own /\ d # card
    BY <1>1, <1>2
  <2> QED BY <1>1, <1>2, <1>4, <2>1, <2>2 DEF Used
<1> PICK n \in 0 .. SendBuffers : Follow(Used, card, current, n)
  BY DEF Ring
<1>6. n - 1 \in 0 .. SendBuffers /\ Follow(Used \ {card}, SlotAt(card, 1), current, n - 1)
  BY <1>2, <1>5, CardGoesOn
<1>7. \A d \in Filling : ~ ring'[d].own
  BY <1>1, <1>4 DEF Filling, Holds
<1> QED BY <1>3, <1>5, <1>6, <1>7

LEMMA RingHandlerSend ==
    ASSUME Holds, Ring, NEW f, HandlerSend(f), UNCHANGED <<card, main>>
    PROVE  Ring'
<1>1. /\ ring' = [ring EXCEPT ![current] = [own |-> TRUE, frame |-> f]]
      /\ current' = (current + 1) % SendBuffers
      /\ overrun' = (overrun \/ InUse(current))
      /\ raced' = (raced \/ main.at \in {"load", "store"})
  BY DEF HandlerSend
<1>2. /\ ring \in [Slots -> [own : BOOLEAN, frame : Going]]
      /\ card \in Slots /\ current \in Slots /\ 1 \in 0 .. SendBuffers
      /\ raced \in BOOLEAN /\ overrun \in BOOLEAN
  BY NetworkAssumption DEF Holds, Ring
<1>3. InUse(current) \in BOOLEAN
  BY <1>2 DEF InUse
<1>4. raced' \in BOOLEAN /\ overrun' \in BOOLEAN
  BY <1>1, <1>2, <1>3
<1> SUFFICES ASSUME ~ raced', ~ overrun'
             PROVE  /\ \E n \in 0 .. SendBuffers : Follow(Used', card, current', n)
                    /\ \A d \in Filling : ~ ring'[d].own
                    /\ main.at \notin {"load", "store"}
  BY <1>4 DEF Ring, Filling
<1>5. /\ ~ raced /\ ~ overrun /\ ~ InUse(current)
      /\ main.at \notin {"load", "store"}
  BY <1>1, <1>2, <1>3
<1>6. current' = SlotAt(current, 1)
  BY <1>1, <1>2, SlotIsRemainder
<1>7. \A d \in Filling : ~ ring'[d].own
  <2>1. \A d \in Filling : ~ ring[d].own /\ d # current /\ d \in Slots
    BY <1>5 DEF Ring, InUse, Filling, Holds
  <2> QED BY <1>1, <1>2, <2>1
<1>8. Used' = Used \cup {current} /\ current \notin Used
  <2>1. Filling' = Filling
    BY DEF Filling
  <2>2. \A d \in Slots : ring'[d].own <=> ring[d].own \/ d = current
    BY <1>1, <1>2
  <2> QED BY <1>2, <1>5, <2>1, <2>2 DEF Used, InUse
<1> PICK n \in 0 .. SendBuffers : Follow(Used, card, current, n)
  BY <1>5 DEF Ring
<1>9. /\ n + 1 \in 0 .. SendBuffers
      /\ Follow(Used \cup {current}, card, SlotAt(current, 1), n + 1)
  BY <1>2, <1>8, SenderTakes
<1> QED BY <1>5, <1>6, <1>7, <1>8, <1>9

LEMMA RingReceives ==
    ASSUME Holds, Ring, Receives
    PROVE  Ring'
<1>1. OnRawDataReceived(Head(recv)) /\ UNCHANGED <<card, main>>
  BY DEF Receives
<1>2. SendsNothing \/ \E f : HandlerSend(f)
  BY <1>1 DEF OnRawDataReceived, OnRequest, OnResponse, OnPing, OnSegment, OnStray,
              OnInternetProtocolReceived
<1> QED BY <1>1, <1>2, RingSame, RingHandlerSend DEF SendsNothing

(* The main loop, step by step.                                            *)
LEMMA RingMain ==
    ASSUME Holds, Ring, Main \/ \E host \in Stations \cup Remote : Connects(host)
    PROVE  Ring'
<1>1. /\ ring \in [Slots -> [own : BOOLEAN, frame : Going]]
      /\ card \in Slots /\ current \in Slots /\ 1 \in 0 .. SendBuffers
      /\ raced \in BOOLEAN /\ overrun \in BOOLEAN
      /\ main \in [at : Places, host : Stations \cup Remote, frame : Going,
                   slot : Slots, load : Slots]
  BY NetworkAssumption DEF Holds, Ring
<1>2. card' = card /\ raced' = raced
  BY DEF Main, MainTakes, MainLoads, MainStores, MainCopies, MainCopied, MainGives,
         MainResolves, Connects, MainGoes, Quiet
<1>3. CASE \/ MainResolves
           \/ \E host \in Stations \cup Remote : Connects(host)
  <2>1. /\ Quiet /\ main.at \in {"start", "wait"} /\ main'.at = "take"
    BY <1>1, <1>3 DEF MainResolves, Connects, MainGoes, MainAt
  <2>2. Filling = {} /\ Filling' = {} /\ Used' = Used
    BY <2>1 DEF Filling, Used, Quiet
  <2> QED BY <1>2, <2>1, <2>2 DEF Ring, Quiet
<1>4. CASE MainTakes \/ MainLoads
  <2>1. /\ Quiet /\ main.at \in {"take", "load"} /\ main'.at \in {"load", "store"}
        /\ main.at = "take" => main'.at = "load" /\ main'.slot = current
        /\ main.at = "load" => main'.slot = main.slot /\ main'.load = current
    BY <1>1, <1>4 DEF MainTakes, MainLoads, MainGoes, MainAt
  <2>2. Filling = {} /\ Filling' = {} /\ Used' = Used
    BY <2>1 DEF Filling, Used, Quiet
  <2> QED BY <1>2, <2>1, <2>2 DEF Ring, Quiet
<1>5. CASE MainStores
  <2>1. /\ main.at = "store" /\ main' = [main EXCEPT !.at = "copy"]
        /\ current' = (main.load + 1) % SendBuffers
        /\ overrun' = (overrun \/ InUse(main.slot))
        /\ ring' = ring
    BY <1>5 DEF MainStores, MainGoes, MainAt
  <2>2. Filling = {} /\ Filling' = {main.slot} /\ main'.at = "copy"
    BY <1>1, <2>1 DEF Filling
  <2>3. InUse(main.slot) \in BOOLEAN
    BY <1>1 DEF InUse
  <2>4. overrun' \in BOOLEAN
    BY <1>1, <2>1, <2>3
  <2> SUFFICES ASSUME ~ raced, ~ overrun'
               PROVE  /\ \E n \in 0 .. SendBuffers : Follow(Used', card, current', n)
                      /\ ~ ring[main.slot].own
    BY <1>1, <1>2, <2>1, <2>2, <2>4 DEF Ring
  <2>5. ~ overrun /\ ~ InUse(main.slot)
    BY <1>1, <2>1, <2>3
  <2>6. main.slot = current /\ main.load = current
    BY <2>1, <2>5 DEF Ring
  <2>7. Used' = Used \cup {current} /\ current \notin Used
    BY <2>1, <2>2, <2>5, <2>6 DEF Used, InUse
  <2>8. current' = SlotAt(current, 1)
    BY <1>1, <2>1, <2>6, SlotIsRemainder
  <2> PICK n \in 0 .. SendBuffers : Follow(Used, card, current, n)
    BY <2>5 DEF Ring
  <2>9. /\ n + 1 \in 0 .. SendBuffers
        /\ Follow(Used \cup {current}, card, SlotAt(current, 1), n + 1)
    BY <1>1, <2>7, SenderTakes
  <2> QED BY <2>5, <2>7, <2>8, <2>9 DEF InUse
<1>6. CASE MainCopies \/ MainCopied
  <2>1. /\ UNCHANGED <<current, overrun>>
        /\ main.at \in {"copy", "copying"} /\ main'.at \in {"copying", "copied"}
        /\ main'.slot = main.slot
        /\ \E g : ring' = [ring EXCEPT ![main.slot].frame = g]
    BY <1>1, <1>6 DEF MainCopies, MainCopied, MainGoes, MainAt
  <2>2. \A d \in Slots : ring'[d].own = ring[d].own
    BY <1>1, <2>1
  <2>3. Filling = {main.slot} /\ Filling' = {main.slot} /\ main.slot \in Slots
    BY <1>1, <2>1 DEF Filling
  <2>4. Used' = Used
    BY <2>2, <2>3 DEF Used
  <2> QED BY <1>2, <2>1, <2>2, <2>3, <2>4 DEF Ring
<1>7. CASE MainGives
  <2>1. /\ UNCHANGED <<current, overrun>>
        /\ main.at = "copied" /\ main'.at \in {"wait", "done"}
        /\ ring' = [ring EXCEPT ![main.slot].own = TRUE]
    BY <1>1, <1>7 DEF MainGives, MainGoes, MainAt
  <2>2. Filling = {main.slot} /\ Filling' = {} /\ main.slot \in Slots
    BY <1>1, <2>1 DEF Filling
  <2>3. \A d \in Slots : ring'[d].own <=> ring[d].own \/ d = main.slot
    BY <1>1, <2>1
  <2>4. Used' = Used
    BY <2>2, <2>3 DEF Used
  <2> QED BY <1>2, <2>1, <2>2, <2>4 DEF Ring
<1> QED BY <1>3, <1>4, <1>5, <1>6, <1>7 DEF Main

LEMMA RingStep ==
    ASSUME Holds, Ring, [Next]_vars
    PROVE  Ring'
<1>1. CASE \/ UNCHANGED vars
           \/ \E s \in Stations : Replaces(s)
           \/ Interrupt \/ FoundEmpty \/ Acknowledge
  BY <1>1, RingSame DEF vars, kernel, history, Replaces, Interrupt, FoundEmpty,
                        Acknowledge
<1>2. CASE \/ \E s \in Stations : Asks(s)
           \/ \E host \in Stations \cup Remote : Talks(host)
  BY <1>2, StationsSpeak, RingSame DEF Speaks, kernel
<1> QED BY <1>1, <1>2, RingTransmits, RingReceives, RingMain DEF Next, Handler

LEMMA RingInit == Init => Ring
<1> SUFFICES ASSUME Init PROVE Ring
  OBVIOUS
<1>1. /\ raced = FALSE /\ overrun = FALSE /\ main.at = "start" /\ card = 0 /\ current = 0
      /\ \A d \in Slots : ~ ring[d].own
  BY DEF Init
<1>2. Used = {} /\ Filling = {}
  BY <1>1 DEF Used, Filling
<1>3. SlotAt(0, 0) = 0 /\ 0 \in 0 .. SendBuffers /\ 0 .. 0 - 1 = {}
  BY NetworkAssumption DEF SlotAt
<1>4. Follow(Used, card, current, 0)
  BY <1>1, <1>2, <1>3 DEF Follow
<1> QED BY <1>1, <1>2, <1>3, <1>4 DEF Ring

LEMMA HoldsTypes == Holds => TypeOK
<1> SUFFICES ASSUME Holds PROVE TypeOK
  OBVIOUS
<1>1. Len(cache) <= CacheSize
      /\ \A i \in DOMAIN cache : cache[i].ip \in Stations /\ cache[i].mac \in Macs
  <2>1. cache \in Seq(Cached) /\ Len(cache) \in 0 .. CacheSize /\ CacheSize \in Nat
    BY CacheAssumption DEF Holds, IsCache
  <2>2. DOMAIN cache = 1 .. Len(cache)
    BY <2>1
  <2>3. \A i \in 1 .. Len(cache) : cache[i] \in Cached
    BY <2>1, ElementOfSeq
  <2> QED BY <2>1, <2>2, <2>3 DEF Cached
<1>2. \A d \in Slots : ring[d].own \in BOOLEAN /\ ring[d].frame.to \in Stations
  BY DEF Holds, Going
<1>3. {current, card, main.slot, main.load} \subseteq Slots
  BY DEF Holds
<1> QED BY <1>1, <1>2, <1>3 DEF Holds, TypeOK

LEMMA RingIsInStep ==
    ASSUME Holds, Ring
    PROVE  RingInStep
<1>1. TypeOK /\ card \in Slots /\ raced \in BOOLEAN /\ overrun \in BOOLEAN
  BY HoldsTypes DEF Holds, Ring
<1> SUFFICES ASSUME ~ raced, ~ overrun
             PROVE  \E n \in 0 .. SendBuffers :
                       /\ current = (card + n) % SendBuffers
                       /\ Used = {(card + i) % SendBuffers : i \in 0 .. n - 1}
  BY <1>1 DEF RingInStep, Used
<1> PICK n \in 0 .. SendBuffers : Follow(Used, card, current, n)
  BY DEF Ring
<1>2. current = (card + n) % SendBuffers
  BY <1>1, SlotIsRemainder DEF Follow
<1>3. \A i \in 0 .. n - 1 : SlotAt(card, i) = (card + i) % SendBuffers
  <2>1. \A i \in 0 .. n - 1 : i \in 0 .. SendBuffers
    BY NetworkAssumption
  <2> QED BY <1>1, <2>1, SlotIsRemainder
<1>4. Used = {(card + i) % SendBuffers : i \in 0 .. n - 1}
  BY <1>3 DEF Follow
<1> QED BY <1>2, <1>4

(* Until a handler sends while the main loop counts its descriptor, or a   *)
(* sender catches up with the card, the card sends every frame in order.   *)
THEOREM RingStaysInStep == Spec => []RingInStep
<1>1. Holds /\ Ring /\ [Next]_vars => Ring'
  BY RingStep
<1>2. Holds /\ Ring => RingInStep
  BY RingIsInStep
<1> QED BY <1>1, <1>2, RingInit, HoldsAlways, PTL DEF Spec
=============================================================================
