---------------------------- MODULE TransportProofs ----------------------------
(***************************************************************************)
(* What holds of Transport for every number of sockets, ports and remotes: *)
(* a UDP socket hears one sender, and a connection that was closed refuses *)
(* its remote for ever.  Both rest on what the search through the table of *)
(* sockets returns: its first match.                                       *)
(***************************************************************************)
EXTENDS Transport, TcpSocketProofs

(* Min is the least.                                                       *)
LEMMA LeastExists ==
    ASSUME NEW S \in SUBSET Nat, S # {}
    PROVE  Min(S) \in S /\ \A n \in S : Min(S) <= n
<1>1. \E x \in S : \A n \in S : x <= n
  BY LeastIn
<1> QED BY <1>1, Zenon DEF Min

-----------------------------------------------------------------------------
(* UDP                                                                     *)

Matches(i, remote, port) ==
    Listens(sockets[i], port) \/ IsFrom(sockets[i], remote, port)

LEMMA FoundMatches ==
    ASSUME NEW remote, NEW port, Len(sockets) \in Nat, Found(remote, port) # 0
    PROVE  /\ Found(remote, port) \in 1 .. Len(sockets)
           /\ Matches(Found(remote, port), remote, port)
<1> DEFINE I == {i \in 1 .. Len(sockets) : Matches(i, remote, port)}
<1>1. Found(remote, port) = IF I # {} THEN Min(I) ELSE 0
  BY DEF Found, SelectInSeq, Matches
<1>2. I # {} /\ I \in SUBSET Nat
  BY <1>1
<1>3. Min(I) \in I
  BY <1>2, LeastExists
<1> QED BY <1>1, <1>2, <1>3

(* A socket that listens has heard nobody yet.                             *)
UdpInv ==
    /\ OneSenderEach
    /\ \A i \in DOMAIN sockets : sockets[i].listening => heard[i] = {}

Records == [localPort : AllPorts, remote : Remotes \cup {Nobody},
            listening : BOOLEAN, handler : BOOLEAN]

LEMMA NextPort == \A port \in AllPorts : PortAfter(port) \in AllPorts
BY PortsAssumption DEF AllPorts, PortAfter

LEMMA EnteredKeeps ==
    ASSUME UdpInv, NEW socket \in Records, Entered(socket),
           freePort' \in AllPorts, UNCHANGED protocol
    PROVE  UdpInv'
<1>1. /\ sockets \in Seq(Records) /\ heard \in Seq(SUBSET Remotes)
      /\ Len(heard) = Len(sockets)
  BY DEF UdpInv, OneSenderEach, TypeOK, Records
<1>2. /\ sockets' = Append(sockets, socket) /\ heard' = Append(heard, {})
  BY DEF Entered
<1>3. /\ sockets' \in Seq(Records) /\ heard' \in Seq(SUBSET Remotes)
      /\ Len(sockets') = Len(sockets) + 1 /\ Len(heard') = Len(sockets')
  BY <1>1, <1>2
<1>4. ASSUME NEW i \in DOMAIN sockets'
      PROVE  \/ i \in DOMAIN sockets /\ sockets'[i] = sockets[i] /\ heard'[i] = heard[i]
             \/ heard'[i] = {}
  BY <1>1, <1>2, <1>3
<1>5. TypeOK'
  BY <1>3 DEF TypeOK, UdpInv, OneSenderEach, Records
<1>6. \A i \in DOMAIN sockets' : heard'[i] \subseteq {sockets'[i].remote}
  BY <1>4 DEF UdpInv, OneSenderEach
<1>7. \A i \in DOMAIN sockets' : sockets'[i].listening => heard'[i] = {}
  BY <1>4 DEF UdpInv
<1> QED BY <1>5, <1>6, <1>7 DEF UdpInv, OneSenderEach

LEMMA SocketTyped ==
    ASSUME UdpInv, NEW i \in DOMAIN sockets
    PROVE  sockets[i] \in Records /\ heard[i] \in SUBSET Remotes
<1>1. /\ sockets \in Seq(Records) /\ heard \in Seq(SUBSET Remotes)
      /\ Len(heard) = Len(sockets)
  BY DEF UdpInv, OneSenderEach, TypeOK, Records
<1>2. i \in 1 .. Len(sockets) /\ i \in 1 .. Len(heard)
  BY <1>1, LenProperties
<1>3. sockets[i] \in Records
  BY <1>1, <1>2, ElementOfSeq
<1>4. heard[i] \in SUBSET Remotes
  BY <1>1, <1>2, ElementOfSeq
<1> QED BY <1>3, <1>4

(* A step that changes one socket and who it heard.                        *)
LEMMA OneSocketChanges ==
    ASSUME UdpInv, NEW i \in DOMAIN sockets,
           NEW socket \in Records, NEW who \in SUBSET Remotes,
           sockets' = [sockets EXCEPT ![i] = socket],
           heard' = [heard EXCEPT ![i] = who],
           who \subseteq {socket.remote}, socket.listening => who = {},
           UNCHANGED <<freePort, protocol>>
    PROVE  UdpInv'
<1>1. /\ sockets \in Seq(Records) /\ heard \in Seq(SUBSET Remotes)
      /\ Len(heard) = Len(sockets) /\ DOMAIN sockets = 1 .. Len(sockets)
  BY DEF UdpInv, OneSenderEach, TypeOK, Records
<1>2. /\ sockets' \in Seq(Records) /\ Len(sockets') = Len(sockets)
      /\ \A j \in DOMAIN sockets :
            sockets'[j] = IF j = i THEN socket ELSE sockets[j]
  BY <1>1, ExceptSeq
<1>3. /\ heard' \in Seq(SUBSET Remotes) /\ Len(heard') = Len(heard)
      /\ \A j \in DOMAIN sockets : heard'[j] = IF j = i THEN who ELSE heard[j]
  BY <1>1, ExceptSeq
<1>4. DOMAIN sockets' = DOMAIN sockets
  BY <1>1, <1>2
<1>5. TypeOK'
  BY <1>1, <1>2, <1>3 DEF TypeOK, UdpInv, OneSenderEach, Records
<1>6. \A j \in DOMAIN sockets : heard'[j] \subseteq {sockets'[j].remote}
  BY <1>2, <1>3 DEF UdpInv, OneSenderEach
<1>7. \A j \in DOMAIN sockets : sockets'[j].listening => heard'[j] = {}
  BY <1>2, <1>3 DEF UdpInv
<1> QED BY <1>4, <1>5, <1>6, <1>7 DEF UdpInv, OneSenderEach

LEMMA BindKeeps ==
    ASSUME UdpInv, NEW i \in DOMAIN sockets, Bind(i), UNCHANGED protocol
    PROVE  UdpInv'
<1> DEFINE new == [sockets[i] EXCEPT !.handler = TRUE]
<1>1. sockets[i] \in Records /\ heard[i] \in SUBSET Remotes
  BY SocketTyped
<1>2. /\ new \in Records
      /\ new.remote = sockets[i].remote /\ new.listening = sockets[i].listening
  BY <1>1 DEF Records
<1>3. sockets' = [sockets EXCEPT ![i] = new] /\ UNCHANGED <<freePort, heard>>
  BY DEF Bind
<1>4. heard' = [heard EXCEPT ![i] = heard[i]]
  BY <1>3 DEF UdpInv, OneSenderEach, TypeOK
<1>5. heard[i] \subseteq {new.remote} /\ (new.listening => heard[i] = {})
  BY <1>2 DEF UdpInv, OneSenderEach
<1> HIDE DEF new
<1> QED BY <1>1, <1>2, <1>3, <1>4, <1>5, OneSocketChanges, Zenon

LEMMA DatagramKeeps ==
    ASSUME UdpInv, NEW remote \in Remotes, NEW port \in AllPorts,
           OnInternetProtocolReceived(remote, port), UNCHANGED protocol
    PROVE  UdpInv'
<1> DEFINE i == Found(remote, port)
           new == IF sockets[i].listening THEN Taken(sockets[i], remote)
                                          ELSE sockets[i]
           who == IF sockets[i].handler THEN heard[i] \cup {remote} ELSE heard[i]
<1>1. i \in DOMAIN sockets /\ Matches(i, remote, port)
  BY FoundMatches DEF OnInternetProtocolReceived, UdpInv, OneSenderEach, TypeOK
<1>2. /\ sockets' = [sockets EXCEPT ![i] = new]
      /\ heard' = [heard EXCEPT ![i] = who] /\ UNCHANGED freePort
  BY DEF OnInternetProtocolReceived
<1> HIDE DEF i
<1>3. sockets[i] \in Records /\ heard[i] \in SUBSET Remotes
  BY <1>1, SocketTyped
<1>4. new \in Records /\ new.remote = remote /\ new.listening = FALSE
  BY <1>1, <1>3 DEF Records, Taken, Matches, Listens, IsFrom
<1>5. who \in SUBSET Remotes /\ who \subseteq {remote}
  BY <1>1, <1>3 DEF UdpInv, OneSenderEach, Matches, Listens, IsFrom
<1> HIDE DEF new, who
<1> QED BY <1>1, <1>2, <1>4, <1>5, OneSocketChanges, Zenon

LEMMA UdpInvStep ==
    ASSUME UdpInv, [Next]_vars
    PROVE  UdpInv'
<1>1. CASE UNCHANGED <<udp, protocol>>
  BY <1>1 DEF UdpInv, OneSenderEach, TypeOK, udp
<1>2. ASSUME UdpNext, UNCHANGED protocol PROVE UdpInv'
  <2>1. ASSUME NEW r \in Remotes, Connect(r) PROVE UdpInv'
    <3>1. Socket(freePort, r, FALSE) \in Records /\ freePort' \in AllPorts
      BY <2>1, NextPort
         DEF Connect, Socket, Records, UdpInv, OneSenderEach, TypeOK
    <3> QED BY <1>2, <2>1, <3>1, EnteredKeeps DEF Connect
  <2>2. ASSUME NEW port \in ListenPorts, Listen(port) PROVE UdpInv'
    <3>1. PICK r \in UnsetRemotes : Entered(Socket(port, r, TRUE))
      BY <2>2 DEF Listen
    <3>2. Socket(port, r, TRUE) \in Records /\ freePort' \in AllPorts
      BY <2>2, PortsAssumption
         DEF Listen, Socket, Records, UdpInv, OneSenderEach, TypeOK
    <3> QED BY <1>2, <3>1, <3>2, EnteredKeeps
  <2>3. ASSUME NEW i \in DOMAIN sockets, Bind(i) PROVE UdpInv'
    BY <1>2, <2>3, BindKeeps
  <2>4. ASSUME NEW i \in DOMAIN sockets, Disconnect(i) PROVE UdpInv'
    BY <1>1, <1>2, <2>4 DEF Disconnect
  <2>5. ASSUME NEW r \in Remotes, NEW port \in AllPorts,
               OnInternetProtocolReceived(r, port)
        PROVE  UdpInv'
    BY <1>2, <2>5, DatagramKeeps
  <2> QED BY <1>2, <2>1, <2>2, <2>3, <2>4, <2>5 DEF UdpNext
<1> QED BY <1>1, <1>2 DEF Next, vars

(* No remote's data ever reaches a UDP socket that another one has.        *)
THEOREM OneSender == Spec => []OneSenderEach
<1>1. Init => UdpInv
  BY PortsAssumption DEF Init, UdpInit, UdpInv, OneSenderEach, TypeOK
<1>2. UdpInv /\ [Next]_vars => UdpInv'
  BY UdpInvStep
<1>3. UdpInv => OneSenderEach
  BY DEF UdpInv
<1> QED BY <1>1, <1>2, <1>3, PTL DEF Spec

-----------------------------------------------------------------------------
(* A port is used by one socket, or is one that is listened on             *)

(* The k-th port from the first one.                                       *)
PortAt(k) ==
    IF FirstPort + k < PortSpace THEN FirstPort + k ELSE FirstPort + k - PortSpace

(* The table was given n ports and f is the next; while they last, no two  *)
(* sockets have the same.                                                  *)
PortsUsed(tab, f, n) ==
    /\ Len(tab) \in Nat /\ n \in 0 .. Len(tab)
    /\ n < PortSpace => f = PortAt(n)
    /\ n <= PortSpace =>
          /\ \A i \in 1 .. Len(tab) :
                tab[i].localPort \notin ListenPorts =>
                    \E k \in 0 .. n - 1 : tab[i].localPort = PortAt(k)
          /\ \A i, j \in 1 .. Len(tab) :
                i # j /\ tab[i].localPort = tab[j].localPort =>
                    tab[i].localPort \in ListenPorts

LEMMA PortAfterAt ==
    ASSUME NEW n \in Nat, n + 1 < PortSpace
    PROVE  PortAfter(PortAt(n)) = PortAt(n + 1)
<1>1. PortSpace \in Nat /\ FirstPort \in 0 .. PortSpace - 1
  BY PortsAssumption DEF AllPorts
<1> PICK q \in Nat : q = PortAt(n) /\ q < PortSpace
  BY <1>1 DEF PortAt
<1>2. CASE q + 1 < PortSpace
  <2>1. (q + 1) % PortSpace = q + 1
    BY <1>1, <1>2
  <2> QED BY <1>1, <1>2, <2>1 DEF PortAfter, PortAt
<1>3. CASE q + 1 = PortSpace
  <2>1. (q + 1) % PortSpace = 0
    BY <1>1, <1>3
  <2> QED BY <1>1, <1>3, <2>1 DEF PortAfter, PortAt
<1> QED BY <1>1, <1>2, <1>3

LEMMA PortsStay ==
    ASSUME NEW tab, NEW f, NEW n, PortsUsed(tab, f, n), NEW u, Len(u) = Len(tab),
           \A i \in 1 .. Len(tab) : u[i].localPort = tab[i].localPort
    PROVE  PortsUsed(u, f, n)
BY DEF PortsUsed

LEMMA PortsListen ==
    ASSUME NEW tab, NEW f, NEW n, PortsUsed(tab, f, n), NEW u,
           Len(u) = Len(tab) + 1,
           \A i \in 1 .. Len(tab) : u[i].localPort = tab[i].localPort,
           u[Len(tab) + 1].localPort \in ListenPorts
    PROVE  PortsUsed(u, f, n)
<1>1. \A i \in 1 .. Len(u) :
         \/ i \in 1 .. Len(tab) /\ u[i].localPort = tab[i].localPort
         \/ u[i].localPort \in ListenPorts
  BY DEF PortsUsed
<1>2. Len(u) \in Nat /\ n \in 0 .. Len(u) /\ (n < PortSpace => f = PortAt(n))
  BY DEF PortsUsed
<1>3. ASSUME n <= PortSpace, NEW i \in 1 .. Len(u),
             u[i].localPort \notin ListenPorts
      PROVE  \E k \in 0 .. n - 1 : u[i].localPort = PortAt(k)
  BY <1>1, <1>3 DEF PortsUsed
<1>4. ASSUME n <= PortSpace, NEW i \in 1 .. Len(u), NEW j \in 1 .. Len(u),
             i # j, u[i].localPort = u[j].localPort
      PROVE  u[i].localPort \in ListenPorts
  BY <1>1, <1>4 DEF PortsUsed
<1> QED BY <1>2, <1>3, <1>4 DEF PortsUsed

LEMMA PortsConnect ==
    ASSUME NEW tab, NEW f, NEW n, PortsUsed(tab, f, n), NEW u,
           Len(u) = Len(tab) + 1,
           \A i \in 1 .. Len(tab) : u[i].localPort = tab[i].localPort,
           u[Len(tab) + 1].localPort = f
    PROVE  PortsUsed(u, PortAfter(f), n + 1)
<1>0. PortSpace \in Nat /\ FirstPort \in 0 .. PortSpace - 1
  BY PortsAssumption DEF AllPorts
<1>1. \A i \in 1 .. Len(u) :
         \/ i \in 1 .. Len(tab) /\ u[i].localPort = tab[i].localPort
         \/ i = Len(tab) + 1 /\ u[i].localPort = f
  BY DEF PortsUsed
<1>2. Len(u) \in Nat /\ n \in Nat /\ n + 1 \in 0 .. Len(u)
  BY DEF PortsUsed
<1>3. n + 1 < PortSpace => PortAfter(f) = PortAt(n + 1)
  BY <1>0, <1>2, PortAfterAt DEF PortsUsed
<1>4. ASSUME n + 1 <= PortSpace
      PROVE  f = PortAt(n) /\ \A k \in 0 .. n - 1 : PortAt(k) # f
  BY <1>0, <1>2, <1>4 DEF PortsUsed, PortAt
<1>5. ASSUME n + 1 <= PortSpace, NEW i \in 1 .. Len(u),
             u[i].localPort \notin ListenPorts
      PROVE  \E k \in 0 .. n : u[i].localPort = PortAt(k)
  <2>1. CASE i \in 1 .. Len(tab) /\ u[i].localPort = tab[i].localPort
    <3>1. PICK k \in 0 .. n - 1 : tab[i].localPort = PortAt(k)
      BY <1>0, <1>2, <1>5, <2>1 DEF PortsUsed
    <3> QED BY <1>2, <2>1, <3>1
  <2> QED BY <1>1, <1>2, <1>4, <1>5, <2>1
<1>6. ASSUME n + 1 <= PortSpace, NEW i \in 1 .. Len(u), NEW j \in 1 .. Len(tab),
             i = Len(tab) + 1, u[i].localPort = u[j].localPort
      PROVE  u[i].localPort \in ListenPorts
  <2>1. u[i].localPort = f /\ tab[j].localPort = f
    BY <1>1, <1>6
  <2>2. tab[j].localPort \notin ListenPorts =>
           \E k \in 0 .. n - 1 : tab[j].localPort = PortAt(k)
    BY <1>0, <1>2, <1>6 DEF PortsUsed
  <2> QED BY <1>4, <1>6, <2>1, <2>2
<1>7. ASSUME n + 1 <= PortSpace, NEW i \in 1 .. Len(u), NEW j \in 1 .. Len(u),
             i # j, u[i].localPort = u[j].localPort
      PROVE  u[i].localPort \in ListenPorts
  <2>1. CASE i \in 1 .. Len(tab) /\ j \in 1 .. Len(tab)
    BY <1>0, <1>2, <1>7, <2>1 DEF PortsUsed
  <2>2. CASE i \in 1 .. Len(tab) /\ j = Len(tab) + 1
    BY <1>6, <1>7, <2>2
  <2>3. CASE i = Len(tab) + 1 /\ j \in 1 .. Len(tab)
    BY <1>6, <1>7, <2>3
  <2> QED BY <1>1, <1>7, <2>1, <2>2, <2>3
<1>8. n + 1 - 1 = n
  BY <1>2
<1> QED BY <1>2, <1>3, <1>5, <1>7, <1>8 DEF PortsUsed

(* The UDP table.                                                          *)
LEMMA UdpPortsStep ==
    ASSUME UdpInv, NEW n, PortsUsed(sockets, freePort, n), [Next]_vars
    PROVE  \E k : PortsUsed(sockets', freePort', k)
<1>0. sockets \in Seq(Records) /\ Len(sockets) \in Nat
      /\ DOMAIN sockets = 1 .. Len(sockets)
  BY DEF UdpInv, OneSenderEach, TypeOK, Records
<1>1. CASE UNCHANGED udp
  BY <1>1 DEF udp
<1>2. ASSUME NEW r \in Remotes, Connect(r)
      PROVE  \E k : PortsUsed(sockets', freePort', k)
  <2>1. /\ sockets' = Append(sockets, Socket(freePort, r, FALSE))
        /\ freePort' = PortAfter(freePort)
    BY <1>2 DEF Connect, Entered
  <2>2. /\ Len(sockets') = Len(sockets) + 1
        /\ \A i \in 1 .. Len(sockets) : sockets'[i] = sockets[i]
        /\ sockets'[Len(sockets) + 1].localPort = freePort
    BY <1>0, <2>1 DEF Socket
  <2>3. PortsUsed(sockets', PortAfter(freePort), n + 1)
    BY <2>2, PortsConnect
  <2> QED BY <2>1, <2>3
<1>3. ASSUME NEW port \in ListenPorts, Listen(port)
      PROVE  \E k : PortsUsed(sockets', freePort', k)
  <2>1. PICK r : sockets' = Append(sockets, Socket(port, r, TRUE))
    BY <1>3 DEF Listen, Entered
  <2>2. /\ Len(sockets') = Len(sockets) + 1
        /\ \A i \in 1 .. Len(sockets) : sockets'[i] = sockets[i]
        /\ sockets'[Len(sockets) + 1].localPort \in ListenPorts
    BY <1>0, <2>1 DEF Socket
  <2>3. PortsUsed(sockets', freePort, n)
    BY <2>2, PortsListen
  <2> QED BY <1>3, <2>3 DEF Listen
<1>4. ASSUME NEW i \in DOMAIN sockets, NEW e, e.localPort = sockets[i].localPort,
             sockets' = [sockets EXCEPT ![i] = e], UNCHANGED freePort
      PROVE  \E k : PortsUsed(sockets', freePort', k)
  <2>1. /\ Len(sockets') = Len(sockets)
        /\ \A j \in 1 .. Len(sockets) : sockets'[j].localPort = sockets[j].localPort
    BY <1>0, <1>4
  <2>2. PortsUsed(sockets', freePort, n)
    BY <2>1, PortsStay
  <2> QED BY <1>4, <2>2
<1>5. ASSUME NEW i \in DOMAIN sockets, Bind(i)
      PROVE  \E k : PortsUsed(sockets', freePort', k)
  <2>1. [sockets[i] EXCEPT !.handler = TRUE].localPort = sockets[i].localPort
    BY <1>0, <1>5, SocketTyped DEF Records
  <2> QED BY <1>4, <1>5, <2>1 DEF Bind
<1>6. ASSUME NEW r \in Remotes, NEW port \in AllPorts,
             OnInternetProtocolReceived(r, port)
      PROVE  \E k : PortsUsed(sockets', freePort', k)
  <2> PICK i : i = Found(r, port)
    OBVIOUS
  <2>1. i \in DOMAIN sockets
    BY <1>0, <1>6, FoundMatches DEF OnInternetProtocolReceived
  <2> DEFINE e == IF sockets[i].listening THEN Taken(sockets[i], r) ELSE sockets[i]
  <2>2. e.localPort = sockets[i].localPort
    BY <2>1, SocketTyped DEF Records, Taken
  <2>3. sockets' = [sockets EXCEPT ![i] = e] /\ UNCHANGED freePort
    BY <1>6 DEF OnInternetProtocolReceived
  <2> HIDE DEF e
  <2> QED BY <1>4, <2>1, <2>2, <2>3
<1> QED BY <1>1, <1>2, <1>3, <1>5, <1>6 DEF Next, vars, UdpNext, Disconnect

(* The datagrams that answer a UDP socket reach it, until the ports go     *)
(* round.                                                                  *)
THEOREM DatagramsReachTheirSocket == Spec => []OwnDatagrams
<1> DEFINE PInv == UdpInv /\ \E n : PortsUsed(sockets, freePort, n)
<1>1. Init => PInv
  <2> SUFFICES ASSUME Init PROVE PInv
    OBVIOUS
  <2>1. UdpInv
    BY PortsAssumption DEF Init, UdpInit, UdpInv, OneSenderEach, TypeOK
  <2>2. PortsUsed(sockets, freePort, 0)
    BY PortsAssumption DEF Init, UdpInit, PortsUsed, PortAt, AllPorts
  <2> QED BY <2>1, <2>2
<1>2. PInv /\ [Next]_vars => PInv'
  BY UdpInvStep, UdpPortsStep
<1>3. PInv => OwnDatagrams
  <2> SUFFICES ASSUME PInv, Len(sockets) <= PortSpace, NEW i \in DOMAIN sockets,
                      sockets[i].localPort \notin ListenPorts
               PROVE  Found(sockets[i].remote, sockets[i].localPort) = i
    BY DEF OwnDatagrams
  <2> PICK n : PortsUsed(sockets, freePort, n)
    OBVIOUS
  <2> PICK j : j = Found(sockets[i].remote, sockets[i].localPort)
    OBVIOUS
  <2>1. Len(sockets) \in Nat /\ i \in 1 .. Len(sockets)
    BY DEF UdpInv, OneSenderEach, TypeOK
  <2>2. j # 0
    <3> DEFINE I == {k \in 1 .. Len(sockets) :
                       Matches(k, sockets[i].remote, sockets[i].localPort)}
    <3>1. i \in I
      BY <2>1 DEF Matches, IsFrom
    <3>2. j = IF I # {} THEN Min(I) ELSE 0
      BY DEF Found, SelectInSeq, Matches
    <3>3. I \in SUBSET Nat /\ 0 \notin I
      BY <2>1
    <3>4. Min(I) \in I
      BY <3>1, <3>3, LeastExists
    <3> QED BY <3>1, <3>2, <3>3, <3>4
  <2>3. /\ j \in 1 .. Len(sockets)
        /\ sockets[j].localPort = sockets[i].localPort
    BY <2>1, <2>2, FoundMatches DEF Matches, Listens, IsFrom
  <2>4. n <= PortSpace
    BY <2>1, PortsAssumption DEF PortsUsed
  <2> QED BY <2>1, <2>3, <2>4 DEF PortsUsed
<1> QED BY <1>1, <1>2, <1>3, PTL DEF Spec

-----------------------------------------------------------------------------
(* TCP: what a segment leaves of its socket                                *)

(* An active socket that is CLOSED stays so.                               *)
LEMMA ReceivedKeeps ==
    ASSUME NEW s, IsSocket(s), NEW m, NEW o \in Received(s, m)
    PROVE  /\ IsSocket(o.sock) /\ o.sock.passive = s.passive
           /\ s.state = "CLOSED" /\ ~ s.passive => o.sock.state = "CLOSED"
<1>1. Moves(s, m, o.sock)
  BY ReceivedMoves
<1> QED BY <1>1 DEF Moves, Turns, Connected

-----------------------------------------------------------------------------
(* TCP: the table                                                          *)

IsEntry(e) == e = Entry(e.localPort, e.remote, e.sock) /\ IsSocket(e.sock)

Entries(t) == {t[k] : k \in 1 .. Len(t)}

IsTable(t) == t \in Seq(Entries(t)) /\ \A k \in 1 .. Len(t) : IsEntry(t[k])

LEMMA TableOf ==
    ASSUME NEW S, NEW t \in Seq(S)
    PROVE  t \in Seq(Entries(t)) /\ Len(t) \in Nat
<1>1. Len(t) \in Nat /\ t \in [1 .. Len(t) -> S]
  BY LenProperties
<1>2. t \in [1 .. Len(t) -> Entries(t)]
  BY <1>1 DEF Entries
<1> QED BY <1>1, <1>2

LEMMA AppendIsTable ==
    ASSUME NEW t, IsTable(t), NEW e, IsEntry(e)
    PROVE  /\ IsTable(Append(t, e)) /\ Len(t) \in Nat
           /\ Len(Append(t, e)) = Len(t) + 1
           /\ \A k \in 1 .. Len(t) : Append(t, e)[k] = t[k]
<1> DEFINE S == Entries(t) \cup {e}
           u == Append(t, e)
<1>1. t \in Seq(S)
  BY SeqMonotonic DEF IsTable
<1>2. /\ u \in Seq(S) /\ Len(u) = Len(t) + 1 /\ Len(t) \in Nat
      /\ \A k \in 1 .. Len(t) : u[k] = t[k]
      /\ u[Len(t) + 1] = e
  BY <1>1, LenProperties
<1>3. u \in Seq(Entries(u))
  BY <1>2, TableOf
<1>4. \A k \in 1 .. Len(u) : IsEntry(u[k])
  BY <1>2 DEF IsTable
<1> QED BY <1>2, <1>3, <1>4 DEF IsTable

LEMMA ExceptIsTable ==
    ASSUME NEW t, IsTable(t), NEW i \in 1 .. Len(t), NEW e, IsEntry(e)
    PROVE  /\ IsTable([t EXCEPT ![i] = e]) /\ Len(t) \in Nat
           /\ Len([t EXCEPT ![i] = e]) = Len(t)
           /\ \A k \in 1 .. Len(t) :
                 [t EXCEPT ![i] = e][k] = IF k = i THEN e ELSE t[k]
<1> DEFINE S == Entries(t) \cup {e}
           u == [t EXCEPT ![i] = e]
<1>1. t \in Seq(S) /\ e \in S
  BY SeqMonotonic DEF IsTable
<1>2. /\ u \in Seq(S) /\ Len(u) = Len(t) /\ Len(t) \in Nat
      /\ \A k \in 1 .. Len(t) : u[k] = IF k = i THEN e ELSE t[k]
  BY <1>1, LenProperties, ExceptSeq
<1>3. u \in Seq(Entries(u))
  BY <1>2, TableOf
<1>4. \A k \in 1 .. Len(u) : IsEntry(u[k])
  BY <1>2 DEF IsTable
<1> QED BY <1>2, <1>3, <1>4 DEF IsTable

(* What the search returns.                                                *)
First(t, r, p, m) == SelectInSeq(t, LAMBDA e : IsFor(e, r, p, m))

LEMMA FirstMatches ==
    ASSUME NEW t, NEW r, NEW p, NEW m, Len(t) \in Nat
    PROVE  /\ First(t, r, p, m) # 0 =>
                 /\ First(t, r, p, m) \in 1 .. Len(t)
                 /\ IsFor(t[First(t, r, p, m)], r, p, m)
           /\ \A i \in 1 .. Len(t) :
                 IsFor(t[i], r, p, m) => First(t, r, p, m) \in 1 .. i
<1> DEFINE I == {k \in 1 .. Len(t) : IsFor(t[k], r, p, m)}
<1>1. First(t, r, p, m) = IF I # {} THEN Min(I) ELSE 0
  BY DEF First, SelectInSeq
<1>2. I \in SUBSET Nat /\ I \in SUBSET (1 .. Len(t))
  OBVIOUS
<1>3. I # {} => Min(I) \in I /\ \A n \in I : Min(I) <= n
  BY <1>2, LeastExists
<1>4. ASSUME NEW i \in 1 .. Len(t), IsFor(t[i], r, p, m)
      PROVE  First(t, r, p, m) \in 1 .. i
  <2>1. i \in I
    BY <1>4
  <2>2. Min(I) \in 1 .. Len(t) /\ Min(I) <= i
    BY <1>2, <1>3, <2>1
  <2> HIDE DEF I
  <2> QED BY <1>1, <2>1, <2>2
<1> QED BY <1>1, <1>3, <1>4

-----------------------------------------------------------------------------
(* TCP: a closed socket stays in the way                                   *)

TableInv == IsTable(table) /\ (calling # "no" => Len(table) # 0)

IsClosed(i) ==
    /\ i \in 1 .. Len(table)
    /\ table[i].sock.state = "CLOSED" /\ ~ table[i].sock.passive
    /\ ~ (calling = "entered" /\ i = Caller)

Stays(i) ==
    /\ IsClosed(i)'
    /\ table'[i].localPort = table[i].localPort
    /\ table'[i].remote = table[i].remote

LEMMA EntryIsEntry ==
    ASSUME NEW p, NEW r, NEW s, IsSocket(s)
    PROVE  /\ IsEntry(Entry(p, r, s))
           /\ Entry(p, r, s).localPort = p /\ Entry(p, r, s).remote = r
           /\ Entry(p, r, s).sock = s
BY DEF IsEntry, Entry

LEMMA NewIsSocket ==
    ASSUME NEW state, NEW passive, NEW bound, NEW ack
    PROVE  IsSocket(NewSocket(state, passive, bound, ack))
BY DEF IsSocket, NewSocket

LEMMA EntryExcept ==
    ASSUME NEW e, IsEntry(e), NEW s
    PROVE  [e EXCEPT !.sock = s] = Entry(e.localPort, e.remote, s)
<1>1. \A p, r, t : [Entry(p, r, t) EXCEPT !.sock = s] = Entry(p, r, s)
  BY DEF Entry
<1>2. e = Entry(e.localPort, e.remote, e.sock)
  BY DEF IsEntry
<1> QED BY <1>1, <1>2

(* An entry is appended.                                                   *)
LEMMA AppendStays ==
    ASSUME TableInv, NEW e, IsEntry(e), table' = Append(table, e), calling = "no"
    PROVE  TableInv' /\ \A i : IsClosed(i) => Stays(i)
<1>1. /\ IsTable(table') /\ Len(table) \in Nat /\ Len(table') = Len(table) + 1
      /\ \A k \in 1 .. Len(table) : table'[k] = table[k]
  BY AppendIsTable DEF TableInv
<1>2. TableInv'
  BY <1>1 DEF TableInv
<1>3. ASSUME NEW i, IsClosed(i) PROVE Stays(i)
  BY <1>1, <1>3 DEF IsClosed, Stays, Caller
<1> QED BY <1>2, <1>3

(* The entry of one socket changes, which Connect is not about to change   *)
(* if it is closed.                                                        *)
LEMMA ExceptStays ==
    ASSUME TableInv, NEW j \in 1 .. Len(table), NEW e, IsEntry(e),
           table' = [table EXCEPT ![j] = e],
           IsClosed(j) => /\ e.sock.state = "CLOSED" /\ ~ e.sock.passive
                          /\ e.localPort = table[j].localPort
                          /\ e.remote = table[j].remote,
           calling' \in {calling, "sent", "no"}
    PROVE  TableInv' /\ \A i : IsClosed(i) => Stays(i)
<1> DEFINE u == [table EXCEPT ![j] = e]
<1>0. /\ IsTable(u) /\ Len(table) \in Nat /\ Len(u) = Len(table)
      /\ \A k \in 1 .. Len(table) : u[k] = IF k = j THEN e ELSE table[k]
  <2>1. IsTable(table)
    BY DEF TableInv
  <2> QED BY ONLY <2>1, ExceptIsTable, IsEntry(e)
<1>1. /\ IsTable(table') /\ Len(table) \in Nat /\ Len(table') = Len(table)
      /\ \A k \in 1 .. Len(table) : table'[k] = IF k = j THEN e ELSE table[k]
  <2>1. table' = u
    BY Zenon
  <2> HIDE DEF u
  <2> QED BY ONLY <1>0, <2>1
<1>2. TableInv'
  BY <1>1 DEF TableInv
<1>3. ASSUME NEW i, IsClosed(i) PROVE Stays(i)
  BY <1>1, <1>3 DEF IsClosed, Stays, Caller
<1> QED BY <1>2, <1>3

LEMMA CallStays ==
    ASSUME TableInv, SendSyn \/ CountSyn
    PROVE  TableInv' /\ \A i : IsClosed(i) => Stays(i)
<1> DEFINE e == table[Caller]
<1>1. Caller \in 1 .. Len(table) /\ IsEntry(e)
  BY DEF TableInv, IsTable, SendSyn, CountSyn, Caller
<1>2. CASE SendSyn
  <2> DEFINE new == Entry(e.localPort, e.remote, [e.sock EXCEPT !.state = "SYN_SENT"])
  <2>1. IsEntry(new)
    BY <1>1, EntryIsEntry DEF IsEntry, IsSocket
  <2>2. table' = [table EXCEPT ![Caller] = new]
    <3>1. table' = [table EXCEPT ![Caller] = [e EXCEPT !.sock = [e.sock EXCEPT !.state = "SYN_SENT"]]]
      BY <1>2 DEF SendSyn
    <3> QED BY <1>1, <3>1, EntryExcept
  <2>3. ~ IsClosed(Caller) /\ calling' = "sent"
    BY <1>2 DEF IsClosed, SendSyn
  <2> HIDE DEF new
  <2> QED BY <1>1, <2>1, <2>2, <2>3, ExceptStays
<1>3. CASE CountSyn
  <2> DEFINE new == Entry(e.localPort, e.remote, [e.sock EXCEPT !.caux = @ + 1])
  <2>1. /\ IsEntry(new)
        /\ new.localPort = e.localPort /\ new.remote = e.remote
        /\ new.sock.state = e.sock.state /\ new.sock.passive = e.sock.passive
    BY <1>1, EntryIsEntry DEF IsEntry, IsSocket
  <2>2. table' = [table EXCEPT ![Caller] = new]
    <3>1. table' = [table EXCEPT ![Caller] = [e EXCEPT !.sock = [e.sock EXCEPT !.caux = @ + 1]]]
      BY <1>3 DEF CountSyn
    <3> QED BY <1>1, <3>1, EntryExcept
  <2>3. calling' = "no"
    BY <1>3 DEF CountSyn
  <2> HIDE DEF new
  <2> QED BY <1>1, <2>1, <2>2, <2>3, ExceptStays DEF IsClosed
<1> QED BY <1>2, <1>3

LEMMA FindsIsFirst ==
    ASSUME NEW r, NEW p, NEW m
    PROVE  Finds(r, p, m) = First(table, r, p, m)
BY DEF Finds, First, SelectInSeq

LEMMA SegmentStays ==
    ASSUME TableInv, NEW r, NEW p, NEW m \in RemoteSegments, TcpReceived(r, p, m)
    PROVE  TableInv' /\ \A i : IsClosed(i) => Stays(i)
<1> DEFINE j == Finds(r, p, m)
<1>1. Len(table) \in Nat
  BY TableOf DEF TableInv, IsTable
<1>2. j \in 1 .. Len(table) /\ IsFor(table[j], r, p, m)
  BY <1>1, FirstMatches, FindsIsFirst DEF TcpReceived
<1>3. PICK o \in Received(table[j].sock, m) :
         table' = [table EXCEPT ![j] =
                      Entry(p,
                            IF table[j].sock.state = "LISTEN" /\ IsSyn(m)
                                  /\ o.sock.state # "LISTEN"
                            THEN r ELSE table[j].remote,
                            o.sock)]
  BY DEF TcpReceived
<1> HIDE DEF j
<1> DEFINE s == table[j].sock
           e == Entry(p, IF s.state = "LISTEN" /\ IsSyn(m) /\ o.sock.state # "LISTEN"
                         THEN r ELSE table[j].remote, o.sock)
<1>4. IsSocket(s)
  BY <1>2 DEF TableInv, IsTable, IsEntry
<1>5. /\ IsSocket(o.sock) /\ o.sock.passive = s.passive
      /\ s.state = "CLOSED" /\ ~ s.passive => o.sock.state = "CLOSED"
  BY <1>4, ReceivedKeeps
<1>6. IsEntry(e)
  BY <1>5, EntryIsEntry
<1>7. table[j].localPort = p
  BY <1>2 DEF IsFor
<1>8. IsClosed(j) => /\ e.sock.state = "CLOSED" /\ ~ e.sock.passive
                     /\ e.localPort = table[j].localPort
                     /\ e.remote = table[j].remote
  BY <1>5, <1>7, EntryIsEntry DEF IsClosed
<1>9. calling' = calling
  BY DEF TcpReceived
<1> HIDE DEF e
<1> QED BY <1>2, <1>3, <1>6, <1>8, <1>9, ExceptStays DEF e

LEMMA TcpStays ==
    ASSUME TableInv, TcpNext
    PROVE  TableInv' /\ \A i : IsClosed(i) => Stays(i)
<1>1. ASSUME NEW port \in ListenPorts, TcpListen(port)
      PROVE  TableInv' /\ \A i : IsClosed(i) => Stays(i)
  <2>1. PICK o \in Listening, r \in UnsetRemotes :
           table' = Append(table, Entry(port, r, o.sock))
    BY <1>1 DEF TcpListen
  <2>2. IsSocket(o.sock)
    <3>1. PICK a \in UnsetAcks : o \in Quietly(NewSocket("LISTEN", TRUE, FALSE, a))
      BY DEF Listening
    <3>2. o = Outcome(NewSocket("LISTEN", TRUE, FALSE, a), <<>>)
      BY <3>1 DEF Quietly
    <3> QED BY <3>2, NewIsSocket DEF Outcome
  <2>3. IsEntry(Entry(port, r, o.sock))
    BY <2>2, EntryIsEntry
  <2> QED BY <1>1, <2>1, <2>3, AppendStays DEF TcpListen
<1>2. ASSUME NEW r \in Remotes, EnterTable(r)
      PROVE  TableInv' /\ \A i : IsClosed(i) => Stays(i)
  <2>1. PICK a \in UnsetAcks :
           table' = Append(table, Entry(nextPort, r,
                                        NewSocket("CLOSED", FALSE, TRUE, a)))
    BY <1>2 DEF EnterTable
  <2>2. IsEntry(Entry(nextPort, r, NewSocket("CLOSED", FALSE, TRUE, a)))
    BY NewIsSocket, EntryIsEntry
  <2> QED BY <1>2, <2>1, <2>2, AppendStays DEF EnterTable
<1>3. ASSUME NEW r \in Remotes, NEW p \in AllPorts, NEW m \in RemoteSegments,
             TcpReceived(r, p, m)
      PROVE  TableInv' /\ \A i : IsClosed(i) => Stays(i)
  BY <1>3, SegmentStays
<1> QED BY <1>1, <1>2, <1>3, CallStays DEF TcpNext

(* Who called and was refused is refused for ever, unless a socket in      *)
(* front takes the call.                                                   *)
THEOREM RefusalsLast == Spec => RefusedForEver
<1>1. Init => TableInv
  BY DEF Init, TcpInit, TableInv, IsTable, Entries
<1>2. ASSUME TableInv, [Next]_vars
      PROVE  /\ TableInv'
             /\ \A i : IsClosed(i) => Stays(i)
  <2>1. CASE UNCHANGED tcp
    BY <1>2, <2>1 DEF tcp, TableInv, IsClosed, Stays, Caller
  <2>2. CASE TcpNext
    BY <1>2, <2>2, TcpStays
  <2> QED BY <1>2, <2>1, <2>2 DEF Next, vars
<1>3. ASSUME TableInv, [Next]_vars, NEW r \in Remotes, NEW port \in AllPorts,
             Refuses(r, port)
      PROVE  Refuses(r, port)' \/ CalledAt(r, port)' < CalledAt(r, port)
  <2> DEFINE m == Seg({"SYN"}, 0, 0, NoByte)
  <2>1. /\ CalledAt(r, port) = First(table, r, port, m)
        /\ CalledAt(r, port)' = First(table', r, port, m)
    BY DEF CalledAt, Finds, First, SelectInSeq
  <2>2. Len(table) \in Nat /\ Len(table') \in Nat
    BY <1>2, <1>3, TableOf DEF TableInv, IsTable
  <2> PICK i : i = First(table, r, port, m)
    OBVIOUS
  <2> PICK j : j = First(table', r, port, m)
    OBVIOUS
  <2>3. /\ i # 0 /\ ~ (calling = "entered" /\ i = Caller)
        /\ table[i].sock.state = "CLOSED" /\ ~ table[i].sock.passive
    BY <1>3, <2>1 DEF Refuses
  <2>4. i \in 1 .. Len(table) /\ IsFor(table[i], r, port, m)
    BY <2>2, <2>3, FirstMatches
  <2>5. IsClosed(i)
    BY <2>3, <2>4 DEF IsClosed
  <2>6. Stays(i)
    BY <1>2, <1>3, <2>5
  <2>7. i \in 1 .. Len(table') /\ IsFor(table'[i], r, port, m)
    BY <2>3, <2>4, <2>6 DEF Stays, IsClosed, IsFor
  <2>8. j \in 1 .. i
    BY <2>2, <2>7, FirstMatches
  <2>9. CASE j = i
    BY <2>1, <2>6, <2>7, <2>9 DEF Refuses, Stays, IsClosed
  <2>10. CASE j < i
    BY <2>1, <2>10
  <2> QED BY <2>4, <2>8, <2>9, <2>10
<1>4. TableInv /\ [Next]_vars => [RefusalsStay]_vars
  BY <1>3 DEF RefusalsStay
<1> QED BY <1>1, <1>2, <1>4, PTL DEF Spec, RefusedForEver

-----------------------------------------------------------------------------
(* TCP: nothing that was not sent counts as acknowledged                   *)

(* How far the Connect of a socket is, and what an early answer takes away. *)
CallOf(i) == IF i = Caller THEN calling ELSE "no"

Lead(i) == IF i \in early THEN 1 ELSE 0

(* The remotes acknowledge a SYN at most: what is open has counted its SYN, *)
(* or was answered before it could.                                        *)
Counts(s, call, lead) ==
    /\ s.caux \in Nat /\ s.nxt \in Nat /\ s.una \in Int
    /\ s.passive \in BOOLEAN
    /\ s.state = "LISTEN" => s.passive
    /\ s.passive /\ s.state \notin {"LISTEN", "CLOSED"} => s.caux >= 1
    /\ ~ s.passive /\ s.state = "SYN_RECEIVED" => s.simultaneous_open
    /\ ~ s.passive /\ call = "no" => s.caux >= 1
    /\ call = "entered" => ~ s.passive /\ s.state = "CLOSED"
    /\ s.state = "ESTABLISHED" =>
          (s.caux >= 1 \/ lead = 1) /\ s.una <= s.nxt + lead

CountsInv ==
    /\ TableInv /\ calling \in {"no", "entered", "sent"}
    /\ \A i \in 1 .. Len(table) : Counts(table[i].sock, CallOf(i), Lead(i))

LEMMA MovesCounts ==
    ASSUME NEW s, NEW call \in {"no", "entered", "sent"},
           NEW lead \in {0, 1}, Counts(s, call, lead),
           NEW m, m.ack \in {0, 1}, NEW t, Moves(s, m, t),
           NEW next \in {lead, 1},
           call = "sent" /\ {"SYN", "ACK"} \subseteq m.flags => next = 1
    PROVE  Counts(t, call, next)
<1>1. /\ t.passive = s.passive /\ t.nxt = s.nxt
      /\ t.una \in {s.una, m.ack - s.caux, m.ack - t.caux}
      /\ s.caux <= t.caux /\ t.caux \in Nat
      /\ s.caux \in Nat /\ s.nxt \in Nat /\ s.una \in Int
      /\ s.passive \in BOOLEAN /\ t.una \in Int
  BY DEF Counts, Moves, Turns, Stood
<1>2. Turns(s, m, t)
  BY DEF Moves
<1>3. t.state = "LISTEN" => t.passive
  BY <1>1, <1>2 DEF Counts, Turns, Stood, Halves, Connected
<1>4. t.passive /\ t.state \notin {"LISTEN", "CLOSED"} => t.caux >= 1
  BY <1>1, <1>2 DEF Counts, Turns, Stood, Halves, Connected
<1>5. ~ t.passive /\ t.state = "SYN_RECEIVED" => t.simultaneous_open
  BY <1>1, <1>2 DEF Counts, Turns, Stood, Halves, Connected
<1>6. ~ t.passive /\ call = "no" => t.caux >= 1
  BY <1>1 DEF Counts
<1>7. call = "entered" => ~ t.passive /\ t.state = "CLOSED"
  BY <1>1, <1>2 DEF Counts, Turns, Stood, Halves, Connected
<1>8. ASSUME t.state = "ESTABLISHED"
      PROVE  (t.caux >= 1 \/ next = 1) /\ t.una <= t.nxt + next
  <2>1. CASE s.state = "ESTABLISHED"
    BY <1>1, <1>2, <1>8, <2>1 DEF Counts, Turns, Stood, Halves, Connected
  <2>2. CASE s.state # "ESTABLISHED"
    <3>1. /\ t.una = m.ack - t.caux /\ s.state \in {"SYN_SENT", "SYN_RECEIVED"}
          /\ \/ {"SYN", "ACK"} \subseteq m.flags
             \/ s.state = "SYN_RECEIVED" /\ ~ s.simultaneous_open
      BY <1>2, <1>8, <2>2 DEF Turns, Halves, Connected
    <3>2. t.caux >= 1 \/ next = 1
      BY <1>1, <3>1 DEF Counts
    <3> QED BY <1>1, <3>1, <3>2
  <2> QED BY <2>1, <2>2
<1> QED BY <1>1, <1>3, <1>4, <1>5, <1>6, <1>7, <1>8 DEF Counts

LEMMA AppendCounts ==
    ASSUME CountsInv, NEW e, IsEntry(e), table' = Append(table, e), calling = "no",
           calling' \in {"no", "entered"}, early' = early,
           \A lead \in {0, 1} : Counts(e.sock, calling', lead)
    PROVE  CountsInv'
<1>1. TableInv' /\ Len(table) \in Nat /\ Len(table') = Len(table) + 1
      /\ \A k \in 1 .. Len(table) : table'[k] = table[k]
  BY AppendStays, AppendIsTable DEF TableInv, CountsInv
<1>2. table'[Len(table) + 1] = e
  BY <1>1, TableOf, AppendProperties DEF TableInv, CountsInv, IsTable
<1>3. ASSUME NEW i \in 1 .. Len(table')
      PROVE  Counts(table'[i].sock, CallOf(i)', Lead(i)')
  <2>1. CASE i = Len(table')
    BY <1>1, <1>2, <2>1 DEF CallOf, Lead, Caller
  <2>2. CASE i # Len(table')
    <3>1. i \in 1 .. Len(table) /\ table'[i] = table[i]
      BY <1>1, <2>2
    <3>2. CallOf(i)' = "no" /\ CallOf(i) = "no" /\ Lead(i)' = Lead(i)
      BY <1>1, <2>2 DEF CallOf, Lead, Caller
    <3> QED BY <3>1, <3>2 DEF CountsInv
  <2> QED BY <2>1, <2>2
<1> QED BY <1>1, <1>3 DEF CountsInv

LEMMA ExceptCounts ==
    ASSUME CountsInv, NEW j \in 1 .. Len(table), NEW e, IsEntry(e),
           table' = [table EXCEPT ![j] = e],
           calling' \in {"no", "entered", "sent"},
           calling' = calling \/ j = Caller,
           early' \in {early, early \cup {j}},
           Counts(e.sock, CallOf(j)', Lead(j)'), TableInv'
    PROVE  CountsInv'
<1> DEFINE u == [table EXCEPT ![j] = e]
<1>0. /\ Len(table) \in Nat /\ Len(u) = Len(table)
      /\ \A k \in 1 .. Len(table) : u[k] = IF k = j THEN e ELSE table[k]
  <2>1. IsTable(table)
    BY DEF TableInv, CountsInv
  <2> QED BY ONLY <2>1, ExceptIsTable, IsEntry(e)
<1>1. /\ Len(table) \in Nat /\ Len(table') = Len(table)
      /\ \A k \in 1 .. Len(table) : table'[k] = IF k = j THEN e ELSE table[k]
  <2>1. table' = u
    BY Zenon
  <2> HIDE DEF u
  <2> QED BY ONLY <1>0, <2>1
<1> HIDE DEF u
<1>2. ASSUME NEW i \in 1 .. Len(table')
      PROVE  Counts(table'[i].sock, CallOf(i)', Lead(i)')
  <2>1. CASE i = j
    BY <1>1, <2>1
  <2>2. CASE i # j
    <3>1. i \in 1 .. Len(table) /\ table'[i] = table[i]
      BY <1>1, <2>2
    <3>2. CallOf(i)' = CallOf(i) /\ Lead(i)' = Lead(i)
      BY <1>1, <2>2 DEF CallOf, Lead, Caller
    <3> QED BY <3>1, <3>2 DEF CountsInv
  <2> QED BY <2>1, <2>2
<1> QED BY <1>1, <1>2 DEF CountsInv

LEMMA CallCounts ==
    ASSUME CountsInv, SendSyn \/ CountSyn
    PROVE  CountsInv'
<1> PICK j : j = Caller
  OBVIOUS
<1> DEFINE e == table[j]
<1>1. j \in 1 .. Len(table) /\ IsEntry(e)
  BY DEF CountsInv, TableInv, IsTable, SendSyn, CountSyn, Caller
<1>2. CallOf(j) = calling /\ Lead(j) \in {0, 1}
      /\ Counts(e.sock, calling, Lead(j))
  BY <1>1 DEF CountsInv, CallOf, Lead
<1>3. TableInv' /\ early' = early
  BY CallStays DEF CountsInv, SendSyn, CountSyn
<1>4. CASE SendSyn
  <2> DEFINE s == [e.sock EXCEPT !.state = "SYN_SENT"]
             new == Entry(e.localPort, e.remote, s)
  <2>1. /\ IsSocket(s) /\ s.state = "SYN_SENT" /\ s.caux = e.sock.caux
        /\ s.nxt = e.sock.nxt /\ s.una = e.sock.una /\ s.passive = e.sock.passive
    BY <1>1 DEF IsEntry, IsSocket
  <2>2. IsEntry(new) /\ new.sock = s
    BY <2>1, EntryIsEntry
  <2>3. table' = [table EXCEPT ![j] = new]
    <3>1. table' = [table EXCEPT ![j] = [e EXCEPT !.sock = s]]
      BY <1>4 DEF SendSyn
    <3> QED BY <1>1, <3>1, EntryExcept
  <2>4. calling = "entered" /\ calling' = "sent"
    BY <1>4 DEF SendSyn
  <2> HIDE DEF s, e
  <2>5. \A lead : Counts(s, "sent", lead)
    BY <1>2, <2>1, <2>4 DEF Counts
  <2>6. Counts(new.sock, CallOf(j)', Lead(j)')
    <3>1. CallOf(j)' = "sent"
      <4>1. Len(table') = Len(table)
        BY <1>1, <2>2, <2>3, ExceptIsTable DEF CountsInv, TableInv
      <4> QED BY <2>4, <4>1 DEF CallOf, Caller
    <3> QED BY <2>2, <2>5, <3>1
  <2> HIDE DEF new
  <2> QED BY <1>1, <1>3, <2>2, <2>3, <2>4, <2>6, ExceptCounts
<1>5. CASE CountSyn
  <2> DEFINE s == [e.sock EXCEPT !.caux = @ + 1]
             new == Entry(e.localPort, e.remote, s)
  <2>1. /\ IsSocket(s) /\ s.state = e.sock.state /\ s.caux = e.sock.caux + 1
        /\ s.nxt = e.sock.nxt /\ s.una = e.sock.una /\ s.passive = e.sock.passive
        /\ s.simultaneous_open = e.sock.simultaneous_open
    BY <1>1 DEF IsEntry, IsSocket
  <2>2. IsEntry(new) /\ new.sock = s
    BY <2>1, EntryIsEntry
  <2>3. table' = [table EXCEPT ![j] = new]
    <3>1. table' = [table EXCEPT ![j] = [e EXCEPT !.sock = s]]
      BY <1>5 DEF CountSyn
    <3> QED BY <1>1, <3>1, EntryExcept
  <2>4. calling = "sent" /\ calling' = "no"
    BY <1>5 DEF CountSyn
  <2> HIDE DEF s, e
  <2>5. Counts(s, "no", Lead(j))
    BY <1>2, <2>1, <2>4 DEF Counts
  <2>6. Counts(new.sock, CallOf(j)', Lead(j)')
    <3>1. CallOf(j)' = "no"
      <4>1. Len(table') = Len(table)
        BY <1>1, <2>2, <2>3, ExceptIsTable DEF CountsInv, TableInv
      <4> QED BY <2>4, <4>1 DEF CallOf, Caller
    <3>2. Lead(j)' = Lead(j)
      BY <1>3 DEF Lead
    <3> QED BY <2>2, <2>5, <3>1, <3>2
  <2> HIDE DEF new
  <2> QED BY <1>1, <1>3, <2>2, <2>3, <2>4, <2>6, ExceptCounts
<1> QED BY <1>4, <1>5

LEMMA SegmentCounts ==
    ASSUME CountsInv, NEW r, NEW p, NEW m \in RemoteSegments, TcpReceived(r, p, m)
    PROVE  CountsInv'
<1> PICK j : j = Finds(r, p, m)
  OBVIOUS
<1>1. TableInv /\ Len(table) \in Nat
  BY TableOf DEF TableInv, IsTable, CountsInv
<1>2. j \in 1 .. Len(table)
  BY <1>1, FirstMatches, FindsIsFirst DEF TcpReceived
<1> PICK o \in Received(table[j].sock, m) :
       \E q : table' = [table EXCEPT ![j] = Entry(p, q, o.sock)]
  BY DEF TcpReceived
<1>3. PICK q : table' = [table EXCEPT ![j] = Entry(p, q, o.sock)]
  OBVIOUS
<1>4. /\ calling' = calling
      /\ early' = IF calling = "sent" /\ j = Caller /\ m.flags = {"SYN", "ACK"}
                  THEN early \cup {j} ELSE early
  BY DEF TcpReceived
<1>5. TableInv'
  BY <1>1, SegmentStays
<1> DEFINE s == table[j].sock
           e == Entry(p, q, o.sock)
<1>6. IsSocket(s) /\ Counts(s, CallOf(j), Lead(j))
  BY <1>2 DEF CountsInv, TableInv, IsTable, IsEntry
<1>7. Moves(s, m, o.sock)
  BY <1>6, ReceivedMoves
<1>8. IsEntry(e) /\ e.sock = o.sock
  BY <1>7, EntryIsEntry DEF Moves
<1> HIDE DEF s, e
<1>9. Len(table') = Len(table)
  BY <1>1, <1>2, <1>3, <1>8, ExceptIsTable DEF TableInv, e
<1>10. CallOf(j)' = CallOf(j) /\ CallOf(j) \in {"no", "entered", "sent"}
  BY <1>4, <1>9 DEF CallOf, Caller, CountsInv
<1>11. m.ack \in {0, 1}
       /\ ({"SYN", "ACK"} \subseteq m.flags => m.flags = {"SYN", "ACK"})
  BY DEF RemoteSegments, Seg
<1>12. /\ Lead(j) \in {0, 1} /\ Lead(j)' \in {Lead(j), 1}
       /\ CallOf(j) = "sent" /\ {"SYN", "ACK"} \subseteq m.flags => Lead(j)' = 1
  BY <1>4, <1>11 DEF Lead, CallOf
<1>13. Counts(o.sock, CallOf(j), Lead(j)')
  BY <1>6, <1>7, <1>10, <1>11, <1>12, MovesCounts
<1> QED
  BY <1>2, <1>3, <1>4, <1>5, <1>8, <1>10, <1>13, ExceptCounts DEF CountsInv, e

LEMMA TcpCounts ==
    ASSUME CountsInv, TcpNext
    PROVE  CountsInv'
<1>1. ASSUME NEW port \in ListenPorts, TcpListen(port) PROVE CountsInv'
  <2>1. PICK o \in Listening, r \in UnsetRemotes :
           table' = Append(table, Entry(port, r, o.sock))
    BY <1>1 DEF TcpListen
  <2>2. PICK a \in UnsetAcks : o = Outcome(NewSocket("LISTEN", TRUE, FALSE, a), <<>>)
    BY DEF Listening, Quietly
  <2> PICK n : n = NewSocket("LISTEN", TRUE, FALSE, a)
    OBVIOUS
  <2>3. IsSocket(o.sock) /\ \A lead \in {0, 1} : Counts(o.sock, "no", lead)
    <3>1. o.sock = n
      BY <2>2 DEF Outcome
    <3>2. IsSocket(n) /\ \A lead \in {0, 1} : Counts(n, "no", lead)
      BY DEF NewSocket, IsSocket, Counts
    <3> QED BY <3>1, <3>2
  <2>4. /\ IsEntry(Entry(port, r, o.sock)) /\ Entry(port, r, o.sock).sock = o.sock
        /\ calling = "no" /\ calling' = "no" /\ early' = early
    BY <1>1, <2>3, EntryIsEntry DEF TcpListen
  <2> QED BY <2>1, <2>3, <2>4, AppendCounts
<1>2. ASSUME NEW r \in Remotes, EnterTable(r) PROVE CountsInv'
  <2>1. PICK a \in UnsetAcks :
           table' = Append(table, Entry(nextPort, r,
                                        NewSocket("CLOSED", FALSE, TRUE, a)))
    BY <1>2 DEF EnterTable
  <2> PICK s : s = NewSocket("CLOSED", FALSE, TRUE, a)
    OBVIOUS
  <2>2. IsSocket(s) /\ \A lead \in {0, 1} : Counts(s, "entered", lead)
    BY DEF NewSocket, IsSocket, Counts
  <2>3. IsEntry(Entry(nextPort, r, s)) /\ Entry(nextPort, r, s).sock = s
    BY ONLY <2>2, EntryIsEntry
  <2>4. calling = "no" /\ calling' = "entered" /\ early' = early
    BY <1>2 DEF EnterTable
  <2> QED BY <2>1, <2>2, <2>3, <2>4, AppendCounts
<1> QED BY <1>1, <1>2, CallCounts, SegmentCounts DEF TcpNext

LEMMA CountsInvInit == Init => CountsInv
BY DEF Init, TcpInit, CountsInv, TableInv, IsTable, Entries

LEMMA CountsInvStep ==
    ASSUME CountsInv, [Next]_vars
    PROVE  CountsInv'
<1>1. CASE UNCHANGED tcp
  BY <1>1 DEF tcp, CountsInv, TableInv, CallOf, Lead, Caller
<1>2. CASE TcpNext
  BY <1>2, TcpCounts
<1> QED BY <1>1, <1>2 DEF Next, vars

(* An open connection has nothing acknowledged that it did not send, save  *)
(* the first byte of one that was answered early.                          *)
THEOREM AcksAreOfWhatWasSent == Spec => []NothingUnsentIsAcked
<1>1. Init => CountsInv
  BY CountsInvInit
<1>2. CountsInv /\ [Next]_vars => CountsInv'
  BY CountsInvStep
<1>3. CountsInv => NothingUnsentIsAcked
  <2> SUFFICES ASSUME CountsInv, NEW i \in DOMAIN table,
                      table[i].sock.state = "ESTABLISHED"
               PROVE  table[i].sock.una <= table[i].sock.nxt + Lead(i)
    BY DEF NothingUnsentIsAcked, Lead
  <2>1. i \in 1 .. Len(table)
    BY LenProperties DEF CountsInv, TableInv, IsTable
  <2> QED BY <2>1 DEF CountsInv, Counts
<1> QED BY <1>1, <1>2, <1>3, PTL DEF Spec

-----------------------------------------------------------------------------
(* TCP: the segments of a connection reach it                              *)

(* No socket in front of a connection that came to a listening one is an   *)
(* end of the same connection.                                             *)
Alone(tab, i) ==
    IsConnected(tab[i]) /\ tab[i].sock.passive =>
        \A j \in 1 .. i - 1 :
            ~ (/\ tab[j].localPort = tab[i].localPort
               /\ tab[j].remote = tab[i].remote)

OwnInv ==
    /\ CountsInv
    /\ \E n : PortsUsed(table, nextPort, n)
    /\ again \in BOOLEAN
    /\ again = FALSE => \A i \in 1 .. Len(table) : Alone(table, i)

LEMMA AppendAlone ==
    ASSUME NEW tab, IsTable(tab), NEW e, IsEntry(e), ~ IsConnected(e),
           \A i \in 1 .. Len(tab) : Alone(tab, i)
    PROVE  \A i \in 1 .. Len(Append(tab, e)) : Alone(Append(tab, e), i)
<1> PICK u : u = Append(tab, e)
  OBVIOUS
<1>1. /\ Len(tab) \in Nat /\ Len(u) = Len(tab) + 1
      /\ \A k \in 1 .. Len(tab) : u[k] = tab[k]
  BY AppendIsTable
<1>2. u[Len(tab) + 1] = e
  BY AppendProperties DEF IsTable
<1>3. ASSUME NEW i \in 1 .. Len(u) PROVE Alone(u, i)
  <2>1. CASE i = Len(tab) + 1
    BY <1>2, <2>1 DEF Alone
  <2>2. CASE i # Len(tab) + 1
    <3>1. i \in 1 .. Len(tab) /\ u[i] = tab[i]
      BY <1>1, <2>2
    <3>2. \A j \in 1 .. i - 1 : u[j] = tab[j]
      BY <1>1, <3>1
    <3> QED BY <3>1, <3>2 DEF Alone
  <2> QED BY <2>1, <2>2
<1> QED BY <1>3

(* One entry changes: it is not connected or is what its remote found, and *)
(* where it comes to be found no connection was.                           *)
LEMMA ExceptAlone ==
    ASSUME NEW tab, IsTable(tab), NEW j \in 1 .. Len(tab), NEW e, IsEntry(e),
           \A i \in 1 .. Len(tab) : Alone(tab, i),
           e.localPort = tab[j].localPort,
           IsConnected(e) /\ e.sock.passive =>
               \A k \in 1 .. j - 1 :
                   ~ (tab[k].localPort = e.localPort /\ tab[k].remote = e.remote),
           e.remote # tab[j].remote =>
               \A k \in 1 .. Len(tab) : k # j /\ IsConnected(tab[k]) =>
                   ~ (tab[k].localPort = e.localPort /\ tab[k].remote = e.remote)
    PROVE  \A i \in 1 .. Len(tab) : Alone([tab EXCEPT ![j] = e], i)
<1> PICK u : u = [tab EXCEPT ![j] = e]
  OBVIOUS
<1>1. /\ Len(tab) \in Nat
      /\ \A k \in 1 .. Len(tab) : u[k] = IF k = j THEN e ELSE tab[k]
  BY ExceptIsTable
<1>2. ASSUME NEW i \in 1 .. Len(tab) PROVE Alone(u, i)
  <2>0. \A k \in 1 .. i - 1 : k \in 1 .. Len(tab)
    BY <1>1
  <2>1. CASE i = j
    <3>1. u[i] = e /\ \A k \in 1 .. i - 1 : u[k] = tab[k]
      BY <1>1, <2>0, <2>1
    <3> QED BY <2>1, <3>1 DEF Alone
  <2>2. CASE i # j
    <3>1. u[i] = tab[i]
      BY <1>1, <2>2
    <3> SUFFICES ASSUME IsConnected(tab[i]), tab[i].sock.passive, NEW k \in 1 .. i - 1
                 PROVE  ~ (/\ u[k].localPort = tab[i].localPort
                           /\ u[k].remote = tab[i].remote)
      BY <3>1 DEF Alone
    <3>2. ~ (/\ tab[k].localPort = tab[i].localPort
             /\ tab[k].remote = tab[i].remote)
      BY DEF Alone
    <3>3. CASE k # j
      BY <1>1, <2>0, <3>2, <3>3
    <3>4. CASE k = j
      BY <1>1, <2>0, <2>2, <3>2, <3>4
    <3> QED BY <3>3, <3>4
  <2> QED BY <2>1, <2>2
<1> QED BY <1>2

LEMMA AppendOwn ==
    ASSUME OwnInv, CountsInv', NEW e, IsEntry(e), ~ IsConnected(e),
           table' = Append(table, e), again' = again,
           \/ e.localPort \in ListenPorts /\ nextPort' = nextPort
           \/ e.localPort = nextPort /\ nextPort' = PortAfter(nextPort)
    PROVE  OwnInv'
<1> PICK tab, u : tab = table /\ u = table'
  OBVIOUS
<1>1. IsTable(tab) /\ u = Append(tab, e)
  BY DEF OwnInv, CountsInv, TableInv
<1>2. /\ Len(tab) \in Nat /\ Len(u) = Len(tab) + 1
      /\ \A k \in 1 .. Len(tab) : u[k] = tab[k]
  BY <1>1, AppendIsTable
<1>3. u[Len(tab) + 1] = e
  BY <1>1, AppendProperties DEF IsTable
<1>4. \E k : PortsUsed(u, nextPort', k)
  <2> PICK n : PortsUsed(tab, nextPort, n)
    BY DEF OwnInv
  <2>1. CASE e.localPort \in ListenPorts /\ nextPort' = nextPort
    <3>1. PortsUsed(u, nextPort, n)
      BY <1>2, <1>3, <2>1, PortsListen
    <3> QED BY <2>1, <3>1
  <2>2. CASE e.localPort = nextPort /\ nextPort' = PortAfter(nextPort)
    <3>1. PortsUsed(u, PortAfter(nextPort), n + 1)
      BY <1>2, <1>3, <2>2, PortsConnect
    <3> QED BY <2>2, <3>1
  <2> QED BY <2>1, <2>2
<1>5. again' = FALSE => \A i \in 1 .. Len(u) : Alone(u, i)
  BY <1>1, AppendAlone DEF OwnInv
<1> QED BY <1>4, <1>5 DEF OwnInv

LEMMA ExceptOwn ==
    ASSUME OwnInv, CountsInv', NEW j \in 1 .. Len(table), NEW e, IsEntry(e),
           table' = [table EXCEPT ![j] = e], nextPort' = nextPort,
           again' \in BOOLEAN, again' = FALSE => again = FALSE,
           e.localPort = table[j].localPort,
           again' = FALSE /\ IsConnected(e) /\ e.sock.passive =>
               \A k \in 1 .. j - 1 :
                   ~ (table[k].localPort = e.localPort /\ table[k].remote = e.remote),
           again' = FALSE /\ e.remote # table[j].remote =>
               \A k \in 1 .. Len(table) : k # j /\ IsConnected(table[k]) =>
                   ~ (table[k].localPort = e.localPort /\ table[k].remote = e.remote)
    PROVE  OwnInv'
<1> PICK tab, u : tab = table /\ u = table'
  OBVIOUS
<1>1. IsTable(tab) /\ u = [tab EXCEPT ![j] = e]
  BY DEF OwnInv, CountsInv, TableInv
<1>2. /\ Len(tab) \in Nat /\ Len(u) = Len(tab)
      /\ \A k \in 1 .. Len(tab) : u[k] = IF k = j THEN e ELSE tab[k]
  BY <1>1, ExceptIsTable
<1>3. \E k : PortsUsed(u, nextPort', k)
  <2> PICK n : PortsUsed(tab, nextPort, n)
    BY DEF OwnInv
  <2>1. \A k \in 1 .. Len(tab) : u[k].localPort = tab[k].localPort
    BY <1>2
  <2>2. PortsUsed(u, nextPort, n)
    BY ONLY <1>2, <2>1, PortsStay, PortsUsed(tab, nextPort, n)
  <2> QED BY <2>2
<1>4. again' = FALSE => \A i \in 1 .. Len(u) : Alone(u, i)
  <2> SUFFICES ASSUME again' = FALSE PROVE \A i \in 1 .. Len(tab) : Alone(u, i)
    BY <1>2
  <2>1. \A i \in 1 .. Len(tab) : Alone(tab, i)
    BY DEF OwnInv
  <2>2. \A i \in 1 .. Len(tab) : Alone([tab EXCEPT ![j] = e], i)
    BY <1>1, <2>1, ExceptAlone
  <2> QED BY <1>1, <2>2
<1> QED BY <1>3, <1>4 DEF OwnInv

LEMMA SegmentOwn ==
    ASSUME OwnInv, CountsInv', NEW r, NEW p, NEW m \in RemoteSegments,
           TcpReceived(r, p, m)
    PROVE  OwnInv'
<1> PICK j : j = Finds(r, p, m)
  OBVIOUS
<1>1. TableInv /\ Len(table) \in Nat
  BY TableOf DEF TableInv, IsTable, CountsInv, OwnInv
<1>2. /\ j \in 1 .. Len(table) /\ IsFor(table[j], r, p, m)
      /\ \A k \in 1 .. j - 1 : ~ IsFor(table[k], r, p, m)
  <2>1. j # 0
    BY DEF TcpReceived
  <2>2. j \in 1 .. Len(table) /\ IsFor(table[j], r, p, m)
    BY <1>1, <2>1, FirstMatches, FindsIsFirst
  <2>3. ASSUME NEW k \in 1 .. j - 1, IsFor(table[k], r, p, m) PROVE FALSE
    <3>1. k \in 1 .. Len(table)
      BY <1>1, <2>2
    <3>2. j \in 1 .. k
      BY <1>1, <2>3, <3>1, FirstMatches, FindsIsFirst
    <3> QED BY <1>1, <2>2, <3>2
  <2> QED BY <2>2, <2>3
<1> DEFINE s == table[j].sock
<1>3. PICK o \in Received(s, m) :
         table' = [table EXCEPT ![j] =
                      Entry(p, IF s.state = "LISTEN" /\ IsSyn(m)
                                     /\ o.sock.state # "LISTEN"
                               THEN r ELSE table[j].remote, o.sock)]
  BY DEF TcpReceived
<1> DEFINE q == IF s.state = "LISTEN" /\ IsSyn(m) /\ o.sock.state # "LISTEN"
                THEN r ELSE table[j].remote
           e == Entry(p, q, o.sock)
<1>4. /\ nextPort' = nextPort
      /\ again' \in BOOLEAN
      /\ again' = FALSE => again = FALSE
      /\ again' = FALSE /\ s.state = "LISTEN" =>
            \A k \in DOMAIN table \ {j} :
               ~ (/\ IsConnected(table[k])
                  /\ table[k].localPort = p /\ table[k].remote = r)
  BY DEF TcpReceived, OwnInv
<1>5. IsSocket(s)
  BY <1>1, <1>2 DEF TableInv, IsTable, IsEntry
<1>6. IsSocket(o.sock)
  BY <1>5, ReceivedMoves DEF Moves
<1>7. /\ IsEntry(e) /\ e.localPort = p /\ e.remote = q /\ e.sock = o.sock
  BY ONLY <1>6, EntryIsEntry
<1>8. table[j].localPort = p /\ DOMAIN table = 1 .. Len(table)
  BY <1>1, <1>2, LenProperties DEF IsFor, TableInv, IsTable
<1>9. IsConnected(e) => q = r
  BY <1>2, <1>7 DEF IsConnected, IsFor
<1>10. q # table[j].remote => q = r /\ s.state = "LISTEN"
  OBVIOUS
<1>11. table' = [table EXCEPT ![j] = e]
  BY <1>3
<1> HIDE DEF s, e, q
<1>12. IsConnected(e) =>
          \A k \in 1 .. j - 1 :
             ~ (table[k].localPort = e.localPort /\ table[k].remote = e.remote)
  BY <1>2, <1>7, <1>9 DEF IsFor
<1>13. again' = FALSE /\ e.remote # table[j].remote =>
          \A k \in 1 .. Len(table) : k # j /\ IsConnected(table[k]) =>
             ~ (table[k].localPort = e.localPort /\ table[k].remote = e.remote)
  BY <1>4, <1>7, <1>8, <1>10
<1> QED
  BY <1>2, <1>4, <1>7, <1>8, <1>11, <1>12, <1>13, ExceptOwn

LEMMA CallOwn ==
    ASSUME OwnInv, CountsInv', SendSyn \/ CountSyn
    PROVE  OwnInv'
<1> PICK j : j = Caller
  OBVIOUS
<1> DEFINE e == table[j]
<1>1. j \in 1 .. Len(table) /\ IsEntry(e) /\ Counts(e.sock, CallOf(j), Lead(j))
  BY DEF OwnInv, CountsInv, TableInv, IsTable, SendSyn, CountSyn, Caller
<1>2. nextPort' = nextPort /\ again' = again /\ again \in BOOLEAN
  BY DEF SendSyn, CountSyn, OwnInv
<1>3. \A i \in 1 .. Len(table) : again = FALSE => Alone(table, i)
  BY DEF OwnInv
<1>4. CASE SendSyn
  <2> DEFINE s == [e.sock EXCEPT !.state = "SYN_SENT"]
             new == Entry(e.localPort, e.remote, s)
  <2>1. IsSocket(s) /\ s.passive = e.sock.passive
    BY <1>1 DEF IsEntry, IsSocket
  <2>2. /\ IsEntry(new) /\ new.sock = s
        /\ new.localPort = e.localPort /\ new.remote = e.remote
    BY ONLY <2>1, EntryIsEntry
  <2>3. table' = [table EXCEPT ![j] = new]
    <3>1. table' = [table EXCEPT ![j] = [e EXCEPT !.sock = s]]
      BY <1>4 DEF SendSyn
    <3> QED BY <1>1, <3>1, EntryExcept
  <2>4. ~ e.sock.passive
    BY <1>1, <1>4 DEF SendSyn, CallOf, Counts
  <2> HIDE DEF s, new
  <2> QED BY <1>1, <1>2, <2>1, <2>2, <2>3, <2>4, ExceptOwn
<1>5. CASE CountSyn
  <2> DEFINE s == [e.sock EXCEPT !.caux = @ + 1]
             new == Entry(e.localPort, e.remote, s)
  <2>1. IsSocket(s) /\ s.passive = e.sock.passive /\ s.state = e.sock.state
    BY <1>1 DEF IsEntry, IsSocket
  <2>2. /\ IsEntry(new) /\ new.sock = s
        /\ new.localPort = e.localPort /\ new.remote = e.remote
    BY ONLY <2>1, EntryIsEntry
  <2>3. table' = [table EXCEPT ![j] = new]
    <3>1. table' = [table EXCEPT ![j] = [e EXCEPT !.sock = s]]
      BY <1>5 DEF CountSyn
    <3> QED BY <1>1, <3>1, EntryExcept
  <2> HIDE DEF s, new
  <2>4. again' = FALSE /\ IsConnected(new) /\ new.sock.passive =>
           \A k \in 1 .. j - 1 :
              ~ (/\ table[k].localPort = new.localPort
                 /\ table[k].remote = new.remote)
    BY <1>1, <1>2, <1>3, <2>1, <2>2 DEF Alone, IsConnected
  <2> QED BY <1>1, <1>2, <2>1, <2>2, <2>3, <2>4, ExceptOwn
<1> QED BY <1>4, <1>5

LEMMA TcpOwn ==
    ASSUME OwnInv, CountsInv', TcpNext
    PROVE  OwnInv'
<1>1. ASSUME NEW port \in ListenPorts, TcpListen(port) PROVE OwnInv'
  <2>1. PICK o \in Listening, r \in UnsetRemotes :
           table' = Append(table, Entry(port, r, o.sock))
    BY <1>1 DEF TcpListen
  <2>2. PICK a \in UnsetAcks : o = Outcome(NewSocket("LISTEN", TRUE, FALSE, a), <<>>)
    BY DEF Listening, Quietly
  <2>3. IsSocket(o.sock) /\ o.sock.state = "LISTEN"
    BY <2>2 DEF Outcome, NewSocket, IsSocket
  <2> PICK e : e = Entry(port, r, o.sock)
    OBVIOUS
  <2>4. IsEntry(e) /\ e.sock = o.sock /\ e.localPort = port
    BY ONLY <2>3, EntryIsEntry, e = Entry(port, r, o.sock)
  <2>5. ~ IsConnected(e)
    BY <2>3, <2>4 DEF IsConnected
  <2> QED BY <1>1, <2>1, <2>4, <2>5, AppendOwn DEF TcpListen
<1>2. ASSUME NEW r \in Remotes, EnterTable(r) PROVE OwnInv'
  <2>1. PICK a \in UnsetAcks :
           table' = Append(table, Entry(nextPort, r,
                                        NewSocket("CLOSED", FALSE, TRUE, a)))
    BY <1>2 DEF EnterTable
  <2> PICK s : s = NewSocket("CLOSED", FALSE, TRUE, a)
    OBVIOUS
  <2>2. IsSocket(s) /\ s.state = "CLOSED"
    BY DEF NewSocket, IsSocket
  <2> PICK e : e = Entry(nextPort, r, s)
    OBVIOUS
  <2>3. IsEntry(e) /\ e.sock = s /\ e.localPort = nextPort
    BY ONLY <2>2, EntryIsEntry, e = Entry(nextPort, r, s)
  <2>4. ~ IsConnected(e)
    BY <2>2, <2>3 DEF IsConnected
  <2> QED BY <1>2, <2>1, <2>3, <2>4, AppendOwn DEF EnterTable
<1> QED BY <1>1, <1>2, CallOwn, SegmentOwn DEF TcpNext

(* The segments of a connection reach it, until the ports go round, unless *)
(* a listening socket takes a SYN of a remote that is connected.           *)
THEOREM SegmentsReachTheirSocket == Spec => []OwnSegments
<1>1. Init => OwnInv
  <2> SUFFICES ASSUME Init PROVE OwnInv
    OBVIOUS
  <2>1. CountsInv
    BY CountsInvInit
  <2>2. PortsUsed(table, nextPort, 0)
    BY PortsAssumption DEF Init, TcpInit, PortsUsed, PortAt, AllPorts
  <2>3. Len(table) = 0 /\ again \in BOOLEAN
    BY DEF Init, TcpInit
  <2> QED BY <2>1, <2>2, <2>3 DEF OwnInv
<1>2. OwnInv /\ [Next]_vars => OwnInv'
  <2> SUFFICES ASSUME OwnInv, [Next]_vars PROVE OwnInv'
    OBVIOUS
  <2>1. CountsInv'
    BY CountsInvStep DEF OwnInv
  <2>2. CASE UNCHANGED tcp
    BY <2>1, <2>2 DEF tcp, OwnInv
  <2>3. CASE TcpNext
    BY <2>1, <2>3, TcpOwn
  <2> QED BY <2>2, <2>3 DEF Next, vars
<1>3. OwnInv => OwnSegments
  <2> SUFFICES ASSUME OwnInv, again = FALSE, Len(table) <= PortSpace,
                      NEW i \in DOMAIN table, IsConnected(table[i]),
                      table[i].sock.passive \/ table[i].localPort \notin ListenPorts
               PROVE  Finds(table[i].remote, table[i].localPort, AnAck) = i
    BY DEF OwnSegments, OwnInv
  <2> PICK n : PortsUsed(table, nextPort, n)
    BY DEF OwnInv
  <2>1. Len(table) \in Nat /\ i \in 1 .. Len(table)
    BY LenProperties DEF OwnInv, CountsInv, TableInv, IsTable
  <2> PICK r, p, m : r = table[i].remote /\ p = table[i].localPort /\ m = AnAck
    OBVIOUS
  <2>2. ~ IsSyn(m)
    BY DEF IsSyn, AnAck, Seg
  <2>3. IsFor(table[i], r, p, m)
    BY DEF IsFor
  <2> PICK j : j = First(table, r, p, m)
    OBVIOUS
  <2>4. j \in 1 .. i /\ j \in 1 .. Len(table) /\ IsFor(table[j], r, p, m)
    BY <2>1, <2>3, FirstMatches
  <2>5. table[j].localPort = p /\ table[j].remote = r
    BY <2>2, <2>4 DEF IsFor
  <2>6. n <= PortSpace
    BY <2>1, PortsAssumption DEF PortsUsed
  <2>7. CASE table[i].localPort \notin ListenPorts
    BY <2>1, <2>4, <2>5, <2>6, <2>7, FindsIsFirst DEF PortsUsed
  <2>8. CASE table[i].sock.passive
    <3>1. Alone(table, i)
      BY <2>1 DEF OwnInv
    <3>2. j \notin 1 .. i - 1
      BY <2>5, <2>8, <3>1 DEF Alone
    <3> QED BY <2>1, <2>4, <3>2, FindsIsFirst
  <2> QED BY <2>7, <2>8
<1> QED BY <1>1, <1>2, <1>3, PTL DEF Spec
=============================================================================
