----------------------------- MODULE UdpProvider -----------------------------
(***************************************************************************)
(* The UDP provider: its table of sockets, how a datagram finds its        *)
(* socket, and what Connect, Listen, Bind and Disconnect do.               *)
(***************************************************************************)
EXTENDS Ports, Sequences, SequencesExt

CONSTANT MaxSockets     \* sockets the application opens (bound; 65535 fit)

ASSUME UdpAssumption == MaxSockets \in Nat

VARIABLES
    sockets,        \* the table
    freePort,       \* the next local port of a Connect
    heard           \* history: for each socket, whose data its handler got

udp == <<sockets, freePort, heard>>

UdpInit == sockets = <<>> /\ freePort = FirstPort /\ heard = <<>>

Socket(port, remote, listening) ==
    [localPort |-> port, remote |-> remote, listening |-> listening,
     handler |-> FALSE]

(* The table has no end that is looked at, and nothing leaves it.          *)
Entered(socket) ==
    /\ Len(sockets) < MaxSockets
    /\ sockets' = Append(sockets, socket)
    /\ heard' = Append(heard, {})

(* Mutant: the port is not used up.                                        *)
ConnectSamePort(remote) ==
    /\ Entered(Socket(freePort, remote, FALSE))
    /\ UNCHANGED freePort

Connect(remote) ==
    /\ Entered(Socket(freePort, remote, FALSE))
    /\ freePort' = PortAfter(freePort)

(* The remote of a socket that listens is not set.                         *)
Listen(port) ==
    /\ \E r \in UnsetRemotes : Entered(Socket(port, r, TRUE))
    /\ UNCHANGED freePort

Bind(i) ==
    /\ sockets' = [sockets EXCEPT ![i].handler = TRUE]
    /\ UNCHANGED <<freePort, heard>>

(* Disconnect looks for the socket only while socket == 0, so it finds and *)
(* removes nothing.                                                        *)
Disconnect(i) == UNCHANGED udp

Listens(s, port) == s.localPort = port /\ s.listening

IsFrom(s, remote, port) == s.localPort = port /\ s.remote = remote

(* The first socket in the table that listens on the port, or is the other *)
(* end of the sender; 0 for none.                                          *)
Found(remote, port) ==
    SelectInSeq(sockets, LAMBDA s : Listens(s, port) \/ IsFrom(s, remote, port))

(* Mutant: a socket that listens goes on listening.                        *)
TakenListening(s, remote) == [s EXCEPT !.remote = remote]

(* A socket that listened is now connected to the sender.                  *)
Taken(s, remote) == [s EXCEPT !.remote = remote, !.listening = FALSE]

OnInternetProtocolReceived(remote, port) ==
    LET i == Found(remote, port) IN
    /\ i # 0
    /\ sockets' = [sockets EXCEPT ![i] =
                      IF @.listening THEN Taken(@, remote) ELSE @]
    /\ heard' = [heard EXCEPT ![i] =
                    IF sockets[i].handler THEN @ \cup {remote} ELSE @]
    /\ UNCHANGED freePort

UdpNext ==
    \/ \E r \in Remotes : Connect(r)
    \/ \E port \in ListenPorts : Listen(port)
    \/ \E i \in DOMAIN sockets : Bind(i) \/ Disconnect(i)
    \/ \E r \in Remotes, port \in AllPorts :
          OnInternetProtocolReceived(r, port)
=============================================================================
