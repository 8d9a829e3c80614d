------------------------------ MODULE Transport ------------------------------
(***************************************************************************)
(* The transport layer of a host: the UDP provider or the TCP provider,    *)
(* whichever its application uses (the kernels use one at a time).  The    *)
(* two share nothing but the ports' numbers.                               *)
(***************************************************************************)
EXTENDS UdpProvider, TcpProvider, TLC

VARIABLE protocol       \* what the application uses

vars == <<udp, tcp, protocol>>

Init == UdpInit /\ TcpInit /\ protocol \in {"udp", "tcp"}

Next ==
    \/ protocol = "udp" /\ UdpNext /\ UNCHANGED <<tcp, protocol>>
    \/ protocol = "tcp" /\ TcpNext /\ UNCHANGED <<udp, protocol>>

Spec == Init /\ [][Next]_vars

(* Remotes differ in nothing but their names.                              *)
Symmetry == Permutations(Remotes)

-----------------------------------------------------------------------------
(* Properties                                                              *)

TypeOK ==
    /\ protocol \in {"udp", "tcp"}
    /\ sockets \in Seq([localPort : AllPorts,
                        remote : Remotes \cup {Nobody},
                        listening : BOOLEAN, handler : BOOLEAN])
    /\ freePort \in AllPorts
    /\ heard \in Seq(SUBSET Remotes) /\ Len(heard) = Len(sockets)

(* A UDP socket gets the data of one remote only, in all its life: who     *)
(* sends first to a listening socket keeps it.                             *)
OneSenderEach ==
    /\ TypeOK
    /\ \A i \in DOMAIN sockets : heard[i] \subseteq {sockets[i].remote}

(* As long as freePort has not gone round, the datagrams that answer a     *)
(* connected UDP socket reach it, wherever it is in the table, unless its  *)
(* port is also one that the application listens on.                       *)
OwnDatagrams ==
    Len(sockets) <= PortSpace =>
        \A i \in DOMAIN sockets :
            sockets[i].localPort \notin ListenPorts =>
                Found(sockets[i].remote, sockets[i].localPort) = i

(* The same for a connection of TCP; here a port that is listened on is    *)
(* shared by all the sockets that listen on it, and a listening socket in  *)
(* front takes a SYN that a remote sends again, and with it the connection *)
(* from the socket that has it.                                            *)
AnAck == Seg({"ACK"}, 1, 1, NoByte)

OwnSegments ==
    ~again /\ Len(table) <= PortSpace =>
        \A i \in DOMAIN table :
            IsConnected(table[i]) /\ (table[i].sock.passive
                                        \/ table[i].localPort \notin ListenPorts) =>
                Finds(table[i].remote, table[i].localPort, AnAck) = i

(* When a connection is open, no byte counts as acknowledged that was not  *)
(* sent, unless the SYN + ACK was handled between the sending of the SYN   *)
(* and its counting (tcp.cpp 596, 597): then the first byte does, and has  *)
(* no timer when it is sent.                                               *)
NothingUnsentIsAcked ==
    \A i \in DOMAIN table :
        table[i].sock.state = "ESTABLISHED" =>
            table[i].sock.una <= table[i].sock.nxt + (IF i \in early THEN 1 ELSE 0)

(* Whom a call reaches, and who is refused by it.                           *)
CalledAt(remote, port) == Finds(remote, port, Seg({"SYN"}, 0, 0, NoByte))

Refuses(remote, port) ==
    LET i == CalledAt(remote, port)
    IN  /\ i # 0 /\ ~(calling = "entered" /\ i = Caller)
        /\ table[i].sock.state = "CLOSED" /\ ~table[i].sock.passive

RefusalsStay ==
    \A r \in Remotes, port \in AllPorts :
        Refuses(r, port) =>
            Refuses(r, port)' \/ CalledAt(r, port)' < CalledAt(r, port)

(* A socket of Connect that is closed is never removed (tcp.cpp 510) and   *)
(* goes on taking what its remote sends to that port: the remote's calls   *)
(* are refused for ever, whoever listens behind it, unless a socket in     *)
(* front listens again.                                                    *)
RefusedForEver == [][RefusalsStay]_vars
=============================================================================
