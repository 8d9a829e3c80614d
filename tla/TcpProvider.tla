----------------------------- MODULE TcpProvider -----------------------------
(***************************************************************************)
(* The TCP provider: its table of sockets, how a segment finds its socket, *)
(* and Connect, which the main loop runs with interrupts on, in the steps  *)
(* between which a segment may be handled.  What a segment makes of its    *)
(* socket is in TcpSocket.  No data is sent here, so no timer runs.        *)
(***************************************************************************)
EXTENDS Ports, TcpSocket, SequencesExt

CONSTANTS
    MaxTcpSockets,  \* sockets the application opens (bound; 65535 fit)
    MaxControls     \* bound: openings and closings of one socket

ASSUME TcpProviderAssumption == MaxTcpSockets \in Nat /\ MaxControls \in Nat

VARIABLES
    table,          \* the table: ends of the connection, and the socket
    nextPort,       \* freePort, the next local port of a Connect
    calling,        \* how far the Connect is of the last socket
    early,          \* history: sockets answered before their SYN was counted
    again           \* history: a SYN was taken from a remote already connected

tcp == <<table, nextPort, calling, early, again>>

TcpInit ==
    /\ table = <<>> /\ nextPort = FirstPort /\ calling = "no"
    /\ early = {} /\ again = FALSE

Entry(port, remote, sock) == [localPort |-> port, remote |-> remote, sock |-> sock]

TcpListen(port) ==
    /\ calling = "no" /\ Len(table) < MaxTcpSockets
    /\ \E o \in Listening, r \in UnsetRemotes :
          table' = Append(table, Entry(port, r, o.sock))
    /\ UNCHANGED <<nextPort, calling, early, again>>

(* Mutant: the port is not used up.                                        *)
EnterTableSamePort(remote) ==
    /\ calling = "no" /\ Len(table) < MaxTcpSockets
    /\ \E a \in UnsetAcks :
          table' = Append(table, Entry(nextPort, remote,
                                       NewSocket("CLOSED", FALSE, TRUE, a)))
    /\ calling' = "entered"
    /\ UNCHANGED <<nextPort, early, again>>

(* Connect: the socket enters the table before it is in SYN_SENT; its SYN  *)
(* is sent before it is counted.                                           *)
EnterTable(remote) ==
    /\ calling = "no" /\ Len(table) < MaxTcpSockets
    /\ \E a \in UnsetAcks :
          table' = Append(table, Entry(nextPort, remote,
                                       NewSocket("CLOSED", FALSE, TRUE, a)))
    /\ nextPort' = PortAfter(nextPort)
    /\ calling' = "entered"
    /\ UNCHANGED <<early, again>>

Caller == Len(table)

SendSyn ==
    /\ calling = "entered"
    /\ table' = [table EXCEPT ![Caller].sock.state = "SYN_SENT"]
    /\ calling' = "sent"
    /\ UNCHANGED <<nextPort, early, again>>

CountSyn ==
    /\ calling = "sent"
    /\ table' = [table EXCEPT ![Caller].sock.caux = @ + 1]
    /\ calling' = "no"
    /\ UNCHANGED <<nextPort, early, again>>

-----------------------------------------------------------------------------
(* Segments                                                                *)

IsSyn(m) == m.flags \cap {"SYN", "ACK"} = {"SYN"}

IsFor(e, remote, port, m) ==
    /\ e.localPort = port
    /\ (e.sock.state = "LISTEN" /\ IsSyn(m)) \/ e.remote = remote

(* The first socket of the table that listens, for a SYN, or is the other  *)
(* end of the sender; 0 for none.                                          *)
Finds(remote, port, m) ==
    SelectInSeq(table, LAMBDA e : IsFor(e, remote, port, m))

IsConnected(e) == e.sock.state \notin {"CLOSED", "LISTEN"}

(* A segment that finds no socket dereferences a null pointer; here it is  *)
(* ignored.                                                                *)
TcpReceived(remote, port, m) ==
    LET i == Finds(remote, port, m)
        s == table[i].sock
    IN  /\ i # 0
        /\ s.caux < MaxControls
        /\ \E o \in Received(s, m) :
              table' = [table EXCEPT ![i] =
                  Entry(port,
                        IF s.state = "LISTEN" /\ IsSyn(m) /\ o.sock.state # "LISTEN"
                        THEN remote ELSE @.remote,
                        o.sock)]
        /\ early' = IF calling = "sent" /\ i = Caller /\ m.flags = {"SYN", "ACK"}
                    THEN early \cup {i} ELSE early
        /\ again' = (again \/ \E j \in DOMAIN table \ {i} :
                        /\ IsConnected(table[j]) /\ s.state = "LISTEN"
                        /\ table[j].localPort = port /\ table[j].remote = remote)
        /\ UNCHANGED <<nextPort, calling>>

(* What remotes send: openings, acknowledgements and resets (bound: FINs   *)
(* and data are for TcpConnection).                                        *)
Seg(flags, seq, ack, byte) == [flags |-> flags, seq |-> seq, ack |-> ack, byte |-> byte]

RemoteSegments ==
    {Seg({"SYN"}, 0, 0, NoByte), Seg({"SYN", "ACK"}, 0, 1, NoByte),
     Seg({"ACK"}, 1, 1, NoByte), Seg({"RST"}, 1, 0, NoByte)}

TcpNext ==
    \/ \E port \in ListenPorts : TcpListen(port)
    \/ \E r \in Remotes : EnterTable(r)
    \/ SendSyn \/ CountSyn
    \/ \E r \in Remotes, port \in AllPorts, m \in RemoteSegments :
          TcpReceived(r, port, m)
=============================================================================
