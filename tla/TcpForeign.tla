------------------------------ MODULE TcpForeign ------------------------------
(***************************************************************************)
(* One socket (see TcpSocket) and a peer that is not this TCP: another     *)
(* implementation, an earlier incarnation, a stranger.  It may send any    *)
(* segment at any time, so every branch of the handler is taken in every   *)
(* state.  The peer's segments come one at a time and the socket's answers *)
(* are seen in sent.                                                       *)
(***************************************************************************)
EXTENDS TcpSocket, FiniteSets

CONSTANTS
    Available,     \* units a connecting socket has to send
    MaxSeq,        \* bound: the peer's numbers are in 0 .. MaxSeq
    MaxControls    \* bound: openings and closings of one socket

ASSUME ForeignAssumption == {Available, MaxSeq, MaxControls} \subseteq Nat

VARIABLES
    sock,        \* the socket
    sent,        \* what the last step sent
    irs,         \* history: the sequence number of the peer's last SYN
    controls,    \* history: SYN, FIN: whether one was sent
    finished     \* history: the application has called Disconnect

vars == <<sock, sent, irs, controls, finished>>

FlagSets == {{"SYN"}, {"SYN", "ACK"}, {"SYN", "FIN"}, {"FIN"}, {"FIN", "ACK"},
             {"ACK"}, {}, {"RST"}}

(* The handler looks at the data of a segment only in its default case, so *)
(* no others carry any.                                                    *)
PeerSegments ==
    {m \in [flags : FlagSets, seq : 0 .. MaxSeq, ack : 0 .. MaxSeq, byte : {NoByte, 0}] :
        m.byte # NoByte => m.flags \subseteq {"ACK"}}

Becomes(outcome) ==
    /\ sock' = outcome.sock
    /\ sent' = outcome.sent
    /\ controls' = controls \cup
           ({"SYN", "FIN"} \cap
               UNION {outcome.sent[i].flags : i \in DOMAIN outcome.sent})

Init ==
    /\ sock = NoSocket
    /\ sent = <<>>
    /\ irs = 0
    /\ controls = {}
    /\ finished = FALSE

Idle == sock.state = "NONE"

Connect ==
    /\ Idle
    /\ \E o \in Connecting : Becomes(o)
    /\ UNCHANGED <<irs, finished>>

Listen ==
    /\ Idle
    /\ \E o \in Listening : Becomes(o)
    /\ UNCHANGED <<irs, finished>>

(* The application disconnects a connection that is open (an assumption    *)
(* about the application: the code itself asks for no state).              *)
Disconnect ==
    /\ sock.state \in {"ESTABLISHED", "CLOSE_WAIT"}
    /\ sock.caux < MaxControls
    /\ \E o \in Disconnected(sock) : Becomes(o)
    /\ finished' = TRUE
    /\ UNCHANGED irs

Opens(m) ==
    \/ m.flags = {"SYN"} /\ sock.state \in {"LISTEN", "SYN_SENT"}
    \/ m.flags = {"SYN", "ACK"} /\ sock.state = "SYN_SENT"

Receive(m) ==
    /\ Accepts(sock, m)
    /\ sock.caux < MaxControls
    /\ \E o \in Received(sock, m) : Becomes(o)
    /\ irs' = IF Opens(m) THEN m.seq ELSE irs
    /\ UNCHANGED finished

Tick ==
    /\ ~Idle
    /\ \E o \in Ticked(sock, Available) : Becomes(o)
    /\ UNCHANGED <<irs, finished>>

Next ==
    \/ Connect \/ Listen \/ Disconnect \/ Tick
    \/ \E m \in PeerSegments : Receive(m)

Spec == Init /\ [][Next]_vars

-----------------------------------------------------------------------------
(* Type invariant: the socket is in one of its states and no counter       *)
(* leaves the range the openings and closings allow it.                    *)
TypeOK ==
    /\ sock.state \in States \cup {"NONE"}
    /\ {sock.passive, sock.bound, sock.simultaneous_open, sock.buf} \subseteq BOOLEAN
    /\ sock.cseq \in 0 .. MaxControls /\ sock.caux \in 0 .. MaxControls + 1
    /\ {sock.ack, sock.rcv} \subseteq Nat
    /\ sock.una \in -MaxControls - 1 .. MaxSeq
    /\ sock.nxt \in 0 .. Available
    /\ sock.timers \subseteq 0 .. sock.nxt - 1
    /\ \A p \in sock.held : p > sock.rcv
    /\ controls \subseteq {"SYN", "FIN"}

Closing == {"FIN_WAIT1", "FIN_WAIT2", "CLOSING", "TIME_WAIT", "CLOSE_WAIT", "LAST_ACK"}

(* Whatever the peer sends, what the socket acknowledges is what its buffer *)
(* has in a row; only the FIN adds one (tcp.cpp 311, 324, 331), and only    *)
(* while the connection is being closed.  SYN_RECEIVED is left out: its    *)
(* buffer, if any, is of an earlier connection.                            *)
AcksWhatItHas ==
    \A i \in DOMAIN sent :
        (sock.buf /\ sock.state # "SYN_RECEIVED") =>
            \/ sent[i].ack = sock.rcv
            \/ sent[i].ack = sock.rcv + 1 /\ sock.state \in Closing

(* Until the application disconnects, a unit has the same sequence number  *)
(* whenever it is sent: at first, again after a timeout, while the peer    *)
(* closes and after the connection is closed.                              *)
SentInPlace ==
    /\ TypeOK
    /\ \A i \in DOMAIN sent :
        (sent[i].byte # NoByte /\ ~finished) => sent[i].seq = 1 + sent[i].byte

(* The socket's states go through the phases of a connection and no peer   *)
(* can lead them astray.                                                   *)
Phase ==
    CASE sock.state = "NONE" -> "idle"
      [] sock.state = "LISTEN" -> "listening"
      [] sock.state \in {"SYN_SENT", "SYN_RECEIVED"} -> "opening"
      [] sock.state = "ESTABLISHED" -> "open"
      [] sock.state \in Closing -> "closing"
      [] sock.state = "CLOSED" -> "closed"

Life == INSTANCE TcpPhases WITH phase <- Phase, passive <- sock.passive

LivesThroughPhases == Life!Spec

(* An opening starts afresh: the socket expects the unit after the SYN of  *)
(* the peer that opened it.  A listening socket that is "back to LISTEN"   *)
(* (tcp.cpp 230) does not: see Update(0) at 228.                           *)
OpensAfresh ==
    [][sock.state # "ESTABLISHED" /\ sock'.state = "ESTABLISHED"
           => sock'.rcv = irs' + 1]_vars
=============================================================================
