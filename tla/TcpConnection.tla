---------------------------- MODULE TcpConnection ----------------------------
(***************************************************************************)
(* Two hosts that run this TCP, 1 and 2, with one socket each at most (see *)
(* TcpSocket), and the network between them, which may lose segments but   *)
(* keeps their order.  Either host may Connect to the other or Listen,     *)
(* both may do the same, in any order and at any time; so the behaviours   *)
(* hold the ordinary opening, the simultaneous one and those that come to  *)
(* nothing.                                                                *)
(***************************************************************************)
EXTENDS TcpSocket, FiniteSets, SequencesExt

CONSTANTS
    Available,       \* units a connecting socket has to send (send_available)
    MaxNet,          \* bound: a tick needs fewer segments on their way
    MaxLosses        \* bound: segments the network may lose

ASSUME ConnectionAssumption == {Available, MaxNet, MaxLosses} \subseteq Nat

VARIABLES
    sock,       \* the socket of each host
    net,        \* the segments on their way to each host, in order
    losses      \* how many were lost, or found nobody who knew them

vars == <<sock, net, losses>>

Hosts == 1 .. 2
Peer(h) == 3 - h

(* What happens to the socket of h, and what it sends to the other.        *)
Becomes(h, outcome) ==
    /\ sock' = [sock EXCEPT ![h] = outcome.sock]
    /\ net' = [net EXCEPT ![Peer(h)] = @ \o outcome.sent]

Receives(h, outcome) ==
    /\ sock' = [sock EXCEPT ![h] = outcome.sock]
    /\ net' = [net EXCEPT ![Peer(h)] = @ \o outcome.sent, ![h] = Tail(@)]

Init ==
    /\ sock = [h \in Hosts |-> NoSocket]
    /\ net = [h \in Hosts |-> <<>>]
    /\ losses = 0

Idle(h) == sock[h].state = "NONE"

(* The main loop of either kernel opens its socket.                        *)
Connect(h) ==
    /\ Idle(h)
    /\ \E o \in Connecting : Becomes(h, o)
    /\ UNCHANGED losses

Listen(h) ==
    /\ Idle(h)
    /\ \E o \in Listening : Becomes(h, o)
    /\ UNCHANGED losses

Deliver(h) ==
    /\ net[h] # <<>>
    /\ Accepts(sock[h], Head(net[h]))
    /\ \E o \in Received(sock[h], Head(net[h])) : Receives(h, o)
    /\ UNCHANGED losses

(* No socket is found for the segment: nothing comes of it.  It counts as  *)
(* lost.                                                                   *)
Unknown(h) ==
    /\ net[h] # <<>>
    /\ ~Accepts(sock[h], Head(net[h]))
    /\ net' = [net EXCEPT ![h] = Tail(@)]
    /\ losses' = IF losses < MaxLosses THEN losses + 1 ELSE losses
    /\ UNCHANGED sock

(* The timer driver calls Expired of the socket's timer handler.           *)
Tick(h) ==
    /\ ~Idle(h)
    /\ Len(net[1]) + Len(net[2]) < MaxNet
    /\ \E o \in Ticked(sock[h], Available) : Becomes(h, o)
    /\ UNCHANGED losses

(* The network loses any segment.                                          *)
Lose(h) ==
    /\ losses < MaxLosses
    /\ \E i \in DOMAIN net[h] : net' = [net EXCEPT ![h] = RemoveAt(@, i)]
    /\ losses' = losses + 1
    /\ UNCHANGED sock

Next ==
    \E h \in Hosts : \/ Connect(h) \/ Listen(h)
                     \/ Deliver(h) \/ Unknown(h) \/ Tick(h) \/ Lose(h)

Spec == Init /\ [][Next]_vars

(* Interrupts are served and the timer ticks.  A segment on its way is     *)
(* handled; a tick that has something new to send or something to forget   *)
(* does so; a unit that stays unacknowledged is sent again at some tick.   *)
Renews(h) == Tick(h) /\ sock'[h] # sock[h]

Resends(h, o) ==
    /\ Tick(h)
    /\ o \in sock[h].timers
    /\ Len(net'[Peer(h)]) > Len(net[Peer(h)])
    /\ Last(net'[Peer(h)]).byte = o

Fairness ==
    \A h \in Hosts :
        /\ WF_vars(Deliver(h)) /\ WF_vars(Unknown(h))
        /\ SF_vars(Renews(h))
        /\ \A o \in 0 .. Available - 1 : SF_vars(Resends(h, o))

FairSpec == Spec /\ Fairness

-----------------------------------------------------------------------------
(* Type invariant: the sockets and the segments are what the provider      *)
(* makes, and no counter leaves the range its state allows.                *)
SocketOK(s) ==
    /\ s.state \in States \cup {"NONE"}
    /\ {s.passive, s.bound, s.simultaneous_open, s.buf} \subseteq BOOLEAN
    /\ {s.cseq, s.caux, s.ack, s.nxt, s.rcv} \subseteq Nat
    /\ s.una \in Int /\ s.nxt <= Available
    /\ s.timers \subseteq 0 .. s.nxt - 1
    /\ \A p \in s.held : p > s.rcv

SegmentOK(m) ==
    /\ m.flags \subseteq Flags
    /\ m.seq \in Nat /\ m.ack \in Nat
    /\ m.byte \in {NoByte} \cup 0 .. Available - 1

TypeOK ==
    /\ \A h \in Hosts : SocketOK(sock[h]) /\ \A i \in DOMAIN net[h] : SegmentOK(net[h][i])
    /\ losses \in 0 .. MaxLosses

Active(h) == sock[h].state # "NONE" /\ ~sock[h].passive
Simultaneous == \A h \in Hosts : Active(h)

(* Over a network that keeps the order, an opening ends in a reset only if *)
(* both called and a SYN got lost: then one takes the other's SYN + ACK    *)
(* for the answer to its own SYN, and its ACK finds the other waiting for  *)
(* a SYN + ACK (tcp.cpp 376).                                              *)
NoNeedlessReset ==
    (\E h \in Hosts : \/ sock[h].state = "CLOSED"
                      \/ \E i \in DOMAIN net[h] : "RST" \in net[h][i].flags)
        => Simultaneous /\ losses > 0

(* Both sides agree about the stream: a unit is stored under the sequence  *)
(* number its sender gave it first, one above its offset.  This and the    *)
(* next need that only one host called or that what each sends is less     *)
(* than a window: an empty segment that starts where the window ends has a *)
(* whole window of foreign bytes stored (tcp.cpp 456-467).                 *)
StoredInPlace ==
    /\ TypeOK
    /\ \A h \in Hosts : \A g \in sock[h].got : g[1] = 1 + g[2]

(* What a host takes for acknowledged, and so never sends again, the other *)
(* has stored; and it sends nothing it does not count as sent.             *)
AcknowledgedIsStored ==
    \A h \in Hosts :
        /\ sock[h].una <= sock[h].nxt
        /\ \A o \in 0 .. sock[h].una - 1 : <<1 + o, o>> \in sock[Peer(h)].got

(* A host that answers data is one whose peer has answered its SYN: nobody *)
(* is ESTABLISHED towards a host that never heard of it.                   *)
NobodyAlone ==
    \A h \in Hosts :
        sock[h].state = "ESTABLISHED" =>
            sock[Peer(h)].state \in {"SYN_RECEIVED", "ESTABLISHED", "CLOSED"}

Opening ==
    /\ \A h \in Hosts : sock[h].state \in {"LISTEN", "SYN_SENT"}
    /\ \E h \in Hosts : sock[h].state = "SYN_SENT"

Open == \A h \in Hosts : sock[h].state = "ESTABLISHED"

(* Unless a segment is lost, an opening completes, simultaneous or not.    *)
(* (Nobody sends a SYN or a SYN + ACK again.)                              *)
Opens == Opening ~> (Open \/ losses > 0)

AllStored(h) ==
    \A o \in 0 .. Available - 1 : <<1 + o, o>> \in sock[Peer(h)].got

(* Once the caller is ESTABLISHED, all it has to send gets stored, whatever *)
(* is lost on the way, the last ACK of the opening included; unless both   *)
(* called and the opening is reset.                                        *)
Delivers ==
    \A h \in Hosts :
        (Active(h) /\ sock[h].state = "ESTABLISHED")
            ~> (AllStored(h) \/ sock[h].state = "CLOSED")
=============================================================================
