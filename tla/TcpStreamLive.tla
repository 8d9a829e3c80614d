---------------------------- MODULE TcpStreamLive ----------------------------
(***************************************************************************)
(* A connection on a network that loses a few segments and then no more:   *)
(* whether what was lost is made good.  The acknowledgements keep their    *)
(* order or not, as in TcpStream.                                          *)
(***************************************************************************)
EXTENDS TcpStream

CONSTANT MaxLosses      \* bound: what the network loses

ASSUME LiveAssumption == MaxLosses \in Nat

VARIABLE losses         \* history: how much was lost

varsL == <<vars, losses>>

InitL == Init /\ losses = 0

Loses ==
    /\ losses < MaxLosses
    /\ (\E seg \in data : DataLost(seg)) \/ (\E m \in acks : AckLost(m))
    /\ losses' = losses + 1

Works ==
    /\ \/ Expired
       \/ \E seg \in data : DataArrives(seg)
       \/ \E m \in acks : AckArrives(m)
       \/ GetBegin \/ GetByte \/ GetEnd
    /\ UNCHANGED losses

(* kernelMain ends in a loop that calls Get for ever.                      *)
KeepsReading == WF_vars(GetBegin) /\ WF_vars(GetByte) /\ WF_vars(GetEnd)

(* CheckTimers: a timeout passes some time, however far it backed off.     *)
Resends(seg) == Expired /\ seg \in tcp_timers /\ seg \in data' \ data

(***************************************************************************)
(* Fairness: the timer interrupt keeps ticking, what the network does not  *)
(* lose it delivers, every timer that stays comes to its timeout, and the  *)
(* main loop calls Get for ever.                                           *)
(***************************************************************************)
Fairness ==
    /\ WF_vars(Expired)
    /\ \A seg \in {t \in Segments : t.size <= Mss} :
          WF_vars(DataArrives(seg)) /\ WF_vars(Resends(seg))
    /\ \A m \in Acks : WF_vars(AckArrives(m))
    /\ KeepsReading

LiveSpec == InitL /\ [][Loses \/ Works]_varsL /\ Fairness

-----------------------------------------------------------------------------
(* Properties                                                              *)

(* The last acknowledgement was lost: all that was sent has arrived, and   *)
(* each segment that goes out again ends at the next expected byte, which  *)
(* gets no answer (tcp.cpp 456).                                           *)
LastAckMissing ==
    /\ send_unacknowledged < send_next /\ send_next = rcv_nxt
    /\ acks = {} /\ NewSize = 0
    /\ \A t \in tcp_timers : t.start + t.size = rcv_nxt

(* When the network has lost what it loses, everything is made good in the *)
(* end and acknowledged, unless the window closes on an idle connection,   *)
(* the last acknowledgement of a flight is missing, both of which then     *)
(* last for ever, a timer found no room, or the chunk list went wild.      *)
AllAcknowledged == send_unacknowledged = Available

EndsOrStalls ==
    <>(AllAcknowledged \/ []Stalled \/ []LastAckMissing \/ dropped \/ wild)
=============================================================================
