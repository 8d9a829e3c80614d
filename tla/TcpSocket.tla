------------------------------ MODULE TcpSocket ------------------------------
(***************************************************************************)
(* One TCP socket as the provider handles it: what a socket is after       *)
(* Connect and Listen, and what OnInternetProtocolReceived, Disconnect and *)
(* the timer tick make of it.  Every operation is a function of the socket *)
(* and the segment; it yields the set of its outcomes, an outcome being    *)
(* the socket afterwards and the segments sent, in order.                  *)
(*                                                                         *)
(* Sequence numbers are counted from the initial one, which is always 0.   *)
(* Data comes in segments of one unit.  The windows are never closed here  *)
(* (TcpStream is about them): a peer offers, and a socket has, Window.     *)
(***************************************************************************)
EXTENDS Integers, Sequences

CONSTANTS
    Window,        \* the window advertised (1024)
    FinAck,        \* the number FIN + ACK stands for (17)
    UnsetAcks,     \* what a fresh socket's acknowledgementNumber may hold
    MallocFails    \* TRUE: StartBuffer may find no memory

ASSUME SocketAssumption ==
    /\ Window \in Nat \ {0} /\ FinAck \in Nat
    /\ UnsetAcks \subseteq Nat /\ UnsetAcks # {}
    /\ MallocFails \in BOOLEAN

States == {"CLOSED", "LISTEN", "SYN_SENT", "SYN_RECEIVED", "ESTABLISHED",
           "FIN_WAIT1", "FIN_WAIT2", "CLOSING", "TIME_WAIT", "CLOSE_WAIT",
           "LAST_ACK"}

Flags == {"SYN", "ACK", "FIN", "RST"}

(***************************************************************************)
(* A socket: cseq and caux are control_sequenceNumber and ..._aux; ack is  *)
(* acknowledgementNumber; una and nxt are send_unacknowledged and          *)
(* send_next, una < 0 standing for the value wrapped below 0; timers holds *)
(* the offsets that have a retransmission timer; buf is buffer_active, rcv *)
(* the buffer's rcv_nxt and held what it has above; bound says that the    *)
(* remote address and port are known; got is a history of what was stored: *)
(* pairs of a sequence number and the byte stored under it.                *)
(***************************************************************************)
NewSocket(state, passive, bound, ack) ==
    [state |-> state, passive |-> passive, bound |-> bound,
     simultaneous_open |-> FALSE,
     cseq |-> 0, caux |-> 0, ack |-> ack, una |-> 0, nxt |-> 0, timers |-> {},
     buf |-> FALSE, rcv |-> 0, held |-> {}, got |-> {}]

(* No socket: nothing was opened, or the kernel has just started.          *)
NoSocket == NewSocket("NONE", FALSE, FALSE, 0)

(* A segment: of size 1 if it carries a byte.                              *)
NoByte == -1

Segment(s, flags, offset) ==
    [flags |-> flags, seq |-> s.cseq + offset, ack |-> s.ack, byte |-> NoByte]

DataSegment(s, offset) ==
    [Segment(s, {"ACK"}, offset) EXCEPT !.byte = offset]

Size(m) == IF m.byte = NoByte THEN 0 ELSE 1

Outcome(s, sent) == [sock |-> s, sent |-> sent]

Quietly(s) == {Outcome(s, <<>>)}

AckSegment(s) == Segment(s, {"ACK"}, s.nxt)

Acknowledged(s) == {Outcome(s, <<AckSegment(s)>>)}

(* Mutant: a reset renews the sequence number, not the timers.             *)
ResetFresh(s) ==
    {Outcome([s EXCEPT !.state = "CLOSED", !.cseq = 0],
             <<Segment(s, {"RST"}, s.nxt)>>)}

(* The reset block: CLOSED, "Sure?", and the peer is told.                 *)
Reset(s) ==
    {Outcome([s EXCEPT !.state = "CLOSED"], <<Segment(s, {"RST"}, s.nxt)>>)}

(* Mutants: the number acknowledged never goes back; the SYN is not taken   *)
(* off what is acknowledged.                                               *)
RefreshForward(s) == IF s.buf /\ s.rcv > s.ack THEN [s EXCEPT !.ack = s.rcv] ELSE s

(* Update(0), and Update(msg).                                             *)
Refresh(s) == IF s.buf THEN [s EXCEPT !.ack = s.rcv] ELSE s

UpdateRaw(s, m) == Refresh([s EXCEPT !.una = m.ack])

Update(s, m) == Refresh([s EXCEPT !.una = m.ack - s.caux])

(* StartBuffer: a new buffer that expects acknowledgementNumber next.      *)
Started(s) == [s EXCEPT !.buf = TRUE, !.rcv = s.ack, !.held = {}]

-----------------------------------------------------------------------------
Connecting == {Outcome([NewSocket("SYN_SENT", FALSE, TRUE, a) EXCEPT !.caux = 1],
                       <<Segment(NewSocket("SYN_SENT", FALSE, TRUE, a), {"SYN"}, 0)>>) :
                  a \in UnsetAcks}

Listening == UNION {Quietly(NewSocket("LISTEN", TRUE, FALSE, a)) : a \in UnsetAcks}

(* Disconnect passes FIN + ACK where Send expects the data offset, so the  *)
(* segment has no flag at all; both counters go on all the same.           *)
Disconnected(s) ==
    {Outcome([s EXCEPT !.state = "FIN_WAIT1",
                       !.caux = s.caux + 1, !.cseq = s.cseq + 1],
             <<Segment(s, {}, FinAck)>>)}

-----------------------------------------------------------------------------
(* The cases of OnInternetProtocolReceived                                 *)

(* Mutants: the line commented out at 250 is not; a SYN opens in any state; *)
(* a listening socket is ESTABLISHED at once.                              *)
OnSynCounting(s, m) ==
    LET opened == [s EXCEPT !.state = "SYN_RECEIVED", !.ack = m.seq + 1]
        answer(t) == <<Segment(t, {"SYN", "ACK"}, 0)>>
    IN  CASE s.state = "LISTEN" ->
               {Outcome([opened EXCEPT !.bound = TRUE, !.caux = s.caux + 1,
                                         !.cseq = s.cseq + 1],
                        answer(opened))}
          [] s.state = "SYN_SENT" ->
               {Outcome([opened EXCEPT !.simultaneous_open = TRUE],
                        answer(opened))}
          [] OTHER -> Reset(s)

OnSynAnyState(s, m) ==
    LET opened == [s EXCEPT !.state = "SYN_RECEIVED", !.ack = m.seq + 1]
        answer(t) == <<Segment(t, {"SYN", "ACK"}, 0)>>
    IN  CASE s.state = "LISTEN" ->
               {Outcome([opened EXCEPT !.bound = TRUE, !.caux = s.caux + 1],
                        answer(opened))}
          [] s.state # "LISTEN" ->
               {Outcome([opened EXCEPT !.simultaneous_open = TRUE],
                        answer(opened))}

OnSynEager(s, m) ==
    LET opened == [s EXCEPT !.state = "SYN_RECEIVED", !.ack = m.seq + 1]
        answer(t) == <<Segment(t, {"SYN", "ACK"}, 0)>>
    IN  CASE s.state = "LISTEN" ->
               {Outcome([Started(opened) EXCEPT !.state = "ESTABLISHED",
                    !.bound = TRUE, !.caux = s.caux + 1, !.cseq = s.cseq + 1],
                        answer(opened))}
          [] s.state = "SYN_SENT" ->
               {Outcome([opened EXCEPT !.simultaneous_open = TRUE],
                        answer(opened))}
          [] OTHER -> Reset(s)

OnSyn(s, m) ==
    LET opened == [s EXCEPT !.state = "SYN_RECEIVED", !.ack = m.seq + 1]
        answer(t) == <<Segment(t, {"SYN", "ACK"}, 0)>>
    IN  CASE s.state = "LISTEN" ->
               {Outcome([opened EXCEPT !.bound = TRUE, !.caux = s.caux + 1],
                        answer(opened))}
          [] s.state = "SYN_SENT" ->
               {Outcome([opened EXCEPT !.simultaneous_open = TRUE],
                        answer(opened))}
          [] OTHER -> Reset(s)

(* The socket becomes ESTABLISHED, if there is memory for its buffer.      *)
Opened(s) == [Started(s) EXCEPT !.state = "ESTABLISHED", !.cseq = s.cseq + 1]

Establish(s, m, answer) == {Outcome(Update(Opened(s), m), answer)}

NoMemory(s) == IF MallocFails THEN Reset(s) ELSE {}

JustAck(s) == <<Segment(s, {"ACK"}, 0)>>

(* Mutant: only a socket that waits for it takes a SYN + ACK.              *)
OnSynAckCalled(s, m) ==
    LET answered == [s EXCEPT !.ack = m.seq + 1]
    IN  CASE s.cseq + 1 # m.ack -> Reset(s)
          [] s.cseq + 1 = m.ack /\ s.state = "SYN_SENT" ->
               Establish(answered, m, JustAck(Opened(answered))) \cup NoMemory(answered)
          [] OTHER -> Reset(s)

OnSynAck(s, m) ==
    LET answered == [s EXCEPT !.ack = m.seq + 1]
        counted  == [s EXCEPT !.cseq = s.cseq + 1]
    IN  CASE s.cseq + 1 # m.ack -> Reset(s)
          [] s.cseq + 1 = m.ack /\ s.state = "SYN_SENT" ->
               Establish(answered, m, JustAck(Opened(answered))) \cup NoMemory(answered)
          [] /\ s.cseq + 1 = m.ack
             /\ s.state = "SYN_RECEIVED" /\ s.simultaneous_open ->
               Establish(s, m, <<>>) \cup NoMemory(counted)
          [] OTHER -> Reset(s)

(* The acknowledgement of the FIN this socket believes to have sent.       *)
AcksFin(s, m) == s.cseq + s.nxt + 1 = m.ack

OnFin(s, m) ==
    LET more   == [s EXCEPT !.ack = s.ack + 1]
        go(st) == Update([more EXCEPT !.state = st], m)
    IN  CASE s.state = "ESTABLISHED" ->
               {Outcome(Update([more EXCEPT !.state = "CLOSE_WAIT",
                                            !.caux = s.caux + 1], m),
                        <<AckSegment(more),
                          Segment(more, {"FIN", "ACK"}, s.nxt)>>)}
          [] s.state = "CLOSE_WAIT" ->
               Quietly(Update([s EXCEPT !.state = "CLOSED"], m))
          [] s.state = "FIN_WAIT1" ->
               {Outcome(go("CLOSING"), <<AckSegment(more)>>)}
          [] s.state = "FIN_WAIT2" /\ AcksFin(s, m) ->
               {Outcome(go("TIME_WAIT"), <<AckSegment(more)>>)}
          [] OTHER -> Reset(s)

OnFinAck(s, m) ==
    LET more   == [s EXCEPT !.ack = s.ack + 1]
        go(st) == Update([more EXCEPT !.state = st], m)
    IN  CASE s.state = "ESTABLISHED" ->
               {Outcome(go("LAST_ACK"),
                        <<AckSegment(more),
                          Segment(more, {"FIN", "ACK"}, s.nxt)>>)}
          [] s.state = "CLOSE_WAIT" ->
               Quietly(Update([s EXCEPT !.state = "CLOSED"], m))
          [] s.state \in {"FIN_WAIT1", "FIN_WAIT2"} /\ AcksFin(s, m) ->
               {Outcome(go("TIME_WAIT"), <<AckSegment(more)>>)}
          [] OTHER -> Reset(s)

(* AddToBuffer: the byte is stored at each of places, and the buffer's     *)
(* rcv_nxt moves over all it then has in a row.                            *)
Stored(s, places, byte) ==
    LET have == s.held \cup places
        next == CHOOSE n \in s.rcv .. s.rcv + Window :
                   n \notin have /\ s.rcv .. n - 1 \subseteq have
    IN  [s EXCEPT !.rcv = next, !.held = {p \in have : p > next},
                  !.got = s.got \cup {<<p, byte>> : p \in places}]

(* A byte for a socket that has no buffer, or no memory for it, resets the *)
(* connection.                                                             *)
Store(s, m, places) ==
    IF s.buf THEN Acknowledged(Update(Stored(s, places, m.byte), m)) \cup NoMemory(s)
             ELSE Reset(Update(s, m))

(* The default case: an acknowledgement, data, or both, in any state.  (end *)
(* - 1 is unsigned: an empty segment at 0 is beyond every window.)  What   *)
(* comes before ack is cut off by a subtraction that wraps: of an empty     *)
(* segment just behind the window a whole Window is then left, and that    *)
(* much of whatever lies before it in memory is stored, as NoByte here.    *)
OnData(s0, m) ==
    LET s == Update(s0, m)
        end    == m.seq + Size(m)
        ahead  == m.seq > s.ack /\ s.ack + Window > m.seq
        covers == end >= s.ack /\ end > 0 /\ s.ack + Window > end - 1
        left   == Size(m) - (s.ack - m.seq)
    IN  CASE ahead /\ Size(m) = 0 -> Quietly(s)
          [] ahead /\ Size(m) = 1 -> Store(s, m, {m.seq})
          [] ~ahead /\ covers /\ left = 0 -> Quietly(s)
          [] ~ahead /\ covers /\ left > 0 -> Store(s, m, s.ack .. s.ack + left - 1)
          [] OTHER -> Acknowledged(s)

OnAck(s, m) ==
    CASE s.state = "SYN_RECEIVED" ->
           IF s.cseq + 1 = m.ack /\ ~s.simultaneous_open
           THEN Establish(s, m, <<>>) \cup NoMemory(s)
           ELSE Reset(s)
      [] s.state = "FIN_WAIT1" -> Quietly([s EXCEPT !.state = "FIN_WAIT2"])
      [] s.state = "CLOSE_WAIT" -> Quietly([s EXCEPT !.state = "CLOSED"])
      [] s.state \in {"CLOSING", "LAST_ACK"} /\ AcksFin(s, m) ->
           Quietly([s EXCEPT !.state = "CLOSED"])
      [] OTHER -> OnData(s, m)

(* Which socket takes a segment: a listening one takes a SYN, any other    *)
(* one, and one that listens again, what comes from its remote address.    *)
Accepts(s, m) ==
    \/ s.state = "LISTEN" /\ m.flags \cap {"SYN", "ACK"} = {"SYN"}
    \/ s.bound

(* The whole handler, for the socket the segment is for.                   *)
Received(s0, m) ==
    LET s       == Refresh(s0)
        control == m.flags \cap {"SYN", "ACK", "FIN"}
    IN  CASE s0.state = "TIME_WAIT" -> Quietly(s0)
          [] s0.state # "TIME_WAIT" /\ "RST" \in m.flags ->
               Quietly([s EXCEPT !.state = IF s.passive THEN "LISTEN"
                                                        ELSE "CLOSED"])
          [] OTHER ->
               CASE control = {"SYN"} -> OnSyn(s, m)
                 [] control = {"SYN", "ACK"} -> OnSynAck(s, m)
                 [] {"SYN", "FIN"} \subseteq control -> Reset(s)
                 [] control = {"FIN"} -> OnFin(s, m)
                 [] control = {"FIN", "ACK"} -> OnFinAck(s, m)
                 [] control = {"ACK"} -> OnAck(s, m)
                 [] OTHER -> OnData(s, m)

-----------------------------------------------------------------------------
(* The timer tick, Expired: SendData if the state allows, then CheckTimers *)
(* resends what timed out (at most one unit a tick here) and forgets what  *)
(* is acknowledged.  A una below 0 is a huge number in the code: all that  *)
(* was sent then counts as acknowledged.  (Mutant: so does the next unit.) *)
IsAckedFrom(s, offset) == s.una < 0 \/ offset <= s.una

IsAcked(s, offset) == s.una < 0 \/ offset + 1 <= s.una

(* Only Connect sets send_available: a listening socket has nothing to send. *)
Sending(s, available) ==
    /\ s.state \in {"ESTABLISHED", "CLOSE_WAIT"}
    /\ ~s.passive /\ s.nxt < available

SentNew(s, available) ==
    IF Sending(s, available)
    THEN LET t == Refresh(s)
         IN  Outcome([t EXCEPT !.nxt = t.nxt + 1, !.timers = t.timers \cup {t.nxt}],
                     <<DataSegment(t, t.nxt)>>)
    ELSE Outcome(s, <<>>)

(* Mutant: what is sent again goes out as if it were new.                  *)
TickedAtNext(s, available) ==
    LET new  == SentNew(s, available)
        t    == new.sock
        kept == {o \in t.timers : ~IsAcked(t, o)}
        u    == [t EXCEPT !.timers = kept]
    IN  {Outcome(u, new.sent)} \cup
        {Outcome(u, new.sent \o <<[DataSegment(t, o) EXCEPT !.seq = t.cseq + t.nxt]>>) : o \in kept \cap s.timers}

Ticked(s, available) ==
    LET new  == SentNew(s, available)
        t    == new.sock
        kept == {o \in t.timers : ~IsAcked(t, o)}
        u    == [t EXCEPT !.timers = kept]
    IN  {Outcome(u, new.sent)} \cup
        {Outcome(u, new.sent \o <<DataSegment(t, o)>>) : o \in kept \cap s.timers}
=============================================================================
