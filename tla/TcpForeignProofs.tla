--------------------------- MODULE TcpForeignProofs ---------------------------
(***************************************************************************)
(* What holds of one socket whatever its peer sends, for every window and  *)
(* any number of units, openings and closings: its states go through the   *)
(* phases of a connection, it acknowledges what its buffer has, and a unit *)
(* keeps its sequence number until the application disconnects.  Then what *)
(* holds of its table of timers, for any number of segments and ticks, and *)
(* of its reassembly buffer, for every window and any number of chunks:    *)
(* the list is in order and keeps the bytes that Reassembly says.          *)
(***************************************************************************)
EXTENDS TcpForeign, TcpTimer, TcpBuffer, TcpSocketProofs, FiniteSetTheorems, FunctionTheorems

(* The counters of openings and closings, and what depends on them.        *)
Bounded(s) ==
    /\ s.cseq <= s.caux /\ s.cseq <= MaxControls /\ s.caux <= MaxControls + 1
    /\ s.state \in {"SYN_SENT", "SYN_RECEIVED"} => s.cseq < s.caux
    /\ s.una \in -MaxControls - 1 .. MaxSeq
    /\ s.nxt <= Available
    /\ s.state = "NONE" => ~ s.bound

(* One SYN is counted before data is sent, and none later: a passive socket *)
(* may be opened again, but sends no data.                                 *)
Numbered(s) ==
    /\ s.state = "LISTEN" => s.passive
    /\ s.passive => s.timers = {}
    /\ ~ s.passive /\ s.state \in {"SYN_SENT", "SYN_RECEIVED"} => s.cseq = 0
    /\ ~ s.passive /\ s.state \in Connected => s.cseq = 1
    /\ s.timers # {} => s.cseq = 1

InPlace(a) == a.byte # NoByte => a.seq = 1 + a.byte

Inv ==
    /\ Typed(sock) /\ InStep(sock) /\ Bounded(sock)
    /\ finished = FALSE => Numbered(sock)
    /\ \A i \in DOMAIN sent : AckFits(sock, sent[i])
    /\ finished = FALSE => \A i \in DOMAIN sent : InPlace(sent[i])
    /\ controls \subseteq {"SYN", "FIN"}

LEMMA ClosingIsHalves == Closing = Halves
BY DEF Closing, Halves, Connected

LEMMA InvImplies == Inv => TypeOK /\ AcksWhatItHas /\ SentInPlace
<1> SUFFICES ASSUME Inv PROVE TypeOK /\ AcksWhatItHas /\ SentInPlace
  OBVIOUS
<1>1. TypeOK
  <2>1. Typed(sock) /\ Bounded(sock) /\ controls \subseteq {"SYN", "FIN"}
    BY DEF Inv
  <2>2. {Available, MaxSeq, MaxControls} \subseteq Nat /\ Window \in Nat
    BY ForeignAssumption, SocketAssumption
  <2>3. \A p \in sock.held : p > sock.rcv
    BY <2>1, <2>2 DEF Typed
  <2>4. /\ sock.cseq \in 0 .. MaxControls /\ sock.caux \in 0 .. MaxControls + 1
        /\ sock.nxt \in 0 .. Available
        /\ sock.una \in -MaxControls - 1 .. MaxSeq
    BY <2>1, <2>2 DEF Typed, Bounded
  <2>5. /\ sock.state \in States \cup {"NONE"}
        /\ {sock.passive, sock.bound, sock.simultaneous_open, sock.buf} \subseteq BOOLEAN
        /\ {sock.ack, sock.rcv} \subseteq Nat
        /\ sock.timers \subseteq 0 .. sock.nxt - 1
    BY <2>1 DEF Typed
  <2> QED BY <2>1, <2>3, <2>4, <2>5 DEF TypeOK
<1>2. AcksWhatItHas
  BY ClosingIsHalves DEF AcksWhatItHas, Inv, AckFits
<1>3. SentInPlace
  BY <1>1 DEF SentInPlace, Inv, InPlace
<1> QED BY <1>1, <1>2, <1>3

LEMMA PeerSegmentTyped ==
    ASSUME NEW m \in PeerSegments
    PROVE  IsSegment(m) /\ m.ack \in 0 .. MaxSeq
<1>1. m \in [flags : FlagSets, seq : 0 .. MaxSeq, ack : 0 .. MaxSeq, byte : {NoByte, 0}]
  BY DEF PeerSegments
<1>2. m.flags \subseteq Flags
  BY <1>1 DEF FlagSets, Flags
<1>3. MaxSeq \in Nat
  BY ForeignAssumption
<1> QED BY <1>1, <1>2, <1>3 DEF IsSegment, NoByte

(* The socket that was just opened.                                        *)
IsNew(s) ==
    /\ IsSocket(s)
    /\ s.simultaneous_open = FALSE /\ s.cseq = 0 /\ s.caux \in {0, 1}
    /\ s.ack \in Nat /\ s.una = 0 /\ s.nxt = 0 /\ s.timers = {}
    /\ s.buf = FALSE /\ s.rcv = 0 /\ s.held = {}
    /\ \/ s.state = "NONE" /\ s.passive = FALSE /\ s.bound = FALSE
       \/ s.state = "SYN_SENT" /\ s.passive = FALSE /\ s.bound = TRUE /\ s.caux = 1
       \/ s.state = "LISTEN" /\ s.passive = TRUE /\ s.bound = FALSE

LEMMA NewSocketInv ==
    ASSUME NEW s, IsNew(s)
    PROVE  Typed(s) /\ InStep(s) /\ Bounded(s) /\ Numbered(s)
<1>1. {Available, MaxSeq, MaxControls} \subseteq Nat
  BY ForeignAssumption
<1>2. Typed(s)
  <2>1. s.timers \subseteq 0 .. s.nxt - 1
        /\ s.held \subseteq s.rcv + 1 .. s.rcv + Window - 1
    BY DEF IsNew
  <2>2. s.state \in States \cup {"NONE"}
    BY DEF States, IsNew
  <2>3. /\ s.passive \in BOOLEAN /\ s.bound \in BOOLEAN
        /\ s.simultaneous_open \in BOOLEAN /\ s.buf \in BOOLEAN
    BY DEF IsNew
  <2> QED BY <2>1, <2>2, <2>3 DEF Typed, IsNew
<1>3. InStep(s)
  BY DEF InStep, IsNew
<1>4. Bounded(s)
  BY <1>1 DEF Bounded, IsNew
<1>5. Numbered(s)
  BY DEF Numbered, Connected, IsNew
<1> QED BY <1>2, <1>3, <1>4, <1>5

LEMMA UnsetAcksNat == UnsetAcks \subseteq Nat
BY SocketAssumption

(* A step that brings about an outcome, and what it must be.               *)
LEMMA BecomesInv ==
    ASSUME Inv, NEW o, Becomes(o),
           Typed(o.sock), InStep(o.sock), Bounded(o.sock),
           finished' = FALSE => Numbered(o.sock),
           \A i \in DOMAIN o.sent : AckFits(o.sock, o.sent[i]),
           finished' = FALSE => \A i \in DOMAIN o.sent : InPlace(o.sent[i])
    PROVE  Inv'
<1>1. sock' = o.sock /\ sent' = o.sent
  BY DEF Becomes
<1>2. controls' \subseteq {"SYN", "FIN"}
  BY DEF Becomes, Inv
<1>3. \A s : Numbered(s)' = Numbered(s) 
  OBVIOUS
<1> QED BY <1>1, <1>2 DEF Inv

LEMMA ConnectingIsNew ==
    ASSUME NEW o \in Connecting
    PROVE  /\ IsNew(o.sock) /\ o.sock.state = "SYN_SENT"
           /\ \A i \in DOMAIN o.sent : o.sent[i].byte = NoByte
<1> PICK a \in UnsetAcks :
       o = Outcome([NewSocket("SYN_SENT", FALSE, TRUE, a) EXCEPT !.caux = 1],
                   <<Segment(NewSocket("SYN_SENT", FALSE, TRUE, a), {"SYN"}, 0)>>)
  BY DEF Connecting
<1> PICK n : n = NewSocket("SYN_SENT", FALSE, TRUE, a)
  OBVIOUS
<1> PICK c : c = Segment(n, {"SYN"}, 0)
  OBVIOUS
<1>1. o.sock = [n EXCEPT !.caux = 1] /\ o.sent = <<c>>
  BY DEF Outcome
<1>2. a \in Nat
  BY UnsetAcksNat
<1> PICK s : s = o.sock
  OBVIOUS
<1>3. n = NewSocket("SYN_SENT", FALSE, TRUE, a) /\ s = [n EXCEPT !.caux = 1]
  BY <1>1
<1>4. IsNew(s) /\ s.state = "SYN_SENT"
  BY ONLY <1>2, <1>3 DEF NewSocket, IsNew, IsSocket
<1>5. c.byte = NoByte
  BY DEF Segment
<1>6. ASSUME NEW i \in DOMAIN o.sent PROVE o.sent[i].byte = NoByte
  BY ONLY <1>1, <1>5, i \in DOMAIN o.sent
<1> QED BY <1>4, <1>6

LEMMA ConnectInv ==
    ASSUME Inv, Connect
    PROVE  Inv'
<1> PICK o \in Connecting : Becomes(o)
  BY DEF Connect
<1>1. IsNew(o.sock) /\ \A i \in DOMAIN o.sent : o.sent[i].byte = NoByte
  BY ConnectingIsNew
<1>2. \A i \in DOMAIN o.sent : AckFits(o.sock, o.sent[i]) /\ InPlace(o.sent[i])
  BY <1>1 DEF AckFits, InPlace, IsNew
<1> QED BY <1>1, <1>2, NewSocketInv, BecomesInv

LEMMA ListenInv ==
    ASSUME Inv, Listen
    PROVE  Inv'
<1> PICK o \in Listening : Becomes(o)
  BY DEF Listen
<1> PICK a \in UnsetAcks : o \in Quietly(NewSocket("LISTEN", TRUE, FALSE, a))
  BY DEF Listening
<1>0. o = Outcome(NewSocket("LISTEN", TRUE, FALSE, a), <<>>)
  BY DEF Quietly
<1>1. o.sock = NewSocket("LISTEN", TRUE, FALSE, a) /\ o.sent = <<>>
  BY <1>0 DEF Outcome
<1>2. IsNew(o.sock)
  BY <1>1, UnsetAcksNat DEF NewSocket, IsNew, IsSocket
<1>3. \A i \in DOMAIN o.sent : AckFits(o.sock, o.sent[i]) /\ InPlace(o.sent[i])
  BY <1>1
<1> QED BY <1>2, <1>3, NewSocketInv, BecomesInv

LEMMA DisconnectInv ==
    ASSUME Inv, Disconnect
    PROVE  Inv'
<1> PICK o \in Disconnected(sock) : Becomes(o)
  BY DEF Disconnect
<1>1. /\ o.sock = [sock EXCEPT !.state = "FIN_WAIT1",
                               !.caux = sock.caux + 1, !.cseq = sock.cseq + 1]
      /\ o.sent = <<Segment(sock, {}, FinAck)>>
  BY DEF Disconnected, Outcome
<1>2. /\ Typed(sock) /\ InStep(sock) /\ Bounded(sock)
      /\ sock.state \in {"ESTABLISHED", "CLOSE_WAIT"} /\ sock.caux < MaxControls
      /\ finished' = TRUE
  BY DEF Inv, Disconnect
<1>3. /\ Typed(o.sock) /\ InStep(o.sock)
      /\ o.sock.buf = sock.buf /\ o.sock.rcv = sock.rcv /\ o.sock.una = sock.una
      /\ o.sock.nxt = sock.nxt /\ o.sock.state = "FIN_WAIT1"
      /\ o.sock.cseq = sock.cseq + 1 /\ o.sock.caux = sock.caux + 1
  BY <1>1, <1>2 DEF Typed, InStep, IsSocket, States
<1>4. Bounded(o.sock)
  BY <1>2, <1>3, ForeignAssumption DEF Bounded, Typed
<1>5. \A i \in DOMAIN o.sent : AckFits(o.sock, o.sent[i])
  BY <1>1, <1>2, <1>3 DEF AckFits, InStep, Segment
<1> QED BY <1>2, <1>3, <1>4, <1>5, BecomesInv

(* A segment keeps the counters in their bounds and the data in place.     *)
LEMMA MovesBounded ==
    ASSUME NEW s, Typed(s), Bounded(s), s.caux < MaxControls, NEW m,
           m.ack \in 0 .. MaxSeq, NEW t, Typed(t), Moves(s, m, t),
           s.state # "NONE"
    PROVE  Bounded(t)
<1>0. {Available, MaxSeq, MaxControls} \subseteq Nat
  BY ForeignAssumption
<1>1. /\ t.cseq <= t.caux /\ t.caux <= MaxControls
      /\ t.state \in {"SYN_SENT", "SYN_RECEIVED"} => t.cseq < t.caux
      /\ t.state # "NONE"
  BY <1>0 DEF Bounded, Typed, Moves, Turns, Stood, Connected, Halves
<1>2. t.una \in -MaxControls - 1 .. MaxSeq
  BY <1>0, <1>1 DEF Bounded, Typed, Moves
<1>3. t.nxt <= Available
  BY DEF Bounded, Moves
<1> QED BY <1>0, <1>1, <1>2, <1>3 DEF Bounded, Typed

LEMMA MovesNumbered ==
    ASSUME NEW s, Typed(s), Numbered(s), NEW m, NEW t, Moves(s, m, t)
    PROVE  Numbered(t)
<1>1. t.passive = s.passive /\ t.timers = s.timers /\ s.cseq \in Nat
  BY DEF Moves, Typed
<1>2. /\ t.state = "LISTEN" => t.passive
      /\ t.passive => t.timers = {}
  BY <1>1 DEF Numbered, Moves, Turns, Stood, Connected, Halves
<1>3. ASSUME ~ t.passive
      PROVE  /\ t.state \in {"SYN_SENT", "SYN_RECEIVED"} => t.cseq = 0
             /\ t.state \in Connected => t.cseq = 1
             /\ t.timers # {} => t.cseq = 1
  BY <1>1, <1>3 DEF Numbered, Moves, Turns, Stood, Connected, Halves
<1> QED BY <1>2, <1>3 DEF Numbered

LEMMA ReceiveInv ==
    ASSUME Inv, NEW m \in PeerSegments, Receive(m)
    PROVE  Inv'
<1> PICK o \in Received(sock, m) : Becomes(o)
  BY DEF Receive
<1>1. /\ Typed(sock) /\ InStep(sock) /\ Bounded(sock)
      /\ finished = FALSE => Numbered(sock)
      /\ sock.caux < MaxControls /\ finished' = finished
  BY DEF Inv, Receive
<1>2. sock.state # "NONE"
  BY <1>1 DEF Receive, Accepts, Bounded
<1>3. IsSegment(m) /\ m.ack \in 0 .. MaxSeq
  BY PeerSegmentTyped
<1>4. Sound(o)
  BY <1>1, <1>3, ReceivedSound
<1>5. Moves(sock, m, o.sock)
  BY <1>1, ReceivedMoves DEF Typed
<1>6. Typed(o.sock) /\ InStep(o.sock)
  BY <1>4 DEF Sound
<1>7. Bounded(o.sock)
  BY <1>1, <1>2, <1>3, <1>5, <1>6, MovesBounded
<1>8. finished' = FALSE => Numbered(o.sock)
  BY <1>1, <1>5, MovesNumbered
<1>9. \A i \in DOMAIN o.sent : AckFits(o.sock, o.sent[i]) /\ InPlace(o.sent[i])
  BY <1>4 DEF Sound, Answers, InPlace
<1> QED BY <1>6, <1>7, <1>8, <1>9, BecomesInv

LEMMA TickInv ==
    ASSUME Inv, Tick
    PROVE  Inv'
<1> PICK o \in Ticked(sock, Available) : Becomes(o)
  BY DEF Tick
<1> PICK s : s = sock
  OBVIOUS
<1>0. {Available, MaxSeq, MaxControls} \subseteq Nat
  BY ForeignAssumption
<1>1. /\ Typed(s) /\ InStep(s) /\ Bounded(s)
      /\ finished = FALSE => Numbered(s)
      /\ finished' = finished
  BY DEF Inv, Tick
<1>2. o \in Ticked(s, Available)
  OBVIOUS
<1>3. /\ Typed(o.sock) /\ InStep(o.sock)
      /\ o.sock.state = s.state /\ o.sock.passive = s.passive
      /\ o.sock.bound = s.bound
      /\ o.sock.cseq = s.cseq /\ o.sock.caux = s.caux /\ o.sock.una = s.una
      /\ \/ o.sock.nxt = s.nxt /\ o.sock.timers \subseteq s.timers
         \/ /\ Sending(s, Available) /\ o.sock.nxt = s.nxt + 1
            /\ o.sock.timers \subseteq s.timers \cup {s.nxt}
      /\ \A i \in DOMAIN o.sent :
            \E k \in s.timers \cup {s.nxt} :
               /\ k < o.sock.nxt
               /\ k = s.nxt => Sending(s, Available)
               /\ IsSegment(o.sent[i]) /\ AckFits(o.sock, o.sent[i])
               /\ o.sent[i].byte = k /\ o.sent[i].seq = s.cseq + k
  BY <1>0, <1>1, <1>2, TickedSound
<1>4. Bounded(o.sock)
  BY <1>0, <1>1, <1>3 DEF Bounded, Typed, Sending
<1>5. Sending(s, Available) => ~ s.passive /\ s.state \in Connected
  BY DEF Sending, Connected
<1>6. finished' = FALSE => Numbered(o.sock)
  BY <1>1, <1>3, <1>5 DEF Numbered
<1>7. \A i \in DOMAIN o.sent : AckFits(o.sock, o.sent[i])
  BY <1>3
<1>8. ASSUME finished' = FALSE, NEW i \in DOMAIN o.sent PROVE InPlace(o.sent[i])
  <2> PICK k \in s.timers \cup {s.nxt} :
         /\ k = s.nxt => Sending(s, Available)
         /\ o.sent[i].byte = k /\ o.sent[i].seq = s.cseq + k
    BY <1>3
  <2>1. s.cseq = 1
    BY <1>1, <1>5, <1>8 DEF Numbered
  <2> QED BY <2>1 DEF InPlace
<1> QED BY <1>3, <1>4, <1>6, <1>7, <1>8, BecomesInv

LEMMA InvInductive == Spec => []Inv
<1>1. Init => Inv
  <2> SUFFICES ASSUME Init PROVE Inv
    OBVIOUS
  <2>1. sock = NoSocket /\ sent = <<>> /\ controls = {}
    BY DEF Init
  <2>2. Typed(sock) /\ InStep(sock) /\ Bounded(sock) /\ Numbered(sock)
    BY <2>1, NewSocketInv DEF NoSocket, NewSocket, IsNew, IsSocket
  <2> QED BY <2>1, <2>2 DEF Inv
<1>2. Inv /\ [Next]_vars => Inv'
  <2> SUFFICES ASSUME Inv, [Next]_vars PROVE Inv'
    OBVIOUS
  <2>1. CASE UNCHANGED vars
    BY <2>1 DEF vars, Inv
  <2>2. CASE Next
    BY <2>2, ConnectInv, ListenInv, DisconnectInv, ReceiveInv, TickInv DEF Next
  <2> QED BY <2>1, <2>2
<1> QED BY <1>1, <1>2, PTL DEF Spec

(* What the socket acknowledges is what its buffer has in a row.           *)
THEOREM AcksAreTrue == Spec => []AcksWhatItHas
<1>1. Inv => AcksWhatItHas
  BY InvImplies
<1> QED BY <1>1, InvInductive, PTL

(* A unit has the same sequence number whenever it is sent.                *)
THEOREM UnitsKeepTheirPlace == Spec => []SentInPlace
<1>1. Inv => SentInPlace
  BY InvImplies
<1> QED BY <1>1, InvInductive, PTL

-----------------------------------------------------------------------------
(* The phase of a state, before a step and after it.                       *)
PhaseFits(state, phase) ==
    /\ state = "NONE" => phase = "idle"
    /\ state = "LISTEN" => phase = "listening"
    /\ state \in {"SYN_SENT", "SYN_RECEIVED"} => phase = "opening"
    /\ state = "ESTABLISHED" => phase = "open"
    /\ state \in Halves => phase = "closing"
    /\ state = "CLOSED" => phase = "closed"

LEMMA PhaseIs == PhaseFits(sock.state, Phase) /\ PhaseFits(sock'.state, Phase')
<1>1. PhaseFits(sock.state, Phase)
  BY DEF PhaseFits, Phase, Closing, Halves, Connected
<1>2. PhaseFits(sock'.state, Phase')
  BY DEF PhaseFits, Phase, Closing, Halves, Connected
<1> QED BY <1>1, <1>2

(* The phases. A segment that finds the socket opened takes it from one    *)
(* phase to a next one, whatever the segment is.                           *)
LEMMA InitLives == Init => Life!Init
<1> SUFFICES ASSUME Init PROVE Life!Init
  OBVIOUS
<1>1. sock.state = "NONE" /\ sock.passive = FALSE
  BY DEF Init, NoSocket, NewSocket
<1> QED BY <1>1, PhaseIs DEF PhaseFits, Life!Init

LEMMA StartLives ==
    ASSUME Inv, Connect \/ Listen
    PROVE  Life!Start
<1>1. sock.state = "NONE"
  BY DEF Connect, Listen, Idle
<1>2. CASE Connect
  <2>1. PICK o \in Connecting : sock' = o.sock
    BY <1>2 DEF Connect, Becomes
  <2>2. sock'.state = "SYN_SENT" /\ sock'.passive = FALSE
    BY <2>1, ConnectingIsNew DEF IsNew
  <2>3. Phase = "idle" /\ Phase' = "opening"
    BY <1>1, <2>2, PhaseIs DEF PhaseFits
  <2> QED BY <2>2, <2>3 DEF Life!Start
<1>3. CASE Listen
  <2>1. PICK o \in Listening : sock' = o.sock
    BY <1>3 DEF Listen, Becomes
  <2>2. PICK a \in UnsetAcks : o = Outcome(NewSocket("LISTEN", TRUE, FALSE, a), <<>>)
    BY DEF Listening, Quietly
  <2>3. sock'.state = "LISTEN" /\ sock'.passive = TRUE
    BY <2>1, <2>2 DEF NewSocket, Outcome
  <2>4. Phase = "idle" /\ Phase' = "listening"
    BY <1>1, <2>3, PhaseIs DEF PhaseFits
  <2> QED BY <2>3, <2>4 DEF Life!Start
<1> QED BY <1>2, <1>3

LEMMA DisconnectLives ==
    ASSUME Inv, Disconnect
    PROVE  Life!Next
<1>1. PICK o \in Disconnected(sock) : sock' = o.sock
  BY DEF Disconnect, Becomes
<1>2. sock' = [sock EXCEPT !.state = "FIN_WAIT1",
                           !.caux = sock.caux + 1, !.cseq = sock.cseq + 1]
  BY <1>1 DEF Disconnected, Outcome
<1>3. /\ sock'.state = "FIN_WAIT1" /\ sock'.passive = sock.passive
      /\ sock.state \in {"ESTABLISHED", "CLOSE_WAIT"}
  BY <1>2 DEF Disconnect, Inv, Typed, IsSocket
<1>4. Phase \in {"open", "closing"} /\ Phase' = "closing"
  BY <1>3, PhaseIs DEF PhaseFits, Halves, Connected
<1> QED BY <1>3, <1>4 DEF Life!Next, Life!Go, Life!Alive, Life!Phases

LEMMA MovesLives ==
    ASSUME Typed(sock), sock.state # "NONE", NEW m, Moves(sock, m, sock')
    PROVE  [Life!Next]_(Life!vars)
<1> PICK s, t : s = sock /\ t = sock'
  OBVIOUS
<1> PICK p, q : p = Phase /\ q = Phase'
  OBVIOUS
<1>1. PhaseFits(s.state, p) /\ PhaseFits(t.state, q)
  BY ONLY PhaseIs, s = sock, t = sock', p = Phase, q = Phase'
<1>2. t.passive = s.passive /\ Turns(s, m, t) /\ s.state \in States \ {"NONE"}
  BY DEF Moves, Typed
<1>3. \/ p = q
      \/ p = "listening" /\ q = "opening"
      \/ p = "opening" /\ q = "open"
      \/ p = "open" /\ q = "closing"
      \/ p \in {"listening", "opening", "open", "closing"} /\ q = "closed"
      \/ /\ s.passive = TRUE /\ q = "listening"
         /\ p \in {"listening", "opening", "open", "closing", "closed"}
  BY <1>1, <1>2 DEF PhaseFits, Turns, Stood, States, Connected, Halves
<1>4. sock'.passive = sock.passive
  BY <1>2
<1> QED
  BY <1>3, <1>4 DEF Life!Next, Life!Go, Life!Alive, Life!Phases, Life!vars

LEMMA TickLives ==
    ASSUME Inv, Tick
    PROVE  UNCHANGED Life!vars
<1>1. PICK o \in Ticked(sock, Available) : sock' = o.sock
  BY DEF Tick, Becomes
<1> PICK s : s = sock
  OBVIOUS
<1>2. Available \in Nat /\ Typed(s) /\ InStep(s) /\ o \in Ticked(s, Available)
  BY <1>1, ForeignAssumption DEF Inv
<1>3. o.sock.state = s.state /\ o.sock.passive = s.passive
  BY <1>2, TickedSound
<1>4. sock'.state = sock.state /\ sock'.passive = sock.passive
  BY <1>1, <1>3
<1> QED BY <1>4 DEF Life!vars, Phase

(* Whatever the peer sends, the socket lives through TcpPhases.            *)
THEOREM SocketLivesThroughPhases == Spec => LivesThroughPhases
<1>1. Inv /\ [Next]_vars => [Life!Next]_(Life!vars)
  <2> SUFFICES ASSUME Inv, [Next]_vars PROVE [Life!Next]_(Life!vars)
    OBVIOUS
  <2>1. CASE UNCHANGED vars
    BY <2>1 DEF vars, Life!vars, Phase
  <2>2. ASSUME NEW m \in PeerSegments, Receive(m)
        PROVE  [Life!Next]_(Life!vars)
    <3>1. PICK o \in Received(sock, m) : sock' = o.sock
      BY <2>2 DEF Receive, Becomes
    <3>2. Typed(sock) /\ sock.state # "NONE"
      BY <2>2 DEF Inv, Bounded, Receive, Accepts
    <3>3. Moves(sock, m, sock')
      BY <3>1, <3>2, ReceivedMoves DEF Typed
    <3> QED BY <3>2, <3>3, MovesLives
  <2>3. CASE Next
    BY <2>2, <2>3, StartLives, DisconnectLives, TickLives DEF Next, Life!Next
  <2> QED BY <2>1, <2>3
<1> QED BY <1>1, InitLives, InvInductive, PTL DEF Spec, LivesThroughPhases, Life!Spec

-----------------------------------------------------------------------------
(* The timers of one socket                                                *)

(* A set that holds 0, and with each number the next, holds them all.      *)
LEMMA HoldsAll ==
    ASSUME NEW N \in Nat, NEW S, 0 \in S,
           \A n \in 1 .. N : n - 1 \in S => n \in S
    PROVE  0 .. N \subseteq S
<1> DEFINE Missing == (0 .. N) \ S
<1> SUFFICES ASSUME Missing # {} PROVE FALSE
  OBVIOUS
<1>1. Missing \in SUBSET Nat
  OBVIOUS
<1> HIDE DEF Missing
<1>2. PICK m \in Missing : \A n \in Missing : m <= n
  BY <1>1, LeastIn
<1> USE DEF Missing
<1>3. m \in 1 .. N /\ m - 1 \in 0 .. N
  OBVIOUS
<1>4. m - 1 \in S
  BY <1>2, <1>3
<1> QED BY <1>3, <1>4

(* A loop that takes a value of V to one of V at each step has a result.   *)
Loops(F, V, N) == \A n \in 1 .. N : \A v \in V : F[n][v] \in V

LEMMA LoopRuns ==
    ASSUME NEW V, NEW v0 \in V, NEW N \in Nat, NEW F, Loops(F, V, N)
    PROVE  \E g \in [0 .. N -> V] :
              g[0] = v0 /\ \A n \in 1 .. N : g[n] = F[n][g[n - 1]]
<1> DEFINE Built(n, g) == g[0] = v0 /\ \A i \in 1 .. n : g[i] = F[i][g[i - 1]]
           S == {n \in 0 .. N : \E g \in [0 .. N -> V] : Built(n, g)}
<1>1. 0 \in S
  <2> DEFINE g == [i \in 0 .. N |-> v0]
  <2>1. g \in [0 .. N -> V] /\ Built(0, g)
    OBVIOUS
  <2> HIDE DEF g, Built
  <2> QED BY <2>1
<1>2. ASSUME NEW n \in 1 .. N, n - 1 \in S
      PROVE  n \in S
  <2>1. PICK g \in [0 .. N -> V] : Built(n - 1, g)
    BY <1>2
  <2> DEFINE k == [g EXCEPT ![n] = F[n][g[n - 1]]]
  <2>2. n - 1 \in 0 .. N /\ n \in 0 .. N /\ n - 1 # n
    OBVIOUS
  <2>3. F[n][g[n - 1]] \in V
    BY <2>2 DEF Loops
  <2>4. k \in [0 .. N -> V] /\ k[n] = F[n][g[n - 1]]
    BY <2>2, <2>3
  <2>5. \A i \in 0 .. N : i # n => k[i] = g[i]
    OBVIOUS
  <2> HIDE DEF k
  <2>6. k[0] = v0
    BY <2>1, <2>5
  <2>7. \A i \in 1 .. n : k[i] = F[i][k[i - 1]]
    <3> TAKE i \in 1 .. n
    <3>1. i \in 0 .. N /\ i - 1 \in 0 .. N /\ i - 1 # n
      OBVIOUS
    <3>2. k[i - 1] = g[i - 1]
      BY <2>5, <3>1
    <3>3. CASE i = n
      BY <2>4, <3>2, <3>3
    <3>4. CASE i # n
      <4>1. i \in 1 .. n - 1
        BY <3>4
      <4> QED BY <2>1, <2>5, <3>1, <3>2, <3>4, <4>1
    <3> QED BY <3>3, <3>4
  <2> QED BY <2>2, <2>4, <2>6, <2>7
<1> HIDE DEF S
<1>3. 0 .. N \subseteq S
  BY <1>1, <1>2, HoldsAll
<1>4. N \in S
  BY <1>3
<1> QED BY <1>4 DEF S

(* The table, or what a tick has made of it so far: of segments that were  *)
(* sent, no two of the same; who never timed out was sent once.            *)
TimerRecords == [start : Nat, active : BOOLEAN, timeout : BOOLEAN,
                 send_time : Nat, once : Nat]

SoundTimer(t, next, now) ==
    /\ t.start < next /\ t.send_time <= now /\ t.once <= now
    /\ ~t.timeout => t.send_time = t.once

SoundTable(ts, next, now) ==
    /\ ts \in Seq(TimerRecords)
    /\ \A i \in DOMAIN ts : SoundTimer(ts[i], next, now)
    /\ \A i, j \in DOMAIN ts : ts[i].start = ts[j].start => i = j

(* Who is done with lies below low, where ticks have seen all acknowledged. *)
Lapsed(ts, low) == \A i \in DOMAIN ts : ~ts[i].active => ts[i].start < low

(* What the first loop makes of one timer.                                 *)
TickOf(t, now) == {t, [t EXCEPT !.timeout = TRUE, !.send_time = now]}
                    \cup (IF Acked(t) THEN {[t EXCEPT !.active = FALSE]} ELSE {})

(* A sample is the time a segment took that was sent once and is           *)
(* acknowledged.                                                           *)
RealSample(sample, ts, now) ==
    sample # 0 => \E i \in DOMAIN ts :
                     Acked(ts[i]) /\ ~ts[i].timeout /\ sample = now - ts[i].send_time

CheckStates == [timers : Seq(TimerRecords), backoff : Nat, sample : Nat]

LEMMA CheckOne ==
    ASSUME NEW t \in TimerRecords, NEW st \in CheckStates, NEW now \in Nat,
           t.send_time <= now
    PROVE  /\ Check(st, t, now) \in CheckStates
           /\ \E u \in TickOf(t, now) :
                 /\ u \in TimerRecords
                 /\ Check(st, t, now).timers = Append(st.timers, u)
           /\ \/ Check(st, t, now).sample = st.sample
              \/ /\ Acked(t) /\ ~t.timeout
                 /\ Check(st, t, now).sample = now - t.send_time
<1> DEFINE c == Check(st, t, now)
           late == [t EXCEPT !.timeout = TRUE, !.send_time = now]
           done == [t EXCEPT !.active = FALSE]
<1>1. late \in TimerRecords /\ done \in TimerRecords
  BY DEF TimerRecords
<1>2. now - t.send_time \in Nat
  BY DEF TimerRecords
<1>3. st.timers \in Seq(TimerRecords) /\ st.backoff \in Nat /\ st.sample \in Nat
  BY DEF CheckStates
<1>4. t \in TickOf(t, now) /\ late \in TickOf(t, now) /\ (Acked(t) => done \in TickOf(t, now))
  BY DEF TickOf
<1> HIDE DEF late, done
<1>5. CASE t.active /\ Due(t, st.backoff, now)
  <2>1. c = [timers |-> Append(st.timers, late), backoff |-> 2 * st.backoff,
             sample |-> st.sample]
    BY <1>5 DEF Check, late
  <2>2. c \in CheckStates
    BY <1>1, <1>3, <2>1 DEF CheckStates
  <2> QED BY <1>1, <1>4, <2>1, <2>2
<1>6. CASE t.active /\ ~Due(t, st.backoff, now) /\ Acked(t)
  <2> DEFINE b == IF t.timeout THEN st.backoff ELSE 1
             s == Sampled(t, st.sample, now)
  <2>1. c = [timers |-> Append(st.timers, done), backoff |-> b, sample |-> s]
    BY <1>6 DEF Check, done
  <2>2. s = st.sample \/ (~t.timeout /\ s = now - t.send_time)
    BY DEF Sampled
  <2>3. s \in Nat /\ b \in Nat
    BY <1>2, <1>3, <2>2
  <2> HIDE DEF b, s
  <2>4. c \in CheckStates
    BY <1>1, <1>3, <2>1, <2>3 DEF CheckStates
  <2> QED BY <1>1, <1>4, <1>6, <2>1, <2>2, <2>4
<1>7. CASE ~t.active \/ (~Due(t, st.backoff, now) /\ ~Acked(t))
  <2>1. c = [st EXCEPT !.timers = Append(@, t)]
    BY <1>7 DEF Check
  <2>2. c = [timers |-> Append(st.timers, t), backoff |-> st.backoff, sample |-> st.sample]
    BY <2>1 DEF CheckStates
  <2>3. c \in CheckStates
    BY <1>3, <2>2 DEF CheckStates
  <2> QED BY <1>4, <2>2, <2>3
<1> QED BY <1>5, <1>6, <1>7

IsCheck(f, timers, now) ==
    f = [i \in 0 .. Len(timers) |->
            IF i = 0
            THEN [timers |-> <<>>, backoff |-> backoff_factor, sample |-> 0]
            ELSE Check(f[i - 1], timers[i], now)]

LEMMA CheckedIs ==
    ASSUME NEW now \in Nat, NEW next \in Nat, NEW timers, SoundTable(timers, next, now),
           backoff_factor \in Nat
    PROVE  /\ Checked(timers, now) \in CheckStates
           /\ Len(Checked(timers, now).timers) = Len(timers)
           /\ \A i \in DOMAIN timers :
                 Checked(timers, now).timers[i] \in TickOf(timers[i], now)
           /\ RealSample(Checked(timers, now).sample, timers, now)
<1> DEFINE N == Len(timers)
           V == CheckStates
           st0 == [timers |-> <<>>, backoff |-> backoff_factor, sample |-> 0]
           upTo == CHOOSE f : IsCheck(f, timers, now)
<1>1. /\ N \in Nat /\ DOMAIN timers = 1 .. N
      /\ \A i \in 1 .. N : timers[i] \in TimerRecords /\ timers[i].send_time <= now
  BY DEF SoundTable, SoundTimer
<1>2. st0 \in V
  BY DEF CheckStates
<1>3. Checked(timers, now) = upTo[N]
  BY Zenon DEF Checked, IsCheck
<1> HIDE DEF upTo, N, V, st0
<1>4. \E f : IsCheck(f, timers, now)
  <2> DEFINE F == [n \in 1 .. N |-> [v \in V |-> Check(v, timers[n], now)]]
  <2>1. \A n \in 1 .. N : \A v \in V : F[n][v] = Check(v, timers[n], now)
    OBVIOUS
  <2> HIDE DEF F
  <2>2. Loops(F, V, N)
    <3> SUFFICES ASSUME NEW n \in 1 .. N, NEW v \in V PROVE F[n][v] \in V
      BY DEF Loops
    <3>1. Check(v, timers[n], now) \in V
      BY <1>1, CheckOne DEF V
    <3> QED BY <2>1, <3>1
  <2>3. PICK g \in [0 .. N -> V] :
           g[0] = st0 /\ \A n \in 1 .. N : g[n] = F[n][g[n - 1]]
    BY ONLY <1>1, <1>2, <2>2, LoopRuns
  <2>4. ASSUME NEW n \in 0 .. N
        PROVE  g[n] = IF n = 0 THEN st0 ELSE Check(g[n - 1], timers[n], now)
    <3>1. CASE n = 0
      BY <2>3, <3>1
    <3>2. CASE n # 0
      <4>1. n \in 1 .. N /\ n - 1 \in 0 .. N
        BY <1>1, <3>2
      <4>2. g[n] = F[n][g[n - 1]] /\ g[n - 1] \in V
        BY <2>3, <4>1
      <4> QED BY <2>1, <3>2, <4>1, <4>2
    <3> QED BY <3>1, <3>2
  <2>5. g = [n \in 0 .. N |-> g[n]]
    OBVIOUS
  <2>6. g = [n \in 0 .. N |-> IF n = 0 THEN st0 ELSE Check(g[n - 1], timers[n], now)]
    BY <2>4, <2>5
  <2> QED BY <2>6 DEF IsCheck, st0, N
<1>5. IsCheck(upTo, timers, now)
  BY <1>4, Zenon DEF upTo
<1>6. \A n \in 0 .. N :
         upTo[n] = IF n = 0 THEN st0 ELSE Check(upTo[n - 1], timers[n], now)
  BY <1>5, Zenon DEF IsCheck, st0, N
<1> DEFINE Good(n, st) ==
              /\ st \in V /\ Len(st.timers) = n
              /\ \A i \in 1 .. n : st.timers[i] \in TickOf(timers[i], now)
              /\ RealSample(st.sample, timers, now)
           S == {n \in 0 .. N : Good(n, upTo[n])}
<1>7. 0 \in S
  <2>1. upTo[0] = st0 /\ 0 \in 0 .. N
    BY <1>1, <1>6
  <2>2. st0.timers = <<>> /\ st0.sample = 0
    BY DEF st0
  <2>3. Good(0, st0)
    BY <1>2, <2>2 DEF RealSample
  <2> QED BY <2>1, <2>3
<1>8. ASSUME NEW n \in 1 .. N, n - 1 \in S
      PROVE  n \in S
  <2> DEFINE st == upTo[n - 1]
             t  == timers[n]
  <2>1. Good(n - 1, st) /\ n \in 0 .. N /\ n # 0
    BY <1>8
  <2>2. upTo[n] = Check(st, t, now)
    BY <1>6, <2>1
  <2>3. t \in TimerRecords /\ t.send_time <= now /\ st \in CheckStates
    BY <1>1, <2>1 DEF V
  <2> HIDE DEF st, t
  <2> DEFINE c == Check(st, t, now)
  <2>4. c \in CheckStates
    BY <2>3, CheckOne
  <2>5. PICK u \in TickOf(t, now) : u \in TimerRecords /\ c.timers = Append(st.timers, u)
    BY <2>3, CheckOne
  <2>6. c.sample = st.sample \/ (Acked(t) /\ ~t.timeout /\ c.sample = now - t.send_time)
    BY <2>3, CheckOne
  <2> HIDE DEF c
  <2>7. st.timers \in Seq(TimerRecords) /\ Len(st.timers) = n - 1
    BY <2>1, <2>3 DEF CheckStates
  <2>8. Len(c.timers) = n
    BY <2>5, <2>7
  <2>9. ASSUME NEW i \in 1 .. n PROVE c.timers[i] \in TickOf(timers[i], now)
    <3>1. CASE i = n
      <4>1. c.timers[i] = u
        BY <2>5, <2>7, <3>1
      <4> QED BY <2>5, <3>1, <4>1 DEF t
    <3>2. CASE i # n
      <4>1. i \in 1 .. n - 1
        BY <3>2
      <4>2. c.timers[i] = st.timers[i]
        BY <2>5, <2>7, <4>1
      <4> QED BY <2>1, <4>1, <4>2
    <3> QED BY <3>1, <3>2
  <2>10. RealSample(c.sample, timers, now)
    <3>1. CASE c.sample = st.sample
      BY <2>1, <3>1
    <3>2. CASE Acked(t) /\ ~t.timeout /\ c.sample = now - t.send_time
      <4>1. n \in DOMAIN timers
        BY <1>1
      <4> QED BY <3>2, <4>1 DEF RealSample, t
    <3> QED BY <2>6, <3>1, <3>2
  <2>11. Good(n, c)
    BY <2>4, <2>8, <2>9, <2>10 DEF V
  <2> QED BY <2>1, <2>2, <2>11 DEF c
<1> HIDE DEF S
<1>9. 0 .. N \subseteq S
  BY ONLY <1>1, <1>7, <1>8, HoldsAll
<1>10. N \in S
  BY <1>1, <1>9
<1>11. Good(N, Checked(timers, now))
  BY <1>3, <1>10 DEF S
<1> QED BY <1>1, <1>11 DEF N, V

LEMMA TickSound ==
    ASSUME NEW now \in Nat, NEW next \in Nat, NEW t \in TimerRecords,
           SoundTimer(t, next, now), NEW u \in TickOf(t, now)
    PROVE  u \in TimerRecords /\ SoundTimer(u, next, now) /\ u.start = t.start
<1>1. u = t \/ u = [t EXCEPT !.timeout = TRUE, !.send_time = now]
        \/ (Acked(t) /\ u = [t EXCEPT !.active = FALSE])
  BY DEF TickOf
<1>2. CASE u = t
  BY <1>2
<1>3. CASE u = [t EXCEPT !.timeout = TRUE, !.send_time = now]
  <2>1. /\ u \in TimerRecords /\ u.start = t.start /\ u.active = t.active
        /\ u.timeout /\ u.send_time = now /\ u.once = t.once
    BY <1>3 DEF TimerRecords
  <2> QED BY <2>1 DEF SoundTimer
<1>4. CASE Acked(t) /\ u = [t EXCEPT !.active = FALSE]
  <2>1. /\ u \in TimerRecords /\ u.start = t.start /\ u.active = FALSE
        /\ u.timeout = t.timeout /\ u.send_time = t.send_time /\ u.once = t.once
    BY <1>4 DEF TimerRecords
  <2> QED BY <1>4, <2>1 DEF SoundTimer
<1> QED BY <1>1, <1>2, <1>3, <1>4

(* The first loop keeps the table sound, and each segment in its place.    *)
LEMMA CheckedSound ==
    ASSUME NEW now \in Nat, NEW next \in Nat, NEW timers, SoundTable(timers, next, now),
           NEW after \in Seq(TimerRecords), Len(after) = Len(timers),
           \A i \in DOMAIN timers : after[i] \in TickOf(timers[i], now)
    PROVE  /\ SoundTable(after, next, now)
           /\ DOMAIN after = DOMAIN timers
           /\ \A i \in DOMAIN timers : after[i].start = timers[i].start
<1>1. /\ DOMAIN after = DOMAIN timers
      /\ \A i \in DOMAIN timers : timers[i] \in TimerRecords
      /\ \A i \in DOMAIN timers : SoundTimer(timers[i], next, now)
  BY DEF SoundTable
<1>2. \A i \in DOMAIN timers :
         SoundTimer(after[i], next, now) /\ after[i].start = timers[i].start
  <2> TAKE i \in DOMAIN timers
  <2>1. /\ timers[i] \in TimerRecords /\ SoundTimer(timers[i], next, now)
        /\ after[i] \in TickOf(timers[i], now)
    BY <1>1
  <2> QED BY <2>1, TickSound
<1>3. \A i, j \in DOMAIN after : after[i].start = after[j].start => i = j
  BY <1>1, <1>2 DEF SoundTable
<1> QED BY <1>1, <1>2, <1>3 DEF SoundTable

-----------------------------------------------------------------------------
(* The second loop                                                         *)

LEMMA SwapOutIs ==
    ASSUME NEW T, NEW ts \in Seq(T), NEW i \in 1 .. Len(ts)
    PROVE  /\ SwapOut(ts, i) \in Seq(T) /\ Len(SwapOut(ts, i)) = Len(ts) - 1
           /\ \A j \in 1 .. Len(ts) - 1 :
                 SwapOut(ts, i)[j] = IF j = i THEN ts[Len(ts)] ELSE ts[j]
<1> DEFINE n == Len(ts)
           us == [ts EXCEPT ![i] = ts[n]]
<1>1. n \in Nat /\ n >= 1 /\ n \in 1 .. n
  OBVIOUS
<1>2. us \in Seq(T) /\ Len(us) = n /\ \A j \in 1 .. n : us[j] = IF j = i THEN ts[n] ELSE ts[j]
  BY <1>1
<1>3. SwapOut(ts, i) = SubSeq(us, 1, n - 1)
  <2>1. SwapOut(ts, i) = SubSeq(us, 1, Len(us) - 1)
    BY Zenon DEF SwapOut, Front, Last
  <2> QED BY <1>2, <2>1
<1> HIDE DEF us, n
<1>4. /\ SubSeq(us, 1, n - 1) \in Seq(T) /\ Len(SubSeq(us, 1, n - 1)) = n - 1
      /\ \A j \in 1 .. n - 1 : SubSeq(us, 1, n - 1)[j] = us[j]
  BY <1>1, <1>2
<1> QED BY <1>1, <1>2, <1>3, <1>4 DEF n

(* One step keeps who is active, and takes at most one that is not.        *)
LEMMA SweepOne ==
    ASSUME NEW now, NEW next, NEW ts, SoundTable(ts, next, now), NEW i \in Nat \ {0}
    PROVE  /\ SoundTable(Sweep(ts, i), next, now)
           /\ \/ Sweep(ts, i) = ts /\ (i <= Len(ts) => ts[i].active)
              \/ /\ i \in 1 .. Len(ts) /\ ~ts[i].active
                 /\ Len(Sweep(ts, i)) = Len(ts) - 1
                 /\ \A j \in 1 .. Len(ts) - 1 :
                       Sweep(ts, i)[j] = IF j = i THEN ts[Len(ts)] ELSE ts[j]
<1>1. ts \in Seq(TimerRecords) /\ Len(ts) \in Nat /\ DOMAIN ts = 1 .. Len(ts)
  BY DEF SoundTable
<1>2. CASE ~(i <= Len(ts) /\ ~ts[i].active)
  BY <1>2 DEF Sweep
<1>3. CASE i <= Len(ts) /\ ~ts[i].active
  <2> DEFINE w == Sweep(ts, i)
             n == Len(ts)
             from(j) == IF j = i THEN n ELSE j
  <2>1. i \in 1 .. n
    BY <1>1, <1>3
  <2>2. w = SwapOut(ts, i)
    BY <1>3 DEF Sweep
  <2>3. /\ w \in Seq(TimerRecords) /\ Len(w) = n - 1
        /\ \A j \in 1 .. n - 1 : w[j] = IF j = i THEN ts[n] ELSE ts[j]
    <3>1. i \in 1 .. Len(ts) /\ ts \in Seq(TimerRecords)
      BY <1>1, <2>1
    <3> DEFINE u == SwapOut(ts, i)
    <3>2. /\ u \in Seq(TimerRecords) /\ Len(u) = Len(ts) - 1
          /\ \A j \in 1 .. Len(ts) - 1 : u[j] = IF j = i THEN ts[Len(ts)] ELSE ts[j]
      BY ONLY <3>1, SwapOutIs
    <3> HIDE DEF u, w
    <3> QED BY <2>2, <3>2 DEF u
  <2> HIDE DEF w
  <2>4. DOMAIN w = 1 .. n - 1
    BY <2>3
  <2>5. \A j \in 1 .. n - 1 : from(j) \in 1 .. n /\ w[j] = ts[from(j)]
    BY <1>1, <2>1, <2>3
  <2>6. \A j, k \in 1 .. n - 1 : from(j) = from(k) => j = k
    BY <1>1
  <2>7. SoundTable(w, next, now)
    BY <1>1, <2>3, <2>4, <2>5, <2>6 DEF SoundTable
  <2> QED BY <1>3, <2>1, <2>3, <2>7 DEF w
<1> QED BY <1>2, <1>3

(* Those at the first i places who are done with and stay.                 *)
LeftOver(ts, i) == {j \in 1 .. i : j <= Len(ts) /\ ~ts[j].active}
DoneStarts(ts)  == {ts[j].start : j \in {j \in DOMAIN ts : ~ts[j].active}}

(* For each that is left over another was taken out.                       *)
Paid(ts, i, acked) ==
    /\ DoneStarts(ts) \subseteq acked
    /\ \E gone \in SUBSET acked :
          /\ gone \cap DoneStarts(ts) = {}
          /\ Cardinality(LeftOver(ts, i)) <= Cardinality(gone)

LEMMA SweepPays ==
    ASSUME NEW now, NEW next, NEW ts, SoundTable(ts, next, now), NEW i \in Nat \ {0},
           NEW acked, IsFiniteSet(acked), Paid(ts, i - 1, acked)
    PROVE  Paid(Sweep(ts, i), i, acked)
<1> DEFINE w == Sweep(ts, i)
           n == Len(ts)
<1>1. /\ ts \in Seq(TimerRecords) /\ n \in Nat /\ DOMAIN ts = 1 .. n
      /\ \A j, k \in 1 .. n : ts[j].start = ts[k].start => j = k
      /\ i \in Nat /\ i >= 1 /\ i - 1 \in Nat
  BY DEF SoundTable
<1>2. PICK gone \in SUBSET acked :
         /\ gone \cap DoneStarts(ts) = {}
         /\ Cardinality(LeftOver(ts, i - 1)) <= Cardinality(gone)
  BY DEF Paid
<1>3. IsFiniteSet(gone) /\ Cardinality(gone) \in Nat
  BY <1>2, FS_Subset, FS_CardinalityType
<1>4. \A s, k : k \in Nat => IsFiniteSet(LeftOver(s, k))
  <2> SUFFICES ASSUME NEW s, NEW k \in Nat PROVE IsFiniteSet(LeftOver(s, k))
    OBVIOUS
  <2>1. IsFiniteSet(1 .. k)
    BY FS_Interval
  <2>2. LeftOver(s, k) \in SUBSET (1 .. k)
    BY DEF LeftOver
  <2> QED BY <2>1, <2>2, FS_Subset
<1>5. CASE w = ts /\ (i <= n => ts[i].active)
  <2>1. LeftOver(ts, i) = LeftOver(ts, i - 1)
    BY <1>1, <1>5 DEF LeftOver
  <2> QED BY <1>5, <2>1 DEF Paid
<1>6. CASE /\ i \in 1 .. n /\ ~ts[i].active /\ Len(w) = n - 1
           /\ \A j \in 1 .. n - 1 : w[j] = IF j = i THEN ts[n] ELSE ts[j]
  <2> DEFINE s == ts[i].start
             gone2 == gone \cup {s}
  <2>0. SoundTable(w, next, now)
    BY SweepOne
  <2> HIDE DEF w
  <2>1. DOMAIN w = 1 .. n - 1
    BY <1>6, <2>0 DEF SoundTable
  <2>2. s \in DoneStarts(ts)
    BY <1>1, <1>6 DEF DoneStarts
  <2>3. DoneStarts(w) \subseteq DoneStarts(ts) \ {s}
    <3> SUFFICES ASSUME NEW j \in 1 .. n - 1, ~w[j].active
                 PROVE  w[j].start \in DoneStarts(ts) /\ w[j].start # s
      BY <2>1 DEF DoneStarts
    <3> DEFINE k == IF j = i THEN n ELSE j
    <3>1. k \in 1 .. n /\ w[j] = ts[k] /\ k # i
      <4>1. w[j] = IF j = i THEN ts[n] ELSE ts[j]
        BY <1>6
      <4>2. n \in Nat /\ i \in 1 .. n /\ j \in 1 .. n - 1
        BY <1>1, <1>6
      <4>3. k \in 1 .. n /\ k # i
        BY <4>2
      <4> QED BY <4>1, <4>3
    <3> HIDE DEF k
    <3>2. ts[k].start \in DoneStarts(ts)
      BY <1>1, <3>1 DEF DoneStarts
    <3> QED BY <1>1, <1>6, <3>1, <3>2
  <2>4. gone2 \in SUBSET acked /\ gone2 \cap DoneStarts(w) = {}
    BY <1>2, <2>2, <2>3 DEF Paid
  <2>5. Cardinality(gone2) = Cardinality(gone) + 1
    BY <1>2, <1>3, <2>2, FS_AddElement
  <2>6. LeftOver(w, i) \subseteq LeftOver(ts, i - 1) \cup {i}
    BY <1>1, <1>6 DEF LeftOver
  <2>7. Cardinality(LeftOver(w, i)) <= Cardinality(LeftOver(ts, i - 1)) + 1
    <3> DEFINE L == LeftOver(ts, i - 1)
               M == LeftOver(w, i)
    <3>1. IsFiniteSet(L) /\ IsFiniteSet(M)
      BY <1>1, <1>4
    <3> HIDE DEF L, M
    <3>2. /\ IsFiniteSet(L \cup {i})
          /\ Cardinality(L \cup {i}) = IF i \in L THEN Cardinality(L) ELSE Cardinality(L) + 1
      BY <3>1, FS_AddElement
    <3>3. Cardinality(M) <= Cardinality(L \cup {i})
      BY <2>6, <3>2, FS_Subset DEF L, M
    <3>4. Cardinality(L) \in Nat /\ Cardinality(M) \in Nat
      BY <3>1, FS_CardinalityType
    <3> QED BY <3>2, <3>3, <3>4 DEF L, M
  <2>8. Cardinality(LeftOver(w, i)) \in Nat /\ Cardinality(LeftOver(ts, i - 1)) \in Nat
    BY <1>1, <1>4, FS_CardinalityType
  <2>9. Cardinality(LeftOver(w, i)) <= Cardinality(gone2)
    BY <1>2, <1>3, <2>5, <2>7, <2>8
  <2>10. DoneStarts(w) \subseteq acked
    BY <2>3 DEF Paid
  <2> QED BY <2>4, <2>9, <2>10 DEF Paid, w
<1> QED BY <1>5, <1>6, SweepOne

(* What is left over in the end is at most half of what was done with.     *)
LEMMA PaidIsHalf ==
    ASSUME NEW now, NEW next, NEW ts, SoundTable(ts, next, now), NEW N \in Nat,
           Len(ts) <= N, NEW acked, IsFiniteSet(acked), Paid(ts, N, acked)
    PROVE  2 * Done(ts) <= Cardinality(acked)
<1> DEFINE J == {j \in DOMAIN ts : ~ts[j].active}
           D == DoneStarts(ts)
           h == [j \in J |-> ts[j].start]
<1>1. /\ Len(ts) \in Nat /\ DOMAIN ts = 1 .. Len(ts)
      /\ \A j, k \in DOMAIN ts : ts[j].start = ts[k].start => j = k
  BY DEF SoundTable
<1>2. J = LeftOver(ts, N)
  BY <1>1 DEF LeftOver
<1>3. D \subseteq acked
  BY DEF Paid
<1>4. IsFiniteSet(D) /\ Cardinality(D) \in Nat
  BY <1>3, FS_Subset, FS_CardinalityType
<1>5. IsFiniteSet(J) /\ Cardinality(J) <= Cardinality(D)
  <2>1. h \in [J -> D]
    BY DEF DoneStarts
  <2>2. \A a, b \in J : h[a] = h[b] => a = b
    BY <1>1
  <2>3. h \in Injection(J, D)
    BY <2>1, <2>2, Fun_IsInj
  <2> HIDE DEF J, D, h
  <2> QED BY <1>4, <2>3, FS_Injection
<1>6. PICK gone \in SUBSET acked :
         gone \cap D = {} /\ Cardinality(J) <= Cardinality(gone)
  BY <1>2 DEF Paid
<1>7. IsFiniteSet(gone) /\ Cardinality(gone) \in Nat
  BY <1>6, FS_Subset, FS_CardinalityType
<1>8. Cardinality(gone \cup D) = Cardinality(gone) + Cardinality(D)
  <2>1. Cardinality(gone \cap D) = 0
    BY <1>6, FS_EmptySet
  <2>2. Cardinality(gone \cup D)
           = Cardinality(gone) + Cardinality(D) - Cardinality(gone \cap D)
    BY <1>4, <1>7, FS_Union
  <2> QED BY <1>4, <1>7, <2>1, <2>2
<1>9. Cardinality(gone \cup D) <= Cardinality(acked)
  BY <1>3, <1>6, FS_Subset
<1>10. Cardinality(acked) \in Nat /\ Cardinality(J) \in Nat
  BY <1>5, FS_CardinalityType
<1>11. Done(ts) = Cardinality(J)
  BY DEF Done
<1> HIDE DEF J, D
<1> QED BY <1>4, <1>5, <1>6, <1>7, <1>8, <1>9, <1>10, <1>11

(* Nobody who is active is lost, and nobody comes in.                      *)
Keeps(ts, v) ==
    /\ \A i \in DOMAIN ts : ts[i].active => \E j \in DOMAIN v : v[j] = ts[i]
    /\ \A j \in DOMAIN v : \E i \in DOMAIN ts : v[j] = ts[i]
    /\ Len(v) <= Len(ts)

LEMMA SweepKeeps ==
    ASSUME NEW now, NEW next, NEW ts, SoundTable(ts, next, now),
           NEW v, SoundTable(v, next, now), Keeps(ts, v), NEW i \in Nat \ {0}
    PROVE  Keeps(ts, Sweep(v, i))
<1> DEFINE w == Sweep(v, i)
           n == Len(v)
<1>1. /\ n \in Nat /\ DOMAIN v = 1 .. n /\ Len(ts) \in Nat
      /\ n <= Len(ts)
  BY DEF SoundTable, Keeps
<1>2. CASE w = v
  BY <1>2
<1>3. CASE /\ i \in 1 .. n /\ ~v[i].active /\ Len(w) = n - 1
           /\ \A j \in 1 .. n - 1 : w[j] = IF j = i THEN v[n] ELSE v[j]
  <2>0. SoundTable(w, next, now)
    BY SweepOne
  <2> HIDE DEF w
  <2>1. DOMAIN w = 1 .. n - 1
    BY <1>3, <2>0 DEF SoundTable
  <2>2. ASSUME NEW k \in DOMAIN ts, ts[k].active
        PROVE  \E j \in DOMAIN w : w[j] = ts[k]
    <3>1. PICK j \in 1 .. n : v[j] = ts[k]
      BY <1>1, <2>2 DEF Keeps
    <3>2. j # i
      BY <1>3, <2>2, <3>1
    <3>3. CASE j = n
      <4>1. i \in 1 .. n - 1 /\ w[i] = v[n]
        <5>1. i \in 1 .. n - 1
          <6>1. i \in 1 .. n /\ i # n
            BY <1>3, <3>2, <3>3
          <6> HIDE DEF n
          <6> QED BY ONLY <1>1, <6>1
        <5> QED BY <1>3, <5>1
      <4> QED BY <2>1, <3>1, <3>3, <4>1
    <3>4. CASE j # n
      <4>1. j \in 1 .. n - 1 /\ w[j] = v[j]
        <5>1. j \in 1 .. n - 1
          <6>1. j \in 1 .. n /\ j # n
            BY <3>1, <3>4
          <6> HIDE DEF n
          <6> QED BY ONLY <1>1, <6>1
        <5> QED BY <1>3, <3>2, <5>1
      <4> QED BY <2>1, <3>1, <4>1
    <3> QED BY <3>3, <3>4
  <2>3. ASSUME NEW j \in DOMAIN w PROVE \E k \in DOMAIN ts : w[j] = ts[k]
    <3>1. \E l \in DOMAIN v : w[j] = v[l]
      BY <1>1, <1>3, <2>1
    <3> QED BY <3>1 DEF Keeps
  <2>4. Len(w) <= Len(ts)
    BY <1>1, <1>3
  <2> QED BY <2>2, <2>3, <2>4 DEF Keeps, w
<1> QED BY <1>2, <1>3, SweepOne

IsSweep(f, timers) ==
    f = [i \in 0 .. Len(timers) |-> IF i = 0 THEN timers ELSE Sweep(f[i - 1], i)]

LEMMA SweptIs ==
    ASSUME NEW now, NEW next, NEW ts, SoundTable(ts, next, now),
           NEW acked, IsFiniteSet(acked), DoneStarts(ts) \subseteq acked
    PROVE  /\ SoundTable(Swept(ts), next, now) /\ Keeps(ts, Swept(ts))
           /\ 2 * Done(Swept(ts)) <= Cardinality(acked)
<1> DEFINE N == Len(ts)
           V == {v \in Seq(TimerRecords) : SoundTable(v, next, now)}
           upTo == CHOOSE f : IsSweep(f, ts)
<1>1. N \in Nat /\ DOMAIN ts = 1 .. N /\ ts \in V
  BY DEF SoundTable
<1>2. \A v \in V, i \in Nat \ {0} : Sweep(v, i) \in V
  <2> SUFFICES ASSUME NEW v \in V, NEW i \in Nat \ {0} PROVE Sweep(v, i) \in V
    OBVIOUS
  <2>1. SoundTable(Sweep(v, i), next, now)
    BY SweepOne
  <2> QED BY <2>1 DEF SoundTable
<1>3. Swept(ts) = upTo[N]
  BY Zenon DEF Swept, IsSweep
<1> HIDE DEF upTo, N, V
<1>4. \E f : IsSweep(f, ts)
  <2> DEFINE F == [n \in 1 .. N |-> [v \in V |-> Sweep(v, n)]]
  <2>1. \A n \in 1 .. N : \A v \in V : F[n][v] = Sweep(v, n)
    OBVIOUS
  <2> HIDE DEF F
  <2>2. Loops(F, V, N)
    BY <1>1, <1>2, <2>1 DEF Loops
  <2>3. PICK g \in [0 .. N -> V] :
           g[0] = ts /\ \A n \in 1 .. N : g[n] = F[n][g[n - 1]]
    BY ONLY <1>1, <2>2, LoopRuns
  <2>4. ASSUME NEW n \in 0 .. N
        PROVE  g[n] = IF n = 0 THEN ts ELSE Sweep(g[n - 1], n)
    <3>1. CASE n = 0
      BY <2>3, <3>1
    <3>2. CASE n # 0
      <4>1. n \in 1 .. N /\ n - 1 \in 0 .. N
        BY <1>1, <3>2
      <4>2. g[n] = F[n][g[n - 1]] /\ g[n - 1] \in V
        BY <2>3, <4>1
      <4> QED BY <2>1, <3>2, <4>1, <4>2
    <3> QED BY <3>1, <3>2
  <2>5. g = [n \in 0 .. N |-> g[n]]
    OBVIOUS
  <2>6. g = [n \in 0 .. N |-> IF n = 0 THEN ts ELSE Sweep(g[n - 1], n)]
    BY <2>4, <2>5
  <2> QED BY <2>6 DEF IsSweep, N
<1>5. IsSweep(upTo, ts)
  BY <1>4, Zenon DEF upTo
<1>6. \A n \in 0 .. N : upTo[n] = IF n = 0 THEN ts ELSE Sweep(upTo[n - 1], n)
  BY <1>5, Zenon DEF IsSweep, N
<1> DEFINE Good(n, v) == /\ SoundTable(v, next, now) /\ Keeps(ts, v)
                         /\ Paid(v, n, acked)
           S == {n \in 0 .. N : Good(n, upTo[n])}
<1>7. 0 \in S
  <2>1. upTo[0] = ts /\ 0 \in 0 .. N
    BY <1>1, <1>6
  <2>2. Keeps(ts, ts)
    BY <1>1 DEF Keeps, N
  <2>3. Paid(ts, 0, acked)
    <3>1. LeftOver(ts, 0) = {}
      BY DEF LeftOver
    <3>2. {} \in SUBSET acked /\ {} \cap DoneStarts(ts) = {}
      OBVIOUS
    <3>3. Cardinality(LeftOver(ts, 0)) <= Cardinality({})
      BY <3>1, FS_EmptySet
    <3> QED BY <3>2, <3>3 DEF Paid
  <2>4. Good(0, ts)
    BY <2>2, <2>3
  <2> QED BY <2>1, <2>4
<1>8. ASSUME NEW n \in 1 .. N, n - 1 \in S
      PROVE  n \in S
  <2> DEFINE v == upTo[n - 1]
  <2>1. Good(n - 1, v) /\ n \in 0 .. N /\ n # 0 /\ n \in Nat \ {0}
    BY <1>1, <1>8
  <2>2. upTo[n] = Sweep(v, n)
    BY <1>6, <2>1
  <2> HIDE DEF v
  <2>3. Good(n, Sweep(v, n))
    BY <2>1, SweepOne, SweepKeeps, SweepPays
  <2> QED BY <2>1, <2>2, <2>3
<1> HIDE DEF S
<1>9. 0 .. N \subseteq S
  BY ONLY <1>1, <1>7, <1>8, HoldsAll
<1>10. N \in S
  BY <1>1, <1>9
<1>11. Good(N, Swept(ts))
  BY <1>3, <1>10 DEF S
<1>12. Len(Swept(ts)) <= N
  BY <1>11 DEF Keeps, N
<1>13. 2 * Done(Swept(ts)) <= Cardinality(acked)
  BY <1>1, <1>11, <1>12, PaidIsHalf
<1> QED BY <1>11, <1>13

-----------------------------------------------------------------------------
(* The estimate, and the tick as a whole                                   *)

(* With a sample that is not 0, neither the estimate nor the timeout is.   *)
LEMMA UpdateStays ==
    ASSUME NEW sample \in Nat \ {0}, srtt \in Nat, rttvar \in Nat, UpdateRtt(sample)
    PROVE  srtt' \in Nat /\ rttvar' \in Nat /\ rto' \in Nat /\ rto' >= 1
<1> DEFINE s == IF srtt = 0 THEN sample ELSE srtt
           v == IF srtt = 0 THEN sample \div 2 ELSE rttvar
           err == Deviation(sample, s)
<1>1. /\ srtt' = (7 * s + sample) \div 8 /\ rttvar' = (3 * v + err) \div 4
      /\ rto' = srtt' + 4 * rttvar'
  BY DEF UpdateRtt
<1>2. s \in Nat /\ s >= 1
  OBVIOUS
<1>3. v \in Nat
  <2>1. sample \div 2 \in Nat
    OBVIOUS
  <2> QED BY <2>1
<1> HIDE DEF s, v
<1>4. err \in Nat
  BY <1>2 DEF Deviation
<1> HIDE DEF err
<1>5. \A n \in Nat : n >= 8 => n \div 8 \in Nat /\ n \div 8 >= 1
  OBVIOUS
<1>6. \A n \in Nat : n \div 4 \in Nat
  OBVIOUS
<1>7. 7 * s + sample \in Nat /\ 7 * s + sample >= 8 /\ 3 * v + err \in Nat
  BY <1>2, <1>3, <1>4
<1>8. srtt' \in Nat /\ srtt' >= 1 /\ rttvar' \in Nat
  BY <1>1, <1>5, <1>6, <1>7
<1> QED BY <1>1, <1>8

(* Each segment that no tick has seen acknowledged has its timer, if the   *)
(* table never was full.                                                   *)
Covers(ts, low, next) ==
    \A s \in low .. next - 1 : \E i \in DOMAIN ts : ts[i].start = s

TimersInv ==
    /\ SoundTable(tcp_timers, send_next, time) /\ Len(tcp_timers) <= MaxTimers
    /\ Lapsed(tcp_timers, seen)
    /\ ~dropped => Covers(tcp_timers, seen, send_next)
    /\ time \in 0 .. MaxTime
    /\ {send_next, send_unacknowledged, seen} \subseteq 0 .. MaxSegments
    /\ backoff_factor \in Nat /\ rtt_sample \in Nat
    /\ srtt \in Nat /\ rttvar \in Nat /\ rto \in Nat /\ rto >= 1
    /\ rtt_sample_available \in BOOLEAN /\ dropped \in BOOLEAN

LEMMA InitTimers == TimerInit => TimersInv
<1> SUFFICES ASSUME TimerInit PROVE TimersInv
  OBVIOUS
<1>1. SoundTable(<<>>, 0, 0) /\ Lapsed(<<>>, 0) /\ Covers(<<>>, 0, 0)
  BY DEF SoundTable, Lapsed, Covers
<1>2. /\ MaxTimers \in Nat /\ MaxTime \in Nat /\ MaxSegments \in Nat
      /\ InitialRto \in Nat /\ InitialRto # 0
  BY TimerAssumption
<1>3. Len(tcp_timers) = 0 /\ SoundTable(tcp_timers, send_next, time)
      /\ Lapsed(tcp_timers, seen) /\ Covers(tcp_timers, seen, send_next)
  BY <1>1 DEF TimerInit
<1>4. time = 0 /\ send_next = 0 /\ send_unacknowledged = 0 /\ seen = 0 /\ backoff_factor = 1
  BY DEF TimerInit
<1>5. /\ rto = InitialRto /\ srtt = 0 /\ rttvar = 0 /\ rtt_sample = 0
      /\ rtt_sample_available \in BOOLEAN /\ dropped \in BOOLEAN
  BY DEF TimerInit
<1> QED BY <1>2, <1>3, <1>4, <1>5 DEF TimersInv

(* The segment that is sent, if one is, takes its place behind the others, *)
(* or none.                                                                *)
LEMMA EnteredSound ==
    ASSUME TimersInv, NEW n \in 0 .. 1
    PROVE  /\ SoundTable(Entered(n, time + 1), send_next + n, time + 1)
           /\ Len(Entered(n, time + 1)) <= MaxTimers
           /\ Lapsed(Entered(n, time + 1), seen)
           /\ ~dropped /\ (n = 0 \/ Entered(n, time + 1) # tcp_timers) =>
                 Covers(Entered(n, time + 1), seen, send_next + n)
           /\ \A i \in DOMAIN Entered(n, time + 1) :
                 \/ Entered(n, time + 1)[i] \in Timers
                 \/ Entered(n, time + 1)[i].send_time = time + 1
<1> DEFINE m  == Len(tcp_timers)
           ts == Entered(n, time + 1)
           t  == Timer(send_next, time + 1)
<1>1. /\ tcp_timers \in Seq(TimerRecords) /\ m \in Nat /\ DOMAIN tcp_timers = 1 .. m
      /\ \A i \in 1 .. m : SoundTimer(tcp_timers[i], send_next, time)
      /\ \A i \in 1 .. m : tcp_timers[i] \in TimerRecords
      /\ \A i, j \in 1 .. m : tcp_timers[i].start = tcp_timers[j].start => i = j
      /\ m <= MaxTimers /\ MaxTimers \in Nat
      /\ send_next \in Nat /\ time \in Nat /\ seen \in Nat
      /\ Lapsed(tcp_timers, seen)
  BY TimerAssumption DEF TimersInv, SoundTable
<1>2. \A i \in 1 .. m : SoundTimer(tcp_timers[i], send_next, time + 1)
                        /\ SoundTimer(tcp_timers[i], send_next + 1, time + 1)
                        /\ tcp_timers[i].start # send_next
  <2> TAKE i \in 1 .. m
  <2> DEFINE r == tcp_timers[i]
  <2>1. r \in TimerRecords /\ SoundTimer(r, send_next, time)
        /\ send_next \in Nat /\ time \in Nat
    BY <1>1
  <2>2. SoundTimer(r, send_next, time + 1)
        /\ SoundTimer(r, send_next + 1, time + 1)
        /\ r.start # send_next
    <3> HIDE DEF r, m, ts, t
    <3> QED BY ONLY <2>1 DEF SoundTimer, TimerRecords
  <2> QED BY <2>2
<1>3. \A i \in 1 .. m : tcp_timers[i] \in Timers
  BY <1>1 DEF Timers
<1>4. SoundTable(tcp_timers, send_next, time + 1) /\ SoundTable(tcp_timers, send_next + 1, time + 1)
  BY <1>1, <1>2 DEF SoundTable
<1>5. CASE n = 0
  <2>1. ts = tcp_timers /\ send_next + n = send_next
    BY <1>1, <1>5 DEF Entered
  <2> QED BY <1>1, <1>3, <1>4, <1>5, <2>1 DEF TimersInv
<1>6. CASE n = 1
  <2>1. ts = AddTimer(tcp_timers, t)
    BY <1>6 DEF Entered
  <2>2. /\ t \in TimerRecords /\ t.start = send_next /\ t.active /\ ~t.timeout
        /\ t.send_time = time + 1 /\ t.once = time + 1
    BY <1>1 DEF Timer, TimerRecords
  <2> HIDE DEF t, ts
  <2>3. CASE m >= MaxTimers
    <3>1. ts = tcp_timers
      BY <2>1, <2>3 DEF AddTimer
    <3> QED BY <1>1, <1>3, <1>4, <1>6, <3>1 DEF ts
  <2>4. CASE ~(m >= MaxTimers)
    <3>1. ts = Append(tcp_timers, t)
      BY <2>1, <2>4 DEF AddTimer
    <3>2. /\ ts \in Seq(TimerRecords) /\ DOMAIN ts = 1 .. m + 1 /\ Len(ts) = m + 1
          /\ \A i \in 1 .. m : ts[i] = tcp_timers[i]
          /\ ts[m + 1] = t
      BY <1>1, <2>2, <3>1
    <3>3. SoundTimer(t, send_next + 1, time + 1)
      BY <1>1, <2>2 DEF SoundTimer
    <3>4. \A i \in 1 .. m + 1 : i \in 1 .. m \/ i = m + 1
      BY <1>1
    <3>5. \A i \in 1 .. m + 1 : SoundTimer(ts[i], send_next + 1, time + 1)
      BY <1>2, <3>2, <3>3, <3>4
    <3>6. \A i, j \in 1 .. m + 1 : ts[i].start = ts[j].start => i = j
      BY <1>1, <1>2, <2>2, <3>2, <3>4
    <3>7. SoundTable(ts, send_next + 1, time + 1)
      BY <3>2, <3>5, <3>6 DEF SoundTable
    <3>8. Len(ts) <= MaxTimers
      BY <1>1, <2>4, <3>2
    <3>9. Lapsed(ts, seen)
      BY <1>1, <2>2, <3>2, <3>4 DEF Lapsed
    <3>10. ASSUME ~dropped PROVE Covers(ts, seen, send_next + 1)
      <4> SUFFICES ASSUME NEW s \in seen .. (send_next + 1) - 1
                   PROVE  \E i \in 1 .. m + 1 : ts[i].start = s
        BY <3>2 DEF Covers
      <4>1. CASE s = send_next
        <5>1. m + 1 \in 1 .. m + 1
          BY <1>1
        <5> QED BY <2>2, <3>2, <4>1, <5>1
      <4>2. CASE s # send_next
        <5>1. s \in seen .. send_next - 1
          BY <1>1, <4>2
        <5>2. PICK i \in 1 .. m : tcp_timers[i].start = s
          BY <1>1, <3>10, <5>1 DEF TimersInv, Covers
        <5>3. i \in 1 .. m + 1 /\ ts[i] = tcp_timers[i]
          BY <1>1, <3>2
        <5> QED BY <5>2, <5>3
      <4> QED BY <4>1, <4>2
    <3>11. \A i \in 1 .. m + 1 : ts[i] \in Timers \/ ts[i].send_time = time + 1
      BY <1>3, <2>2, <3>2, <3>4
    <3> QED BY <1>6, <3>2, <3>7, <3>8, <3>9, <3>10, <3>11 DEF ts
  <2> QED BY <2>3, <2>4
<1> QED BY <1>5, <1>6

(* The segments of the timers that are done with, or will be in this tick. *)
FinishedIn(ts) == {i \in DOMAIN ts : ~ts[i].active \/ Acked(ts[i])}
FinishedStarts(ts) == {ts[i].start : i \in FinishedIn(ts)}

LEMMA FinishedFinite ==
    ASSUME NEW ts \in Seq(TimerRecords)
    PROVE  /\ IsFiniteSet(FinishedStarts(ts))
           /\ Cardinality(FinishedStarts(ts)) \in Nat /\ Finished(ts) \in Nat
           /\ Cardinality(FinishedStarts(ts)) <= Finished(ts)
<1> DEFINE I == FinishedIn(ts)
           g == [i \in I |-> ts[i].start]
<1>1. IsFiniteSet(I)
  <2>1. I \in SUBSET (1 .. Len(ts)) /\ Len(ts) \in Nat
    BY DEF FinishedIn
  <2>2. IsFiniteSet(1 .. Len(ts))
    BY <2>1, FS_Interval
  <2> HIDE DEF I
  <2> QED BY <2>1, <2>2, FS_Subset
<1>2. g \in Surjection(I, FinishedStarts(ts))
  <2>1. g \in [I -> FinishedStarts(ts)] /\ \A s \in FinishedStarts(ts) : \E i \in I : g[i] = s
    BY DEF FinishedStarts
  <2> QED BY <2>1, Fun_IsSurj
<1>3. Finished(ts) = Cardinality(I)
  BY DEF Finished, FinishedIn
<1> HIDE DEF g, I
<1>4. IsFiniteSet(FinishedStarts(ts)) /\ Cardinality(FinishedStarts(ts)) <= Cardinality(I)
  BY <1>1, <1>2, FS_Surjection
<1> QED BY <1>1, <1>3, <1>4, FS_CardinalityType

(* A whole tick: the table stays sound, keeps a timer of each segment that *)
(* no tick has seen acknowledged, and loses at least half of those that    *)
(* are done with.                                                          *)
LEMMA TickKeeps ==
    ASSUME TimersInv, Expired
    PROVE  /\ TimersInv'
           /\ 2 * Done(tcp_timers') <= Finished(Entered(send_next' - send_next, time'))
           /\ rtt_sample' # rtt_sample =>
                 \E t \in Timers : /\ Acked(t) /\ t.send_time = t.once
                                   /\ rtt_sample' = time' - t.once
<1> DEFINE now == time + 1
<1>1. PICK n \in 0 .. 1 :
        LET timers  == Entered(n, now)
            checked == Checked(timers, now)
            sample  == IF checked.sample # 0 THEN checked.sample ELSE rtt_sample
            ready   == checked.sample # 0 \/ rtt_sample_available
            update  == now % Period = 0 /\ sample # 0 /\ ready
        IN  /\ time < MaxTime /\ send_next + n <= MaxSegments
            /\ time' = now
            /\ send_next' = send_next + n
            /\ dropped' = (dropped \/ (n = 1 /\ timers = tcp_timers))
            /\ seen' = IF send_unacknowledged > seen THEN send_unacknowledged ELSE seen
            /\ backoff_factor' = checked.backoff
            /\ tcp_timers' = Swept(checked.timers)
            /\ rtt_sample' = sample
            /\ rtt_sample_available' = (ready /\ ~update)
            /\ IF update THEN UpdateRtt(sample) ELSE UNCHANGED <<rto, srtt, rttvar>>
            /\ UNCHANGED send_unacknowledged
  BY Zenon DEF Expired
<1> DEFINE ts == Entered(n, now)
           next == send_next + n
           c == Checked(ts, now)
           sw == Swept(c.timers)
           sample == IF c.sample # 0 THEN c.sample ELSE rtt_sample
           update == now % Period = 0 /\ sample # 0 /\ (c.sample # 0 \/ rtt_sample_available)
<1>2. /\ time \in Nat /\ now \in Nat /\ next \in Nat /\ send_next \in Nat
      /\ send_unacknowledged \in Nat /\ send_unacknowledged <= MaxSegments
      /\ seen \in Nat /\ seen <= MaxSegments
      /\ backoff_factor \in Nat /\ rtt_sample \in Nat /\ srtt \in Nat /\ rttvar \in Nat
      /\ MaxTime \in Nat /\ MaxSegments \in Nat
  BY TimerAssumption DEF TimersInv
<1>3. /\ SoundTable(ts, next, now) /\ Len(ts) <= MaxTimers
      /\ Lapsed(ts, seen)
      /\ ~dropped /\ (n = 0 \/ ts # tcp_timers) => Covers(ts, seen, next)
      /\ \A i \in DOMAIN ts : ts[i] \in Timers \/ ts[i].send_time = now
  BY EnteredSound
<1>4. /\ time < MaxTime /\ next <= MaxSegments /\ time' = now /\ send_next' = next
      /\ dropped' = (dropped \/ (n = 1 /\ ts = tcp_timers))
      /\ seen' = IF send_unacknowledged > seen THEN send_unacknowledged ELSE seen
      /\ backoff_factor' = c.backoff /\ tcp_timers' = sw /\ rtt_sample' = sample
      /\ rtt_sample_available' \in BOOLEAN
      /\ IF update THEN UpdateRtt(sample) ELSE UNCHANGED <<rto, srtt, rttvar>>
      /\ send_unacknowledged' = send_unacknowledged
  BY <1>1, Zenon
<1> HIDE DEF ts, next, now, c, sw
<1>5. /\ c \in CheckStates /\ Len(c.timers) = Len(ts)
      /\ \A i \in DOMAIN ts : c.timers[i] \in TickOf(ts[i], now)
      /\ RealSample(c.sample, ts, now)
  BY <1>2, <1>3, CheckedIs DEF c
<1>6. c.timers \in Seq(TimerRecords) /\ c.backoff \in Nat /\ c.sample \in Nat
  BY <1>5 DEF CheckStates
<1>7. /\ SoundTable(c.timers, next, now) /\ DOMAIN c.timers = DOMAIN ts
      /\ \A i \in DOMAIN ts : c.timers[i].start = ts[i].start
  BY <1>2, <1>3, <1>5, <1>6, CheckedSound
<1>8. \A i \in DOMAIN ts : ~c.timers[i].active => ~ts[i].active \/ Acked(ts[i])
  <2> SUFFICES ASSUME NEW i \in DOMAIN ts, ~c.timers[i].active, ts[i].active
               PROVE  Acked(ts[i])
    OBVIOUS
  <2>1. ts[i] \in TimerRecords /\ c.timers[i] \in TickOf(ts[i], now)
    BY <1>3, <1>5 DEF SoundTable
  <2> QED BY <2>1 DEF TickOf, TimerRecords
<1>9. /\ DoneStarts(c.timers) \subseteq FinishedStarts(ts)
      /\ IsFiniteSet(FinishedStarts(ts))
      /\ Cardinality(FinishedStarts(ts)) \in Nat /\ Finished(ts) \in Nat
      /\ Cardinality(FinishedStarts(ts)) <= Finished(ts)
  <2>1. DoneStarts(c.timers) \subseteq FinishedStarts(ts)
    BY <1>7, <1>8 DEF DoneStarts, FinishedStarts, FinishedIn
  <2>2. ts \in Seq(TimerRecords)
    BY <1>3 DEF SoundTable
  <2> QED BY <2>1, <2>2, FinishedFinite
<1>10. /\ SoundTable(sw, next, now) /\ Keeps(c.timers, sw)
       /\ 2 * Done(sw) <= Cardinality(FinishedStarts(ts))
  BY <1>7, <1>9, SweptIs DEF sw
<1>11. 2 * Done(tcp_timers') <= Finished(Entered(send_next' - send_next, time'))
  <2> DEFINE D == {i \in DOMAIN sw : ~sw[i].active}
  <2>1. Done(sw) = Cardinality(D)
    BY DEF Done
  <2>2. D \subseteq 1 .. Len(sw) /\ Len(sw) \in Nat
    BY <1>10 DEF SoundTable
  <2>3. IsFiniteSet(D)
    BY <2>2, FS_Interval, FS_Subset
  <2> HIDE DEF D
  <2>4. Done(sw) \in Nat
    BY <2>1, <2>3, FS_CardinalityType
  <2>5. Done(tcp_timers') = Done(sw)
    BY <1>4
  <2>6. Entered(send_next' - send_next, time') = ts
    <3>1. send_next' - send_next = n
      BY <1>2, <1>4 DEF next
    <3> QED BY <1>4, <3>1 DEF ts, now
  <2> QED BY <1>9, <1>10, <2>4, <2>5, <2>6
<1>12. /\ seen' \in 0 .. MaxSegments /\ seen <= seen' /\ send_unacknowledged <= seen'
       /\ seen' \in Nat
  BY <1>2, <1>4
<1>13. Lapsed(c.timers, seen')
  <2> SUFFICES ASSUME NEW i \in DOMAIN ts, ~c.timers[i].active
               PROVE  c.timers[i].start < seen'
    BY <1>7 DEF Lapsed
  <2>1. ts[i].start \in Nat /\ c.timers[i].start = ts[i].start
    <3>1. ts[i] \in TimerRecords
      BY <1>3 DEF SoundTable
    <3> QED BY <1>7, <3>1 DEF TimerRecords
  <2>2. ts[i].start < seen \/ ts[i].start + 1 <= send_unacknowledged
    BY <1>3, <1>8 DEF Lapsed, Acked
  <2> QED BY <1>2, <1>12, <2>1, <2>2
<1>14. Lapsed(sw, seen')
  BY <1>10, <1>13 DEF Keeps, Lapsed
<1>15. ~dropped' => Covers(sw, seen', next)
  <2> SUFFICES ASSUME ~dropped', NEW s \in seen' .. next - 1
               PROVE  \E j \in DOMAIN sw : sw[j].start = s
    BY DEF Covers
  <2>1. Covers(ts, seen, next)
    <3>1. ~dropped /\ ~(n = 1 /\ ts = tcp_timers)
      BY <1>4, Zenon
    <3>2. n = 0 \/ n = 1
      OBVIOUS
    <3> QED BY <1>3, <3>1, <3>2, Zenon
  <2>2. s \in seen .. next - 1 /\ ~(s < seen')
    BY <1>2, <1>12
  <2>3. PICK i \in DOMAIN ts : ts[i].start = s
    BY <2>1, <2>2 DEF Covers
  <2>4. c.timers[i].start = s /\ i \in DOMAIN c.timers
    BY <1>7, <2>3
  <2>5. c.timers[i].active
    BY <1>13, <2>2, <2>4 DEF Lapsed
  <2> QED BY <1>10, <2>4, <2>5 DEF Keeps
<1>16. Len(sw) <= MaxTimers
  <2>1. Len(sw) <= Len(ts)
    BY <1>5, <1>10 DEF Keeps
  <2>2. Len(sw) \in Nat /\ Len(ts) \in Nat /\ MaxTimers \in Nat
    BY <1>3, <1>10, TimerAssumption DEF SoundTable
  <2> QED BY <1>3, <2>1, <2>2
<1>17. sample \in Nat
  BY <1>2, <1>6
<1>18. srtt' \in Nat /\ rttvar' \in Nat /\ rto' \in Nat /\ rto' >= 1
  <2>1. CASE update
    <3>1. UpdateRtt(sample) /\ sample # 0
      BY <1>4, <2>1
    <3> HIDE DEF sample
    <3> QED BY <1>2, <1>17, <3>1, UpdateStays
  <2>2. CASE ~update
    BY <1>4, <2>2 DEF TimersInv
  <2> QED BY <2>1, <2>2
<1>19. now \in 0 .. MaxTime /\ {next, send_unacknowledged, seen'} \subseteq 0 .. MaxSegments
  BY <1>2, <1>4, <1>12 DEF now
<1>20. TimersInv'
  BY <1>4, <1>6, <1>10, <1>16, <1>17, <1>18, <1>19, <1>14, <1>15
     DEF TimersInv, SoundTable, SoundTimer, Lapsed, Covers
<1>21. ASSUME rtt_sample' # rtt_sample
       PROVE  \E t \in Timers : /\ Acked(t) /\ t.send_time = t.once
                                /\ rtt_sample' = time' - t.once
  <2>1. c.sample # 0 /\ rtt_sample' = c.sample
    BY <1>4, <1>21
  <2>2. PICK i \in DOMAIN ts :
           Acked(ts[i]) /\ ~ts[i].timeout /\ c.sample = now - ts[i].send_time
    BY <1>5, <2>1 DEF RealSample
  <2>3. ts[i].send_time = ts[i].once
    BY <1>3, <2>2 DEF SoundTable, SoundTimer
  <2>4. ts[i] \in Timers
    BY <1>2, <1>3, <2>1, <2>2
  <2> QED BY <1>4, <2>1, <2>2, <2>3, <2>4
<1> QED BY <1>11, <1>20, <1>21

LEMMA NextTimers == TimersInv /\ [TimerNext]_timerVars => TimersInv'
<1> SUFFICES ASSUME TimersInv, [TimerNext]_timerVars PROVE TimersInv'
  OBVIOUS
<1>1. CASE Expired
  BY <1>1, TickKeeps
<1>2. ASSUME NEW a \in 0 .. MaxSegments, AcknowledgedBelow(a) PROVE TimersInv'
  BY <1>2 DEF AcknowledgedBelow, estimate, TimersInv, SoundTable, SoundTimer, Lapsed, Covers
<1>3. CASE UNCHANGED timerVars
  BY <1>3 DEF timerVars, estimate, TimersInv, SoundTable, SoundTimer, Lapsed, Covers
<1> QED BY <1>1, <1>2, <1>3 DEF TimerNext

THEOREM TimersSound == TimerSpec => []TimersInv
<1> QED BY InitTimers, NextTimers, PTL DEF TimerSpec

(* However the two loops swap the entries of the table, and whatever order *)
(* acknowledgements come in, a segment has one timer at most, and until a  *)
(* tick sees it acknowledged an active one, unless the table was full when *)
(* it was sent (tcp_timer.cpp 51-111, tcp.cpp 168).                        *)
THEOREM EachSegmentHasOne == TimerSpec => []EachHasOne
<1>1. TimersInv => EachHasOne
  <2> SUFFICES ASSUME TimersInv PROVE EachHasOne
    OBVIOUS
  <2>1. /\ DOMAIN tcp_timers = 1 .. Len(tcp_timers) /\ Len(tcp_timers) \in Nat
        /\ \A i \in DOMAIN tcp_timers :
              tcp_timers[i] \in TimerRecords /\ SoundTimer(tcp_timers[i], send_next, time)
        /\ \A i, j \in DOMAIN tcp_timers :
              tcp_timers[i].start = tcp_timers[j].start => i = j
        /\ send_next \in Nat /\ seen \in Nat /\ time \in Nat
    BY TimerAssumption DEF TimersInv, SoundTable
  <2>2. TimersTyped
    <3>1. ASSUME NEW t \in Timers
          PROVE  /\ t.start \in 0 .. send_next - 1
                 /\ {t.active, t.timeout} \subseteq BOOLEAN
                 /\ t.send_time \in 0 .. time /\ t.once \in 0 .. time
      <4>1. t \in TimerRecords /\ SoundTimer(t, send_next, time)
        BY <2>1 DEF Timers
      <4> QED BY <2>1, <4>1 DEF TimerRecords, SoundTimer
    <3>2. {backoff_factor, rto, srtt, rttvar, rtt_sample} \subseteq Nat
      BY DEF TimersInv
    <3>3. {rtt_sample_available, dropped} \subseteq BOOLEAN
      BY DEF TimersInv
    <3> QED BY <3>1, <3>2, <3>3 DEF TimersTyped, TimersInv
  <2>3. ASSUME NEW s \in 0 .. send_next - 1
        PROVE  LET its == {i \in DOMAIN tcp_timers : tcp_timers[i].start = s}
               IN  /\ Cardinality(its) <= 1
                   /\ s >= seen /\ ~dropped => \E i \in its : tcp_timers[i].active
    <3> DEFINE its == {i \in DOMAIN tcp_timers : tcp_timers[i].start = s}
    <3>1. Cardinality(its) <= 1
      <4>1. CASE its = {}
        <5>1. Cardinality(its) = 0
          BY <4>1, FS_EmptySet, Zenon
        <5> QED BY <5>1
      <4>2. ASSUME NEW i \in its PROVE Cardinality(its) <= 1
        <5>1. its = {i}
          BY <2>1
        <5>2. Cardinality(its) = 1
          BY <5>1, FS_Singleton, Zenon
        <5> QED BY <5>2
      <4> QED BY <4>1, <4>2
    <3>2. ASSUME s >= seen, ~dropped PROVE \E i \in its : tcp_timers[i].active
      <4>1. s \in seen .. send_next - 1 /\ ~(s < seen)
        BY <2>1, <3>2
      <4>2. PICK i \in DOMAIN tcp_timers : tcp_timers[i].start = s
        BY <3>2, <4>1 DEF TimersInv, Covers
      <4>3. tcp_timers[i].active
        BY <4>1, <4>2 DEF TimersInv, Lapsed
      <4> QED BY <4>2, <4>3
    <3> QED BY <3>1, <3>2
  <2> QED BY <2>2, <2>3 DEF EachHasOne
<1> QED BY <1>1, TimersSound, PTL

(* The integer divisions never make the timeout vanish (tcp_timer.cpp      *)
(* 124-138).                                                               *)
THEOREM TimeoutNeverVanishes == TimerSpec => []TimeoutStays
<1>1. TimersInv => TimeoutStays
  BY DEF TimersInv, TimeoutStays
<1> QED BY <1>1, TimersSound, PTL

(* Of the timers that a tick finds done with, those that waited included,  *)
(* at least half go (tcp_timer.cpp 104-111).                               *)
THEOREM TicksSweepHalf == TimerSpec => SweepsHalf
<1>1. TimersInv /\ [TimerNext]_timerVars =>
         [time' # time =>
            2 * Done(tcp_timers')
               <= Finished(Entered(send_next' - send_next, time'))]_timerVars
  <2> SUFFICES ASSUME TimersInv, TimerNext, time' # time
               PROVE  2 * Done(tcp_timers')
                         <= Finished(Entered(send_next' - send_next, time'))
    OBVIOUS
  <2>1. Expired
    BY DEF TimerNext, AcknowledgedBelow
  <2> QED BY <2>1, TickKeeps
<1> QED BY <1>1, TimersSound, PTL DEF TimerSpec, SweepsHalf

(* A sample is the time that a segment took which was sent once (Karn).    *)
THEOREM SamplesAreReal == TimerSpec => SampleIsReal
<1>1. TimersInv /\ [TimerNext]_timerVars =>
         [rtt_sample' # rtt_sample =>
            \E t \in Timers : /\ Acked(t) /\ t.send_time = t.once
                              /\ rtt_sample' = time' - t.once]_timerVars
  <2> SUFFICES ASSUME TimersInv, TimerNext, rtt_sample' # rtt_sample
               PROVE  \E t \in Timers : /\ Acked(t) /\ t.send_time = t.once
                                        /\ rtt_sample' = time' - t.once
    OBVIOUS
  <2>1. Expired
    BY DEF TimerNext, AcknowledgedBelow, estimate
  <2> QED BY <2>1, TickKeeps
<1> QED BY <1>1, TimersSound, PTL DEF TimerSpec, SampleIsReal

-----------------------------------------------------------------------------
(* The reassembly buffer of one socket                                     *)

ChunkRecords ==
    {c \in [start : 0 .. Top, size : 0 .. Top, next : Pointers, prev : Pointers] :
        c.start + c.size <= Top}

Memories == [Addresses -> ChunkRecords]

(* Pointers lead to chunks in use unless they are bad.                     *)
Living(h, U) ==
    \A a \in U : {h[a].next, h[a].prev} \subseteq U \cup {Null, Unset}

(* Chunk b comes after a, with nothing between them.                       *)
Adjoining(h, U, a, b) ==
    /\ h[a].start < h[b].start
    /\ \A c \in U : h[c].start <= h[a].start \/ h[b].start <= h[c].start

(* The list f heads, whatever its links that are bad lead to: a link goes  *)
(* to the chunk that comes next, and that chunk's prev comes back; a last  *)
(* chunk is the highest and the first the lowest; no chunk is lost unless  *)
(* there is a bad link.                                                    *)
Strung(h, U, f) ==
    /\ U \subseteq Addresses /\ f \in U
    /\ Living(h, U)
    /\ \A a \in U : h[a].next \in U =>
           h[h[a].next].prev = a /\ Adjoining(h, U, a, h[a].next)
    /\ \A a \in U : h[a].next = Null => \A c \in U : h[c].start <= h[a].start
    /\ \A a \in U : h[a].prev \in U => h[h[a].prev].start < h[a].start
    /\ h[f].prev = Null
    /\ \A c \in U : h[f].start <= h[c].start
    /\ (\A a \in U : h[a].next # Unset) =>
           \A a \in U \ {f} : \E b \in U : h[b].next = a

Before(h, a, b) == h[a].start + h[a].size < h[b].start

(* Any two chunks have a gap between them.                                 *)
List(h, U, f) ==
    /\ Strung(h, U, f)
    /\ \A a, b \in U : a # b => Before(h, a, b) \/ Before(h, b, a)

(* While Add's walk takes the segment in, so have any two but x, the chunk *)
(* that has it: that one may reach over those that come after it.          *)
Joining(h, U, f, x) ==
    /\ Strung(h, U, f) /\ x \in U
    /\ \A a, b \in U \ {x} : a # b => Before(h, a, b) \/ Before(h, b, a)
    /\ \A c \in U \ {x} : Before(h, c, x) \/ h[x].start < h[c].start

(* The sequence numbers of a chunk, and of all.                            *)
BytesOf(c) == c.start .. c.start + c.size - 1

BytesIn(h, U) == UNION {BytesOf(h[a]) : a \in U}

LEMMA RecordsTyped ==
    ASSUME NEW h \in Memories, NEW a \in Addresses
    PROVE  /\ h[a].start \in Int /\ h[a].size \in Int
           /\ 0 <= h[a].start /\ 0 <= h[a].size
           /\ h[a].start + h[a].size <= Top
           /\ h[a].next \in Pointers /\ h[a].prev \in Pointers
           /\ h[a].start \in 0 .. Top /\ h[a].size \in 0 .. Top
BY BufferAssumption DEF Memories, ChunkRecords

HasBad(h, U) == \E a \in U : h[a].next = Unset

(* The order of the chunks says all: if it stays, and the links do, so     *)
(* does what is said of them.                                              *)
LEMMA OrderKeeps ==
    ASSUME NEW h \in Memories, NEW k \in Memories, NEW U \in SUBSET Addresses,
           NEW f \in U, Strung(h, U, f),
           \A a \in U : k[a].next = h[a].next /\ k[a].prev = h[a].prev,
           \A a, b \in U : k[a].start <= k[b].start <=> h[a].start <= h[b].start
    PROVE  Strung(k, U, f)
<1>1. \A a \in U : k[a].start \in Int /\ h[a].start \in Int
  BY RecordsTyped
<1>2. \A a, b \in U : k[a].start < k[b].start <=> h[a].start < h[b].start
  BY <1>1
<1>3. \A a, b \in U : Adjoining(h, U, a, b) => Adjoining(k, U, a, b)
  BY <1>2 DEF Adjoining
<1>4. Living(k, U)
  BY DEF Strung, Living
<1>5. \A a \in U : k[a].next \in U =>
          k[k[a].next].prev = a /\ Adjoining(k, U, a, k[a].next)
  BY <1>3 DEF Strung
<1>6. \A a \in U : k[a].next = Null => \A c \in U : k[c].start <= k[a].start
  BY DEF Strung
<1>7. \A a \in U : k[a].prev \in U => k[k[a].prev].start < k[a].start
  BY <1>2 DEF Strung
<1>8. /\ k[f].prev = Null
      /\ \A c \in U : k[f].start <= k[c].start
      /\ (\A a \in U : k[a].next # Unset) =>
             \A a \in U \ {f} : \E b \in U : k[b].next = a
  BY DEF Strung
<1> QED BY <1>4, <1>5, <1>6, <1>7, <1>8 DEF Strung

(* Where Add's walk stands before it has found a chunk that the segment    *)
(* s, z touches: at t, having left l, which ends before the segment.       *)
Reached(h, U, f, l, t, s) ==
    \/ l = Null /\ t = f
    \/ l \in U /\ t = h[l].next /\ h[l].start + h[l].size < s

LEMMA LowerChunksEnd ==
    ASSUME NEW h \in Memories, NEW U \in SUBSET Addresses, NEW f \in U, List(h, U, f),
           NEW l, NEW t \in U, NEW s \in Nat, Reached(h, U, f, l, t, s)
    PROVE  /\ \A c \in U : h[c].start < h[t].start => h[c].start + h[c].size < s
           /\ l # Null => h[t].prev = l /\ l \in U /\ l # t
           /\ l = Null => t = f
<1>1. \A a \in U : h[a].start \in Int /\ h[a].size \in Int /\ 0 <= h[a].size
  BY RecordsTyped
<1>2. CASE l = Null /\ t = f
  BY <1>1, <1>2 DEF List, Strung
<1>3. CASE l \in U /\ t = h[l].next /\ h[l].start + h[l].size < s
  <2>1. h[t].prev = l /\ Adjoining(h, U, l, t)
    BY <1>3 DEF List, Strung
  <2>2. l # Null
    BY <1>3 DEF Addresses, Null
  <2>3. \A c \in U : h[c].start < h[t].start => h[c].start <= h[l].start
    BY <1>1, <1>3, <2>1 DEF Adjoining
  <2>4. ASSUME NEW c \in U, h[c].start < h[t].start
        PROVE  h[c].start + h[c].size < s
    <3>1. CASE c = l
      BY <1>3, <3>1
    <3>2. CASE c # l
      <4>1. Before(h, c, l) \/ Before(h, l, c)
        BY <1>3, <3>2 DEF List
      <4> QED BY <1>1, <1>3, <2>3, <2>4, <4>1 DEF Before
    <3> QED BY <3>1, <3>2
  <2>5. l # t
    BY <1>1, <1>3, <2>1 DEF Adjoining
  <2> QED BY <1>3, <2>1, <2>2, <2>4, <2>5
<1> QED BY <1>2, <1>3 DEF Reached

(* What chunk t becomes when it takes a segment in, and what is before it  *)
(* stays before it.                                                        *)
Lesser(a, b) == IF a < b THEN a ELSE b

Greater(a, b) == IF a > b THEN a ELSE b

Takes(h, k, U, t, s, z) ==
    /\ \A a \in U : k[a].next = h[a].next /\ k[a].prev = h[a].prev
    /\ \A a \in U \ {t} : k[a].start = h[a].start /\ k[a].size = h[a].size
    /\ k[t].start = Lesser(s, h[t].start)
    /\ k[t].start + k[t].size = Greater(h[t].start + h[t].size, s + z)

Overlaps(h, t, s, z) == h[t].start + h[t].size >= s /\ s + z >= h[t].start

(* The bytes of k are those of h and the segment's.                        *)
Gains(h, U, k, V, s, z) == BytesIn(k, V) = BytesIn(h, U) \cup (s .. s + z - 1)

LEMMA TakesFirst ==
    ASSUME NEW h \in Memories, NEW k \in Memories, NEW U \in SUBSET Addresses,
           NEW f \in U, List(h, U, f),
           NEW l, NEW t \in U, NEW s \in Nat, NEW z \in Nat, Reached(h, U, f, l, t, s),
           Overlaps(h, t, s, z), Takes(h, k, U, t, s, z)
    PROVE  Joining(k, U, f, t) /\ Gains(h, U, k, U, s, z)
<1> USE DEF Takes, Overlaps, Gains
<1>1. \A a \in U : /\ h[a].start \in Int /\ h[a].size \in Int /\ 0 <= h[a].size
                   /\ k[a].start \in Int /\ k[a].size \in Int /\ 0 <= k[a].size
  BY RecordsTyped
<1>2. \A c \in U : h[c].start < h[t].start => h[c].start + h[c].size < s
  BY LowerChunksEnd
<1>3. k[t].start <= h[t].start /\ k[t].start <= s /\ (k[t].start = s \/ k[t].start = h[t].start)
  BY <1>1 DEF Lesser
<1>4. \A c \in U \ {t} : Before(h, c, t) \/ Before(h, t, c)
  BY DEF List
<1>5. \A c \in U \ {t} : \/ h[c].start < h[t].start /\ h[c].start + h[c].size < k[t].start
                         \/ h[c].start > h[t].start /\ h[c].start > k[t].start
  <2> TAKE c \in U \ {t}
  <2>1. CASE Before(h, c, t)
    <3>1. h[c].start < h[t].start
      BY <1>1, <2>1 DEF Before
    <3> QED BY <1>1, <1>2, <1>3, <2>1, <3>1 DEF Before
  <2>2. CASE Before(h, t, c)
    BY <1>1, <1>3, <2>2 DEF Before
  <2> QED BY <1>4, <2>1, <2>2
<1>6. \A a, b \in U : k[a].start <= k[b].start <=> h[a].start <= h[b].start
  <2> TAKE a, b \in U
  <2>1. CASE a # t /\ b # t
    BY <2>1
  <2>2. CASE a = t /\ b # t
    BY <1>1, <1>5, <2>2
  <2>3. CASE a # t /\ b = t
    BY <1>1, <1>5, <2>3
  <2>4. CASE a = t /\ b = t
    BY <1>1, <2>4
  <2> QED BY <2>1, <2>2, <2>3, <2>4
<1>7. Strung(k, U, f)
  BY <1>6, OrderKeeps DEF List
<1>8. \A a, b \in U \ {t} : a # b => Before(k, a, b) \/ Before(k, b, a)
  BY DEF List, Before
<1>9. \A c \in U \ {t} : Before(k, c, t) \/ k[t].start < k[c].start
  BY <1>1, <1>5 DEF Before
<1>10. BytesOf(k[t]) = BytesOf(h[t]) \cup (s .. s + z - 1)
  BY <1>1 DEF BytesOf, Lesser, Greater
<1>11. \A a \in U \ {t} : BytesOf(k[a]) = BytesOf(h[a])
  BY DEF BytesOf
<1>12. BytesIn(k, U) = BytesIn(h, U) \cup (s .. s + z - 1)
  <2> DEFINE seg == s .. s + z - 1
  <2> HIDE DEF seg
  <2>1. BytesOf(k[t]) = BytesOf(h[t]) \cup seg
    BY <1>10 DEF seg
  <2>2. BytesIn(k, U) \subseteq BytesIn(h, U) \cup seg
    BY <1>11, <2>1 DEF BytesIn
  <2>3. BytesIn(h, U) \cup seg \subseteq BytesIn(k, U)
    BY <1>11, <2>1 DEF BytesIn
  <2> QED BY <2>2, <2>3 DEF seg
<1> QED BY <1>7, <1>8, <1>9, <1>12 DEF Joining

(* The next chunk t takes the place of x, the one that had the segment; x  *)
(* is freed, and links to it are bad.                                      *)
Forgotten(c, x, d) ==
    /\ d.next = IF c.next = x THEN Unset ELSE c.next
    /\ d.prev = IF c.prev = x THEN Unset ELSE c.prev

Displaces(h, k, U, x, t) ==
    /\ \A a \in U \ {x, t} : /\ k[a].start = h[a].start /\ k[a].size = h[a].size
                              /\ Forgotten(h[a], x, k[a])
    /\ k[t].start = h[x].start
    /\ k[t].start + k[t].size = Greater(h[t].start + h[t].size, h[x].start + h[x].size)
    /\ k[t].next = IF h[t].next = x THEN Unset ELSE h[t].next
    /\ k[t].prev = IF h[x].prev = x THEN Unset ELSE h[x].prev

(* A bad link that comes up is the one of the chunk before x.              *)
OnlyBelow(h, k, U, f, x) ==
    \A a \in U \ {x} : k[a].next = Unset =>
        h[a].next = Unset \/ (f # x /\ h[a].start < h[x].start)

StaysBad(h, k, U, x) == \A a \in U : h[a].next = Unset => a # x /\ k[a].next = Unset

Reaches(h, x, t) == h[x].start + h[x].size >= h[t].start

LEMMA TakesNext ==
    ASSUME NEW h \in Memories, NEW k \in Memories, NEW U \in SUBSET Addresses,
           NEW f \in U, NEW x \in U, NEW t \in U, Joining(h, U, f, x), h[x].next = t,
           Reaches(h, x, t), Displaces(h, k, U, x, t)
    PROVE  /\ Joining(k, U \ {x}, IF f = x THEN t ELSE f, t)
           /\ BytesIn(k, U \ {x}) = BytesIn(h, U)
           /\ OnlyBelow(h, k, U, f, x) /\ StaysBad(h, k, U, x)
<1> USE DEF Displaces, Reaches
<1> DEFINE V == U \ {x}
           g == IF f = x THEN t ELSE f
<1>1. \A a \in U : /\ h[a].start \in Int /\ h[a].size \in Int /\ 0 <= h[a].size
                   /\ k[a].start \in Int /\ k[a].size \in Int /\ 0 <= k[a].size
  BY RecordsTyped
<1>2. U \subseteq Addresses /\ Null \notin U /\ Unset \notin U /\ x # Unset /\ x # Null
  BY DEF Addresses, Null, Unset
<1>3. h[t].prev = x /\ Adjoining(h, U, x, t)
  BY DEF Joining, Strung
<1>4. t # x /\ t \in V /\ h[x].start < h[t].start
  BY <1>1, <1>3 DEF Adjoining
<1>5. \A c \in U \ {x, t} : \/ Before(h, c, x) /\ h[c].start < h[x].start /\ h[c].start < h[t].start
                            \/ h[x].start < h[c].start /\ h[t].start < h[c].start
  <2> TAKE c \in U \ {x, t}
  <2>1. Before(h, c, x) \/ h[x].start < h[c].start
    BY DEF Joining
  <2>2. CASE Before(h, c, x)
    BY <1>1, <1>4, <2>2 DEF Before
  <2>3. CASE h[x].start < h[c].start
    <3>1. h[t].start <= h[c].start
      BY <1>1, <1>3, <2>3 DEF Adjoining
    <3>2. Before(h, c, t) \/ Before(h, t, c)
      BY <1>4 DEF Joining
    <3> QED BY <1>1, <2>3, <3>1, <3>2 DEF Before
  <2> QED BY <2>1, <2>2, <2>3
<1>6. \A a, b \in V : k[a].start <= k[b].start <=> h[a].start <= h[b].start
  <2> TAKE a, b \in V
  <2>1. CASE a # t /\ b # t
    BY <2>1
  <2>2. CASE a = t /\ b # t
    BY <1>1, <1>5, <2>2
  <2>3. CASE a # t /\ b = t
    BY <1>1, <1>5, <2>3
  <2>4. CASE a = t /\ b = t
    BY <1>1, <2>4
  <2> QED BY <2>1, <2>2, <2>3, <2>4
<1>7. \A a, b \in V : k[a].start < k[b].start <=> h[a].start < h[b].start
  BY <1>1, <1>6
<1>8. \A a \in V : /\ h[a].next # x => k[a].next = h[a].next
                   /\ h[a].next = x => k[a].next = Unset
  BY DEF Forgotten
<1>9. h[t].next # x /\ h[x].prev # x
  <2>1. h[t].next = x => h[t].start < h[x].start
    BY DEF Joining, Strung, Adjoining
  <2>2. h[x].prev = x => h[x].start < h[x].start
    BY DEF Joining, Strung
  <2> QED BY <1>1, <1>4, <2>1, <2>2
<1>10. Living(k, V)
  <2>1. \A a \in U : {h[a].next, h[a].prev} \subseteq U \cup {Null, Unset}
    BY DEF Joining, Strung, Living
  <2>2. \A a \in V : a # t => {k[a].next, k[a].prev} \subseteq V \cup {Null, Unset}
    BY <2>1 DEF Forgotten
  <2>3. {k[t].next, k[t].prev} \subseteq V \cup {Null, Unset}
    BY <2>1, <1>9
  <2> QED BY <2>2, <2>3 DEF Living
<1>11. ASSUME NEW a \in V, k[a].next \in V
       PROVE  k[k[a].next].prev = a /\ Adjoining(k, V, a, k[a].next)
  <2> DEFINE b == h[a].next
  <2>1. k[a].next = b /\ b \in V /\ b # x
    BY <1>2, <1>8, <1>11
  <2>2. h[b].prev = a /\ Adjoining(h, U, a, b)
    BY <2>1 DEF Joining, Strung
  <2>3. b # t
    BY <1>3, <2>2
  <2>4. k[b].prev = a
    BY <2>1, <2>2, <2>3 DEF Forgotten
  <2>5. Adjoining(k, V, a, b)
    <3> HIDE DEF b, V
    <3>1. V \subseteq U
      BY DEF V
    <3> QED BY <1>6, <1>7, <2>1, <2>2, <3>1 DEF Adjoining
  <2> QED BY <2>1, <2>4, <2>5
<1>12. \A a \in V : k[a].next = Null => \A c \in V : k[c].start <= k[a].start
  <2>1. \A a \in V : k[a].next = Null => h[a].next = Null
    BY <1>8 DEF Null, Unset
  <2>2. \A a \in U : h[a].next = Null => \A c \in U : h[c].start <= h[a].start
    BY DEF Joining, Strung
  <2> QED BY <1>6, <2>1, <2>2
<1>13. \A a \in V : k[a].prev \in V => k[k[a].prev].start < k[a].start
  <2>1. \A a \in U : h[a].prev \in U => h[h[a].prev].start < h[a].start
    BY DEF Joining, Strung
  <2>2. ASSUME NEW a \in V, k[a].prev \in V, a # t
        PROVE  k[k[a].prev].start < k[a].start
    <3>1. k[a].prev = h[a].prev
      BY <1>2, <2>2 DEF Forgotten
    <3> QED BY <1>7, <2>1, <2>2, <3>1
  <2>3. ASSUME k[t].prev \in V
        PROVE  k[k[t].prev].start < k[t].start
    <3>1. k[t].prev = h[x].prev
      BY <1>9
    <3> DEFINE p == k[t].prev
    <3>2. p \in U \ {x} /\ h[p].start < h[x].start
      BY <2>1, <2>3, <3>1
    <3>3. p # t
      BY <1>1, <1>4, <3>2
    <3> QED BY <3>2, <3>3
  <2> QED BY <2>2, <2>3
<1>14. g \in V /\ k[g].prev = Null /\ \A c \in V : k[g].start <= k[c].start
  <2>1. h[f].prev = Null /\ \A c \in U : h[f].start <= h[c].start
    BY DEF Joining, Strung
  <2>2. f # t
    BY <1>2, <1>3, <2>1
  <2>3. CASE f = x
    <3>1. k[t].prev = Null
      BY <1>9, <2>1, <2>3
    <3>2. \A c \in V : k[t].start <= k[c].start
      BY <1>1, <2>1, <2>3
    <3> QED BY <1>4, <2>3, <3>1, <3>2
  <2>4. CASE f # x
    <3>1. k[f].prev = Null
      BY <1>2, <2>1, <2>2, <2>4 DEF Forgotten
    <3> QED BY <1>6, <2>1, <2>4, <3>1
  <2> QED BY <2>3, <2>4
<1>15. ASSUME \A a \in V : k[a].next # Unset
       PROVE  \A a \in V \ {g} : \E b \in V : k[b].next = a
  <2>1. \A a \in V : h[a].next # x /\ k[a].next = h[a].next
    BY <1>8, <1>15
  <2>2. \A a \in U : h[a].next # Unset
    BY <1>2, <1>15, <2>1
  <2>3. \A a \in U \ {f} : \E b \in U : h[b].next = a
    BY <2>2 DEF Joining, Strung
  <2>4. h[x].next # x
    BY <1>4
  <2>5. f = x
    BY <2>1, <2>3, <2>4
  <2> QED BY <2>1, <2>3, <2>5
<1>16. Strung(k, V, g)
  BY <1>2, <1>10, <1>11, <1>12, <1>13, <1>14, <1>15 DEF Strung
<1>17. \A a, b \in V \ {t} : a # b => Before(k, a, b) \/ Before(k, b, a)
  BY DEF Joining, Before
<1>18. \A c \in V \ {t} : Before(k, c, t) \/ k[t].start < k[c].start
  BY <1>5 DEF Before
<1>19. Joining(k, V, g, t)
  BY <1>4, <1>16, <1>17, <1>18 DEF Joining
<1>20. BytesIn(k, V) = BytesIn(h, U)
  <2>1. BytesOf(k[t]) = BytesOf(h[x]) \cup BytesOf(h[t])
    BY <1>1, <1>4 DEF BytesOf, Greater
  <2>2. \A a \in U \ {x, t} : BytesOf(k[a]) = BytesOf(h[a])
    BY DEF BytesOf
  <2>3. BytesIn(k, V) \subseteq BytesIn(h, U)
    BY <1>4, <2>1, <2>2 DEF BytesIn
  <2>4. BytesIn(h, U) \subseteq BytesIn(k, V)
    BY <1>4, <2>1, <2>2 DEF BytesIn
  <2> QED BY <2>3, <2>4
<1>21. ASSUME NEW a \in V, k[a].next = Unset, h[a].next # Unset
       PROVE  f # x /\ h[a].start < h[x].start
  <2>1. h[a].next = x
    BY <1>8, <1>21
  <2>2. h[x].prev = a /\ h[a].start < h[x].start
    BY <2>1 DEF Joining, Strung, Adjoining
  <2>3. f # x
    BY <1>2, <2>2 DEF Joining, Strung
  <2> QED BY <2>2, <2>3
<1>22. StaysBad(h, k, U, x)
  BY <1>2, <1>8 DEF StaysBad
<1> QED BY <1>19, <1>20, <1>21, <1>22 DEF OnlyBelow

(* The walk is over when the chunk that has the segment ends before the    *)
(* next one, or is the last.                                               *)
LEMMA JoinedUp ==
    ASSUME NEW h \in Memories, NEW U \in SUBSET Addresses, NEW f \in U, NEW x \in U,
           Joining(h, U, f, x),
           \/ h[x].next = Null
           \/ h[x].next \in U /\ Before(h, x, h[x].next)
    PROVE  List(h, U, f)
<1>1. \A a \in U : h[a].start \in Int /\ h[a].size \in Int /\ 0 <= h[a].size
  BY RecordsTyped
<1>2. ASSUME NEW c \in U \ {x}
      PROVE  Before(h, c, x) \/ Before(h, x, c)
  <2>1. CASE Before(h, c, x)
    BY <2>1
  <2>2. CASE h[x].start < h[c].start
    <3>1. h[x].next # Null
      BY <1>1, <2>2 DEF Joining, Strung
    <3>2. h[x].next \in U /\ Before(h, x, h[x].next)
      BY <3>1
    <3>3. Adjoining(h, U, x, h[x].next)
      BY <3>2 DEF Joining, Strung
    <3>4. h[h[x].next].start <= h[c].start
      BY <1>1, <2>2, <3>3 DEF Adjoining
    <3> QED BY <1>1, <3>2, <3>4 DEF Before
  <2> QED BY <2>1, <2>2 DEF Joining
<1> QED BY <1>2 DEF Joining, List

(* A chunk a of its own between l and t.                                   *)
PutBefore(h, k, U, l, t, s, z, a) ==
    /\ k[a] = DataChunk(s, z, t, l)
    /\ k[t] = DataChunk(h[t].start, h[t].size, h[t].next, a)
    /\ k[l] = DataChunk(h[l].start, h[l].size, a, h[l].prev)
    /\ \A c \in U \ {l, t} : k[c] = h[c]

LEMMA Inserted ==
    ASSUME NEW h \in Memories, NEW k \in Memories, NEW U \in SUBSET Addresses,
           NEW f \in U, List(h, U, f),
           NEW l \in U, NEW t \in U, NEW s \in Nat, NEW z \in Nat, Reached(h, U, f, l, t, s),
           s + z < h[t].start,
           NEW a \in Addresses \ U,
           PutBefore(h, k, U, l, t, s, z, a)
    PROVE  /\ List(k, U \cup {a}, f)
           /\ Gains(h, U, k, U \cup {a}, s, z)
           /\ k[f].start = h[f].start /\ k[f].size = h[f].size
           /\ HasBad(k, U \cup {a}) <=> HasBad(h, U)
<1> USE DEF PutBefore, Gains
<1> DEFINE V == U \cup {a}
<1>1. \A c \in U : h[c].start \in Int /\ h[c].size \in Int /\ 0 <= h[c].size
  BY RecordsTyped
<1>2. U \subseteq Addresses /\ Null \notin V /\ Unset \notin V /\ a \notin U /\ Null # Unset
  BY DEF Addresses, Null, Unset
<1>3. h[t].prev = l /\ l # t
  BY <1>2, LowerChunksEnd
<1>4. h[l].next = t
  BY <1>2 DEF Reached
<1>5. Adjoining(h, U, l, t)
  BY <1>4 DEF List, Strung
<1>6. \A c \in V : /\ k[c].start = IF c = a THEN s ELSE h[c].start
                   /\ k[c].size = IF c = a THEN z ELSE h[c].size
                   /\ k[c].next = IF c = a THEN t ELSE IF c = l THEN a ELSE h[c].next
                   /\ k[c].prev = IF c = a THEN l ELSE IF c = t THEN a ELSE h[c].prev
  BY <1>2, <1>3 DEF DataChunk
<1>7. \A c \in U : \/ /\ h[c].start + h[c].size < s
                      /\ h[c].start <= h[l].start
                   \/ /\ s + z < h[c].start /\ h[t].start <= h[c].start
  <2>1. \A c \in U : h[c].start < h[t].start => h[c].start + h[c].size < s
    BY LowerChunksEnd
  <2> QED BY <1>1, <1>5, <2>1 DEF Adjoining
<1>8. h[l].start < s /\ s < h[t].start
  BY <1>1, <1>5, <1>7 DEF Adjoining
<1>9. \A c, d \in V : c # d => Before(k, c, d) \/ Before(k, d, c)
  <2> TAKE c, d \in V
  <2>1. CASE c # a /\ d # a
    BY <1>6, <2>1 DEF List, Before
  <2>2. CASE c = a /\ d # a
    BY <1>6, <1>7, <2>2 DEF Before
  <2>3. CASE c # a /\ d = a
    BY <1>6, <1>7, <2>3 DEF Before
  <2> QED BY <2>1, <2>2, <2>3
<1>10. Living(k, V)
  BY <1>6 DEF List, Strung, Living
<1>11. ASSUME NEW c \in V, k[c].next \in V
       PROVE  k[k[c].next].prev = c /\ Adjoining(k, V, c, k[c].next)
  <2>1. CASE c = a
    <3>1. k[c].next = t /\ k[t].prev = a
      BY <1>2, <1>6, <2>1
    <3> QED BY <1>1, <1>2, <1>6, <1>7, <1>8, <2>1, <3>1 DEF Adjoining
  <2>2. CASE c = l
    <3>1. k[c].next = a /\ k[a].prev = l
      BY <1>2, <1>6, <2>2
    <3> QED BY <1>1, <1>2, <1>6, <1>7, <1>8, <2>2, <3>1 DEF Adjoining
  <2>3. CASE c # a /\ c # l
    <3> DEFINE d == h[c].next
    <3>1. c \in U /\ k[c].next = d /\ d \in U
      <4>1. d \in U \cup {Null, Unset}
        BY <2>3 DEF List, Strung, Living
      <4> QED BY <1>2, <1>6, <1>11, <2>3, <4>1
    <3>2. h[d].prev = c /\ Adjoining(h, U, c, d)
      BY <3>1 DEF List, Strung
    <3>3. d # t
      BY <1>3, <2>3, <3>2
    <3>4. k[d].prev = c
      BY <1>2, <1>6, <3>1, <3>2, <3>3
    <3>5. k[c].start = h[c].start /\ k[d].start = h[d].start
      BY <1>2, <1>6, <3>1
    <3>7. s <= h[c].start \/ h[d].start <= s
      <4>1. CASE h[c].start + h[c].size < s /\ h[c].start <= h[l].start
        <5>1. h[d].start <= h[l].start
          <6>1. h[l].start <= h[c].start \/ h[d].start <= h[l].start
            BY <3>2 DEF Adjoining
          <6>2. Before(h, c, l) \/ Before(h, l, c)
            BY <2>3, <3>1 DEF List
          <6> QED BY <1>1, <3>1, <4>1, <6>1, <6>2 DEF Before
        <5> QED BY <1>1, <1>8, <3>1, <5>1
      <4>2. CASE s + z < h[c].start
        BY <1>1, <3>1, <4>2
      <4> QED BY <1>7, <3>1, <4>1, <4>2
    <3>8. Adjoining(k, V, c, d)
      <4>1. \A e \in U : k[e].start = h[e].start
        BY <1>2, <1>6
      <4>2. k[a].start = s
        BY <1>6
      <4> HIDE DEF d
      <4> QED BY <3>2, <3>5, <3>7, <4>1, <4>2 DEF Adjoining
    <3> QED BY <3>1, <3>4, <3>8
  <2> QED BY <2>1, <2>2, <2>3
<1>12. \A c \in V : k[c].next = Null => \A d \in V : k[d].start <= k[c].start
  <2> TAKE c \in V
  <2> HAVE k[c].next = Null
  <2>1. c \in U /\ h[c].next = Null
    BY <1>2, <1>6
  <2>2. \A d \in U : h[d].start <= h[c].start
    BY <2>1 DEF List, Strung
  <2>3. s <= h[c].start
    BY <1>1, <1>8, <2>1, <2>2
  <2> QED BY <1>2, <1>6, <2>1, <2>2, <2>3
<1>13. \A c \in V : k[c].prev \in V => k[k[c].prev].start < k[c].start
  <2> TAKE c \in V
  <2> HAVE k[c].prev \in V
  <2>1. CASE c = a
    BY <1>2, <1>6, <1>8, <2>1
  <2>2. CASE c = t
    BY <1>2, <1>6, <1>8, <2>2
  <2>3. CASE c # a /\ c # t
    <3>1. h[c].prev \in U \cup {Null, Unset}
      BY <2>3 DEF List, Strung, Living
    <3>2. k[c].prev = h[c].prev /\ h[c].prev \in U
      BY <1>2, <1>6, <2>3, <3>1
    <3>3. h[h[c].prev].start < h[c].start
      BY <2>3, <3>2 DEF List, Strung
    <3> QED BY <1>2, <1>6, <2>3, <3>2, <3>3
  <2> QED BY <2>1, <2>2, <2>3
<1>14. f # t /\ f # a
  BY <1>2, <1>3 DEF List, Strung
<1>15. k[f].prev = Null /\ k[f].start = h[f].start /\ k[f].size = h[f].size
  BY <1>6, <1>14 DEF List, Strung
<1>16. \A c \in V : k[f].start <= k[c].start
  <2>1. \A c \in U : h[f].start <= h[c].start
    BY DEF List, Strung
  <2> QED BY <1>1, <1>2, <1>6, <1>8, <1>15, <2>1
<1>17. (\E c \in V : k[c].next = Unset) <=> (\E c \in U : h[c].next = Unset)
  BY <1>2, <1>4, <1>6
<1>18. (\A c \in V : k[c].next # Unset) => \A c \in V \ {f} : \E b \in V : k[b].next = c
  <2> HAVE \A c \in V : k[c].next # Unset
  <2>1. \A c \in U \ {f} : \E b \in U : h[b].next = c
    BY <1>17 DEF List, Strung
  <2> TAKE c \in V \ {f}
  <2>2. CASE c = a
    BY <1>6, <2>2
  <2>3. CASE c = t
    BY <1>6, <2>3
  <2>4. CASE c # a /\ c # t
    <3>1. PICK b \in U : h[b].next = c
      BY <2>1, <2>4
    <3> QED BY <1>2, <1>4, <1>6, <2>4, <3>1
  <2> QED BY <2>2, <2>3, <2>4
<1>19. V \subseteq Addresses /\ f \in V
  OBVIOUS
<1>20. List(k, V, f)
  BY <1>9, <1>10, <1>11, <1>12, <1>13, <1>15, <1>16, <1>18, <1>19 DEF List, Strung
<1>21. BytesIn(k, V) = BytesIn(h, U) \cup (s .. s + z - 1)
  <2>1. BytesOf(k[a]) = s .. s + z - 1
    BY <1>6 DEF BytesOf
  <2>2. \A c \in U : BytesOf(k[c]) = BytesOf(h[c])
    BY <1>2, <1>6 DEF BytesOf
  <2> QED BY <2>1, <2>2 DEF BytesIn
<1> QED BY <1>15, <1>17, <1>20, <1>21 DEF HasBad

(* A chunk a of its own behind all others, whose next nobody has set.      *)
PutBehind(h, k, U, l, s, z, n, a) ==
    /\ k[a] = DataChunk(s, z, n, l)
    /\ k[l] = DataChunk(h[l].start, h[l].size, a, h[l].prev)
    /\ \A c \in U \ {l} : k[c] = h[c]

(* What the next of a last chunk may turn out to be.                       *)
LastNexts == {Null, Unset}

LEMMA Attached ==
    ASSUME NEW h \in Memories, NEW k \in Memories, NEW U \in SUBSET Addresses,
           NEW f \in U, List(h, U, f),
           NEW l \in U, NEW s \in Nat, NEW z \in Nat,
           h[l].next = Null, h[l].start + h[l].size < s,
           NEW a \in Addresses \ U, NEW n \in LastNexts,
           PutBehind(h, k, U, l, s, z, n, a)
    PROVE  /\ List(k, U \cup {a}, f)
           /\ Gains(h, U, k, U \cup {a}, s, z)
           /\ k[f].start = h[f].start /\ k[f].size = h[f].size
           /\ HasBad(k, U \cup {a}) <=> (n = Unset \/ HasBad(h, U))
<1> USE DEF PutBehind, LastNexts, Gains
<1> DEFINE V == U \cup {a}
<1>1. \A c \in U : h[c].start \in Int /\ h[c].size \in Int /\ 0 <= h[c].size
  BY RecordsTyped
<1>2. U \subseteq Addresses /\ Null \notin V /\ Unset \notin V /\ a \notin U /\ Null # Unset
  BY DEF Addresses, Null, Unset
<1>3. \A c \in V : /\ k[c].start = IF c = a THEN s ELSE h[c].start
                   /\ k[c].size = IF c = a THEN z ELSE h[c].size
                   /\ k[c].next = IF c = a THEN n ELSE IF c = l THEN a ELSE h[c].next
                   /\ k[c].prev = IF c = a THEN l ELSE h[c].prev
  BY <1>2 DEF DataChunk
<1>4. \A c \in U : h[c].start + h[c].size < s /\ h[c].start <= h[l].start /\ h[c].start < s
  <2> TAKE c \in U
  <2>1. h[c].start <= h[l].start
    BY DEF List, Strung
  <2>2. c = l \/ Before(h, c, l) \/ Before(h, l, c)
    BY DEF List
  <2> QED BY <1>1, <2>1, <2>2 DEF Before
<1>5. \A c, d \in V : c # d => Before(k, c, d) \/ Before(k, d, c)
  <2> TAKE c, d \in V
  <2>1. CASE c # a /\ d # a
    BY <1>3, <2>1 DEF List, Before
  <2>2. CASE c = a /\ d # a
    BY <1>3, <1>4, <2>2 DEF Before
  <2>3. CASE c # a /\ d = a
    BY <1>3, <1>4, <2>3 DEF Before
  <2> QED BY <2>1, <2>2, <2>3
<1>6. Living(k, V)
  BY <1>3 DEF List, Strung, Living
<1>7. ASSUME NEW c \in V, k[c].next \in V
      PROVE  k[k[c].next].prev = c /\ Adjoining(k, V, c, k[c].next)
  <2>1. c # a
    BY <1>2, <1>3, <1>7
  <2>2. CASE c = l
    <3>1. k[c].next = a /\ k[a].prev = l
      BY <1>2, <1>3, <2>2
    <3> QED BY <1>1, <1>2, <1>3, <1>4, <2>2, <3>1 DEF Adjoining
  <2>3. CASE c # l
    <3> DEFINE d == h[c].next
    <3>1. c \in U /\ k[c].next = d /\ d \in U
      <4>1. d \in U \cup {Null, Unset}
        BY <2>1 DEF List, Strung, Living
      <4> QED BY <1>2, <1>3, <1>7, <2>1, <2>3, <4>1
    <3>2. h[d].prev = c /\ Adjoining(h, U, c, d)
      BY <3>1 DEF List, Strung
    <3>3. k[d].prev = c
      BY <1>2, <1>3, <3>1, <3>2
    <3>4. k[c].start = h[c].start /\ k[d].start = h[d].start /\ h[d].start <= s
      BY <1>1, <1>2, <1>3, <1>4, <3>1
    <3>5. Adjoining(k, V, c, d)
      <4>1. \A e \in U : k[e].start = h[e].start
        BY <1>2, <1>3
      <4>2. k[a].start = s
        BY <1>3
      <4> HIDE DEF d
      <4> QED BY <3>2, <3>4, <4>1, <4>2 DEF Adjoining
    <3> QED BY <3>1, <3>3, <3>5
  <2> QED BY <2>2, <2>3
<1>8. \A c \in V : k[c].next = Null => \A d \in V : k[d].start <= k[c].start
  <2> TAKE c \in V
  <2> HAVE k[c].next = Null
  <2>1. CASE c = a
    BY <1>1, <1>2, <1>3, <1>4, <2>1
  <2>2. CASE c # a
    <3>1. c \in U /\ c # l /\ h[c].next = Null
      BY <1>2, <1>3, <2>2
    <3>2. h[l].start <= h[c].start
      BY <3>1 DEF List, Strung
    <3>3. Before(h, c, l) \/ Before(h, l, c)
      BY <3>1 DEF List
    <3>4. h[c].start <= h[l].start
      BY <1>4, <3>1
    <3> QED BY <1>1, <3>1, <3>2, <3>3, <3>4 DEF Before
  <2> QED BY <2>1, <2>2
<1>9. \A c \in V : k[c].prev \in V => k[k[c].prev].start < k[c].start
  <2> TAKE c \in V
  <2> HAVE k[c].prev \in V
  <2>1. CASE c = a
    BY <1>2, <1>3, <1>4, <2>1
  <2>2. CASE c # a
    <3>1. h[c].prev \in U \cup {Null, Unset}
      BY <2>2 DEF List, Strung, Living
    <3>2. k[c].prev = h[c].prev /\ h[c].prev \in U
      BY <1>2, <1>3, <2>2, <3>1
    <3>3. h[h[c].prev].start < h[c].start
      BY <2>2, <3>2 DEF List, Strung
    <3> QED BY <1>2, <1>3, <2>2, <3>2, <3>3
  <2> QED BY <2>1, <2>2
<1>10. k[f].prev = Null /\ k[f].start = h[f].start /\ k[f].size = h[f].size
  BY <1>2, <1>3 DEF List, Strung
<1>11. \A c \in V : k[f].start <= k[c].start
  <2>1. \A c \in U : h[f].start <= h[c].start
    BY DEF List, Strung
  <2> QED BY <1>1, <1>2, <1>3, <1>4, <1>10, <2>1
<1>12. (\E c \in V : k[c].next = Unset) <=> (n = Unset \/ \E c \in U : h[c].next = Unset)
  BY <1>2, <1>3
<1>13. (\A c \in V : k[c].next # Unset) => \A c \in V \ {f} : \E b \in V : k[b].next = c
  <2> HAVE \A c \in V : k[c].next # Unset
  <2>1. \A c \in U \ {f} : \E b \in U : h[b].next = c
    BY <1>12 DEF List, Strung
  <2> TAKE c \in V \ {f}
  <2>2. CASE c = a
    BY <1>2, <1>3, <2>2
  <2>3. CASE c # a
    <3>1. PICK b \in U : h[b].next = c
      BY <2>1, <2>3
    <3>2. b # l
      BY <1>2, <2>3, <3>1
    <3> QED BY <1>2, <1>3, <3>1, <3>2
  <2> QED BY <2>2, <2>3
<1>14. V \subseteq Addresses /\ f \in V
  OBVIOUS
<1>15. List(k, V, f)
  BY <1>5, <1>6, <1>7, <1>8, <1>9, <1>10, <1>11, <1>13, <1>14 DEF List, Strung
<1>16. BytesIn(k, V) = BytesIn(h, U) \cup (s .. s + z - 1)
  <2>1. BytesOf(k[a]) = s .. s + z - 1
    BY <1>3 DEF BytesOf
  <2>2. \A c \in U : BytesOf(k[c]) = BytesOf(h[c])
    BY <1>2, <1>3 DEF BytesOf
  <2> QED BY <2>1, <2>2 DEF BytesIn
<1> QED BY <1>10, <1>12, <1>15, <1>16 DEF HasBad

(* Add's walk                                                              *)

Walkers ==
    {w \in [chunk : Memories, used : SUBSET Addresses, first : Addresses, rcv : 0 .. Top,
            temp : Pointers, last : Addresses \cup {Null}, ans : Addresses \cup {Null},
            start : 0 .. Top, size : 0 .. Top, wild : BOOLEAN] :
        w.start + w.size <= Top}

BufferInv ==
    /\ chunk \in Memories /\ used \subseteq Addresses /\ first \in used
    /\ rcv_nxt \in 0 .. Top /\ wild \in BOOLEAN
    /\ Living(chunk, used)
    /\ ~wild => /\ List(chunk, used, first)
                /\ chunk[first].start + chunk[first].size = rcv_nxt

(* What a caller's segment s, z is.                                        *)
Ahead(s, z) ==
    s \in Nat /\ z \in Nat \ {0} /\ rcv_nxt <= s /\ s + z <= Top

Searching(w, s, z) ==
    /\ w.ans = Null /\ w.chunk = chunk /\ w.used = used
    /\ w.first = first /\ w.rcv = rcv_nxt /\ w.start = s /\ w.size = z
    /\ Reached(chunk, used, first, w.last, w.temp, s)

(* The list's first chunk still goes up to rcv_nxt, from where it began.   *)
Leading(w) ==
    LET c == w.chunk[w.first]
    IN  c.start + c.size = w.rcv /\ c.start <= rcv_nxt /\ rcv_nxt <= w.rcv

(* The bytes of the segment are in, and bad links only come up below it.   *)
TookIn(w, s, z) ==
    /\ Leading(w)
    /\ BytesIn(w.chunk, w.used) = BytesIn(chunk, used) \cup (s .. s + z - 1)
    /\ HasBad(chunk, used) => HasBad(w.chunk, w.used)

Taken(w, s, z) ==
    /\ w.first \in w.used /\ Joining(w.chunk, w.used, w.first, w.ans)
    /\ w.chunk[w.ans].start = w.start /\ w.chunk[w.ans].size = w.size
    /\ TookIn(w, s, z)
    /\ s = rcv_nxt => w.first = w.ans
    /\ \A a \in w.used : w.chunk[a].next = Unset =>
           HasBad(chunk, used) \/ (w.chunk[a].start < w.start /\ s > rcv_nxt)

Walking(w, s, z) ==
    /\ w \in Walkers /\ ~w.wild
    /\ \/ Searching(w, s, z)
       \/ Taken(w, s, z) /\ w.last = w.ans /\ w.temp = w.chunk[w.ans].next

LEMMA WalkersFields ==
    ASSUME NEW w \in Walkers
    PROVE  /\ w.chunk \in Memories /\ w.used \subseteq Addresses /\ w.first \in Addresses
           /\ w.rcv \in 0 .. Top /\ w.temp \in Pointers
           /\ w.last \in Addresses \cup {Null} /\ w.ans \in Addresses \cup {Null}
           /\ w.start \in 0 .. Top /\ w.size \in 0 .. Top /\ w.wild \in BOOLEAN
           /\ w.start \in Nat /\ w.size \in Nat
           /\ w.start + w.size <= Top
BY BufferAssumption DEF Walkers

(* What Merge makes of each part.                                          *)
Start(w) == Lesser(w.start, w.chunk[w.temp].start)

Finish(w) == Greater(w.chunk[w.temp].start + w.chunk[w.temp].size, w.start + w.size)

LEMMA MergeFields ==
    ASSUME NEW w \in Walkers, w.temp \in Addresses
    PROVE  /\ Merge(w) \in Walkers
           /\ Merge(w).used = w.used \ {w.ans}
           /\ \A c \in Addresses \ {w.temp} :
                 /\ Merge(w).chunk[c].start = w.chunk[c].start
                 /\ Merge(w).chunk[c].size = w.chunk[c].size
                 /\ w.ans = Null => Merge(w).chunk[c] = w.chunk[c]
                 /\ w.ans # Null => Forgotten(w.chunk[c], w.ans, Merge(w).chunk[c])
           /\ Merge(w).chunk[w.temp].start = Start(w)
           /\ Merge(w).chunk[w.temp].start + Merge(w).chunk[w.temp].size = Finish(w)
           /\ w.ans = Null => /\ Merge(w).chunk[w.temp].next = w.chunk[w.temp].next
                              /\ Merge(w).chunk[w.temp].prev = w.chunk[w.temp].prev
           /\ w.ans # Null =>
                 /\ Merge(w).chunk[w.temp].next =
                       IF w.chunk[w.temp].next = w.ans THEN Unset ELSE w.chunk[w.temp].next
                 /\ Merge(w).chunk[w.temp].prev =
                       IF w.chunk[w.ans].prev = w.ans THEN Unset ELSE w.chunk[w.ans].prev
           /\ Merge(w).first = IF w.first \in {w.ans, w.temp} THEN w.temp ELSE w.first
           /\ Merge(w).rcv = IF w.first \in {w.ans, w.temp} THEN Finish(w) ELSE w.rcv
           /\ Merge(w).temp = w.temp /\ Merge(w).last = w.last /\ Merge(w).ans = w.temp
           /\ Merge(w).wild = w.wild
           /\ Merge(w).start = Start(w) /\ Merge(w).size = Finish(w) - Start(w)
<1> DEFINE t == w.chunk[w.temp]
           st == Start(w)
           en == Finish(w)
           pv == IF w.ans = Null THEN t.prev ELSE w.chunk[w.ans].prev
           d == DataChunk(st, en - st, t.next, pv)
           h == [w.chunk EXCEPT ![w.temp] = d]
           j == Joined(w)
           k == Freed(j, w.ans)
           m == Merge(w)
<1>1. /\ w.chunk \in Memories /\ w.used \subseteq Addresses
      /\ w.ans \in Addresses \cup {Null} /\ w.start \in 0 .. Top /\ w.size \in 0 .. Top
      /\ w.start + w.size <= Top
  BY WalkersFields
<1>2. /\ t.start \in 0 .. Top /\ t.size \in 0 .. Top /\ t.start + t.size <= Top
      /\ t.next \in Pointers /\ t.prev \in Pointers
  BY <1>1, RecordsTyped
<1>3. st \in 0 .. Top /\ en \in 0 .. Top /\ st <= en /\ en - st \in 0 .. Top /\ st + (en - st) = en
  BY <1>1, <1>2, BufferAssumption DEF Start, Finish, Lesser, Greater
<1>4. pv \in Pointers
  BY <1>1, <1>2, RecordsTyped
<1>5. /\ j.chunk = h /\ j.used = w.used /\ j.first = w.first /\ j.rcv = w.rcv
      /\ j.temp = w.temp /\ j.last = w.last /\ j.ans = w.temp /\ j.wild = w.wild
      /\ j.start = st /\ j.size = en - st
  <2>1. st = IF w.start < t.start THEN w.start ELSE t.start
    BY DEF Start, Lesser
  <2>2. en = IF End(t) > End(w) THEN End(t) ELSE End(w)
    BY DEF Finish, Greater, End
  <2>3. j = [w EXCEPT !.chunk[w.temp] = d, !.start = st, !.size = en - st, !.ans = w.temp]
    <3> HIDE DEF st, en
    <3> QED BY <2>1, <2>2 DEF Joined
  <2> HIDE DEF st, en, d, j
  <2> QED BY <2>3 DEF Walkers
<1>6. d \in ChunkRecords /\ d.start = st /\ d.size = en - st /\ d.next = t.next /\ d.prev = pv
  <2> HIDE DEF st, en, pv
  <2> QED BY <1>2, <1>3, <1>4 DEF DataChunk, ChunkRecords
<1>7. h \in Memories /\ h[w.temp] = d /\ \A c \in Addresses \ {w.temp} : h[c] = w.chunk[c]
  <2> HIDE DEF d
  <2> QED BY <1>1, <1>6 DEF Memories
<1>8. /\ k.used = w.used \ {w.ans} /\ k.first = w.first /\ k.rcv = w.rcv
      /\ k.temp = w.temp /\ k.last = w.last /\ k.ans = w.temp /\ k.wild = w.wild
      /\ k.start = st /\ k.size = en - st
      /\ k.chunk = IF w.ans = Null THEN h ELSE [b \in Addresses |-> Forgets(h[b], w.ans)]
  <2> HIDE DEF st, en, h
  <2>1. j \in [chunk : {j.chunk}, used : {j.used}, first : {j.first}, rcv : {j.rcv},
               temp : {j.temp}, last : {j.last}, ans : {j.ans},
               start : {j.start}, size : {j.size}, wild : {j.wild}]
    BY DEF Walkers, Joined
  <2>2. Null \notin w.used
    BY <1>1 DEF Addresses, Null
  <2> HIDE DEF j
  <2>3. CASE w.ans = Null
    BY <1>5, <2>2, <2>3 DEF Freed
  <2>4. CASE w.ans # Null
    BY <1>5, <2>1, <2>4 DEF Freed
  <2> QED BY <2>3, <2>4
<1>9. \A c \in ChunkRecords :
         /\ Forgets(c, w.ans) \in ChunkRecords
         /\ Forgets(c, w.ans).start = c.start /\ Forgets(c, w.ans).size = c.size
         /\ Forgotten(c, w.ans, Forgets(c, w.ans))
  BY DEF Forgets, Forgotten, DataChunk, ChunkRecords, Pointers
<1>10. k.chunk \in Memories
  <2>1. \A b \in Addresses : h[b] \in ChunkRecords
    BY <1>7 DEF Memories
  <2> HIDE DEF h, k
  <2> QED BY <1>7, <1>8, <1>9, <2>1 DEF Memories
<1>11. \A c \in Addresses \ {w.temp} :
         /\ k.chunk[c].start = w.chunk[c].start
         /\ k.chunk[c].size = w.chunk[c].size
         /\ w.ans = Null => k.chunk[c] = w.chunk[c]
         /\ w.ans # Null => Forgotten(w.chunk[c], w.ans, k.chunk[c])
  <2> TAKE c \in Addresses \ {w.temp}
  <2>1. h[c] = w.chunk[c] /\ h[c] \in ChunkRecords
    BY <1>7 DEF Memories
  <2> HIDE DEF h, k
  <2> QED BY <1>8, <1>9, <2>1
<1>12. /\ k.chunk[w.temp].start = st
       /\ k.chunk[w.temp].start + k.chunk[w.temp].size = en
       /\ w.ans = Null => /\ k.chunk[w.temp].next = t.next
                          /\ k.chunk[w.temp].prev = t.prev
       /\ w.ans # Null =>
             /\ k.chunk[w.temp].next = IF t.next = w.ans THEN Unset ELSE t.next
             /\ k.chunk[w.temp].prev =
                   IF w.chunk[w.ans].prev = w.ans THEN Unset ELSE w.chunk[w.ans].prev
  <2>1. h[w.temp] = d
    BY <1>7
  <2>2. pv = IF w.ans = Null THEN t.prev ELSE w.chunk[w.ans].prev
    OBVIOUS
  <2> HIDE DEF h, k, d, pv, st, en
  <2>3. CASE w.ans = Null
    BY <1>3, <1>6, <1>8, <2>1, <2>2, <2>3
  <2>4. CASE w.ans # Null
    BY <1>3, <1>6, <1>8, <1>9, <2>1, <2>2, <2>4 DEF Forgotten
  <2> QED BY <2>3, <2>4
<1>13. m = IF w.first \in {w.ans, w.temp} THEN [k EXCEPT !.first = w.temp, !.rcv = en] ELSE k
  <2>1. k.temp = w.temp /\ k.start + k.size = en
    BY <1>3, <1>8
  <2> HIDE DEF en
  <2> QED BY <2>1 DEF Merge, Leads, AsFirst, End
<1>14. k \in Walkers
  <2>1. k \in [chunk : {k.chunk}, used : {k.used}, first : {k.first}, rcv : {k.rcv},
               temp : {k.temp}, last : {k.last}, ans : {k.ans},
               start : {k.start}, size : {k.size}, wild : {k.wild}]
    BY DEF Walkers, Joined, Freed
  <2>2. /\ w.first \in Addresses /\ w.rcv \in 0 .. Top /\ w.temp \in Pointers
        /\ w.last \in Addresses \cup {Null} /\ w.wild \in BOOLEAN
    BY WalkersFields
  <2>3. k.start + k.size <= Top
    BY <1>3, <1>8
  <2> HIDE DEF k, st, en
  <2> QED BY <1>1, <1>3, <1>8, <1>10, <2>1, <2>2, <2>3 DEF Walkers
<1>15. /\ m \in Walkers /\ m.used = k.used /\ m.chunk = k.chunk
       /\ m.first = IF w.first \in {w.ans, w.temp} THEN w.temp ELSE w.first
       /\ m.rcv = IF w.first \in {w.ans, w.temp} THEN en ELSE w.rcv
       /\ m.temp = w.temp /\ m.last = w.last /\ m.ans = w.temp /\ m.wild = w.wild
       /\ m.start = st /\ m.size = en - st
  <2> HIDE DEF k, m, st, en
  <2> QED BY <1>3, <1>8, <1>13, <1>14 DEF Walkers
<1> HIDE DEF k, h, d, pv
<1> QED BY <1>8, <1>11, <1>12, <1>15

(* What temp is compared with, without the operators of the code.          *)
LEMMA WalkTests ==
    ASSUME NEW w \in Walkers, w.temp \in Addresses
    PROVE  /\ IsIsolated(w) <=> w.start + w.size < w.chunk[w.temp].start
           /\ Touches(w) <=> w.chunk[w.temp].start + w.chunk[w.temp].size >= w.start
           /\ Halts(w) <=> \/ w.temp \notin w.used
                           \/ w.start + w.size < w.chunk[w.temp].start
                           \/ /\ w.chunk[w.temp].start + w.chunk[w.temp].size >= w.start
                              /\ w.chunk[w.temp].next = Null
BY DEF IsIsolated, Touches, Halts, End

(* A chunk that the segment touches takes it in.                           *)
LEMMA Merging ==
    ASSUME BufferInv, ~wild, NEW s, NEW z, Ahead(s, z),
           NEW w, Walking(w, s, z), w.temp \in w.used, ~IsIsolated(w), Touches(w)
    PROVE  /\ Merge(w) \in Walkers /\ ~Merge(w).wild
           /\ Taken(Merge(w), s, z)
           /\ Merge(w).ans = w.temp /\ Merge(w).temp = w.temp
<1> DEFINE m == Merge(w)
           t == w.temp
           h == w.chunk
           k == m.chunk
           U == w.used
<1>1. /\ w \in Walkers /\ t \in U /\ t \in Addresses /\ U \in SUBSET Addresses
      /\ h \in Memories /\ w.wild = FALSE
  BY WalkersFields DEF Walking
<1>2. m \in Walkers /\ k \in Memories /\ m.ans = t /\ m.temp = t /\ m.wild = FALSE
  BY <1>1, MergeFields, WalkersFields
<1>3. w.start + w.size >= h[t].start /\ h[t].start + h[t].size >= w.start
  <2>1. ~(w.start + w.size < h[t].start) /\ h[t].start + h[t].size >= w.start
    BY <1>1, WalkTests
  <2> QED BY <1>1, <2>1, RecordsTyped, WalkersFields
<1>4. /\ s \in Nat /\ z \in Nat /\ rcv_nxt \in Nat /\ rcv_nxt <= s
      /\ List(chunk, used, first) /\ chunk[first].start + chunk[first].size = rcv_nxt
      /\ chunk \in Memories /\ used \in SUBSET Addresses /\ first \in used
  BY BufferAssumption DEF BufferInv, Ahead
<1>5. Null \notin U
  BY <1>1 DEF Addresses, Null
<1>6. /\ k[t].start = Start(w) /\ k[t].start + k[t].size = Finish(w)
      /\ m.start = Start(w) /\ m.size = Finish(w) - Start(w)
  BY <1>1, MergeFields
<1>7. k[t].start = m.start /\ k[t].size = m.size
  <2>1. k[t].start \in Int /\ k[t].size \in Int
    BY <1>1, <1>2, RecordsTyped
  <2> HIDE DEF m, k, t
  <2> QED BY <1>6, <2>1
<1>8. CASE Searching(w, s, z)
  <2>1. /\ w.ans = Null /\ h = chunk /\ U = used /\ w.first = first /\ w.rcv = rcv_nxt
        /\ w.start = s /\ w.size = z /\ Reached(chunk, used, first, w.last, t, s)
    BY <1>8 DEF Searching
  <2>2. m.used = U
    BY <1>1, <1>5, <2>1, MergeFields
  <2>3. /\ \A a \in U : k[a].next = h[a].next /\ k[a].prev = h[a].prev
        /\ \A a \in U \ {t} : k[a].start = h[a].start /\ k[a].size = h[a].size
    BY <1>1, <2>1, MergeFields
  <2>4. /\ k[t].start = Lesser(s, h[t].start)
        /\ k[t].start + k[t].size = Greater(h[t].start + h[t].size, s + z)
    BY <1>6, <2>1 DEF Start, Finish
  <2>5. Joining(k, U, first, t) /\ Gains(h, U, k, U, s, z)
    <3>1. /\ h \in Memories /\ k \in Memories /\ U \in SUBSET Addresses /\ first \in U
          /\ t \in U /\ s \in Nat /\ z \in Nat /\ List(h, U, first)
          /\ Overlaps(h, t, s, z)
      BY <1>1, <1>2, <1>3, <1>4, <2>1 DEF Overlaps
    <3> DEFINE l == w.last
    <3>2. Reached(h, U, first, l, t, s)
      BY <1>1, <2>1
    <3>3. Takes(h, k, U, t, s, z)
      BY <2>3, <2>4 DEF Takes
    <3> HIDE DEF k, m, h, U, t, l
    <3> QED BY ONLY <3>1, <3>2, <3>3, TakesFirst
  <2>6. Null \notin {t} /\ first # Null
    BY <1>1, <1>4, <1>5, <2>1
  <2>7. m.first = first /\ m.rcv = IF first = t THEN Finish(w) ELSE rcv_nxt
    BY <1>1, <2>1, <2>6, MergeFields
  <2>8. h[first].start \in Int /\ h[first].size \in Int /\ 0 <= h[first].size
    BY <1>1, <1>4, RecordsTyped
  <2>9. Leading(m)
    <3>1. CASE first = t
      <4>1. k[t].start <= rcv_nxt /\ rcv_nxt <= Finish(w)
        BY <1>4, <2>1, <2>4, <2>8, <1>6, <3>1 DEF Lesser, Greater
      <4> QED BY <1>6, <2>7, <3>1, <4>1 DEF Leading
    <3>2. CASE first # t
      <4>1. k[first].start = h[first].start /\ k[first].size = h[first].size
        BY <1>4, <2>1, <2>3, <3>2
      <4> QED BY <1>4, <2>1, <2>7, <2>8, <3>2, <4>1 DEF Leading
    <3> QED BY <3>1, <3>2
  <2>10. s = rcv_nxt => first = t
    <3> HAVE s = rcv_nxt
    <3> SUFFICES ASSUME first # t PROVE FALSE
      OBVIOUS
    <3>1. h[first].start < h[t].start => h[first].start + h[first].size < s
      BY <1>1, <1>4, <2>1, LowerChunksEnd
    <3>2. h[first].start <= h[t].start
      BY <1>4, <2>1, <1>1 DEF List, Strung
    <3>3. Before(h, first, t) \/ Before(h, t, first)
      BY <1>4, <2>1, <1>1 DEF List
    <3>4. h[t].start \in Int /\ h[t].size \in Int /\ 0 <= h[t].size
      BY <1>1, RecordsTyped
    <3> QED BY <1>4, <2>1, <2>8, <3>1, <3>2, <3>3, <3>4 DEF Before
  <2>11. HasBad(chunk, used) <=> HasBad(k, U)
    BY <2>1, <2>3 DEF HasBad
  <2>12. Taken(m, s, z)
    <3>1. TookIn(m, s, z)
      BY <2>1, <2>2, <2>5, <2>9, <2>11 DEF TookIn, Gains
    <3>2. \A a \in U : k[a].next = Unset => HasBad(chunk, used)
      BY <2>1, <2>3 DEF HasBad
    <3> HIDE DEF m
    <3> QED BY <1>2, <1>4, <1>7, <2>1, <2>2, <2>5, <2>7, <2>10, <3>1, <3>2 DEF Taken
  <2> QED BY <1>2, <2>12
<1>9. CASE Taken(w, s, z) /\ w.last = w.ans /\ w.temp = w.chunk[w.ans].next
  <2> DEFINE x == w.ans
             V == U \ {x}
             f == w.first
             g == IF f = x THEN t ELSE f
  <2>1. /\ Joining(h, U, f, x) /\ f \in U /\ x \in U /\ h[x].next = t
        /\ h[x].start = w.start /\ h[x].size = w.size
    BY <1>9 DEF Taken, Joining
  <2>2. h[x].start \in Int /\ h[x].size \in Int /\ h[t].start \in Int /\ h[t].size \in Int
        /\ 0 <= h[t].size /\ 0 <= h[x].size
    BY <1>1, <2>1, RecordsTyped
  <2>3. h[t].prev = x /\ h[x].start < h[t].start
    BY <1>1, <2>1 DEF Joining, Strung, Adjoining
  <2>4. f # t /\ x # Null
    BY <1>5, <2>1, <2>3 DEF Joining, Strung
  <2>5. m.used = V /\ m.first = g /\ m.rcv = IF f = x THEN Finish(w) ELSE w.rcv
    BY <1>1, <2>4, MergeFields
  <2>6. \A a \in U \ {x, t} : /\ k[a].start = h[a].start /\ k[a].size = h[a].size
                              /\ Forgotten(h[a], x, k[a])
    BY <1>1, <2>4, MergeFields
  <2>7. /\ k[t].start = h[x].start
        /\ k[t].start + k[t].size = Greater(h[t].start + h[t].size, h[x].start + h[x].size)
    BY <1>6, <2>1, <2>2, <2>3 DEF Start, Finish, Lesser
  <2>8. /\ k[t].next = IF h[t].next = x THEN Unset ELSE h[t].next
        /\ k[t].prev = IF h[x].prev = x THEN Unset ELSE h[x].prev
    BY <1>1, <2>4, MergeFields
  <2>9. Reaches(h, x, t)
    BY <1>3, <2>1 DEF Reaches
  <2>10. /\ Joining(k, V, g, t)
         /\ BytesIn(k, V) = BytesIn(h, U)
         /\ OnlyBelow(h, k, U, f, x) /\ StaysBad(h, k, U, x)
    <3>1. /\ h \in Memories /\ k \in Memories /\ U \in SUBSET Addresses
          /\ f \in U /\ x \in U /\ t \in U /\ Joining(h, U, f, x) /\ h[x].next = t
      BY <1>1, <1>2, <2>1
    <3>2. Displaces(h, k, U, x, t)
      BY <2>6, <2>7, <2>8 DEF Displaces
    <3> HIDE DEF k, m, h, U, t, x, f
    <3> QED BY ONLY <3>1, <3>2, <2>9, TakesNext
  <2>11. Leading(w) /\ TookIn(w, s, z) /\ (s = rcv_nxt => f = x)
         /\ \A a \in U : h[a].next = Unset =>
               HasBad(chunk, used) \/ (h[a].start < w.start /\ s > rcv_nxt)
    BY <1>9 DEF Taken, TookIn
  <2>12. Leading(m)
    <3>1. CASE f = x
      <4>1. h[x].start + h[x].size = w.rcv /\ h[x].start <= rcv_nxt /\ rcv_nxt <= w.rcv
        BY <2>11, <3>1 DEF Leading
      <4>2. rcv_nxt <= Finish(w)
        BY <1>4, <1>6, <2>2, <2>7, <4>1 DEF Greater
      <4> QED BY <1>6, <2>5, <2>7, <3>1, <4>1, <4>2 DEF Leading
    <3>2. CASE f # x
      <4>1. k[f].start = h[f].start /\ k[f].size = h[f].size
        BY <2>1, <2>4, <2>6, <3>2
      <4> QED BY <2>5, <2>11, <3>2, <4>1 DEF Leading
    <3> QED BY <3>1, <3>2
  <2>13. TookIn(m, s, z)
    <3>1. HasBad(h, U) => HasBad(k, V)
      BY <2>10 DEF HasBad, StaysBad
    <3> QED BY <2>5, <2>10, <2>11, <2>12, <3>1 DEF TookIn
  <2>14. ASSUME NEW a \in V, k[a].next = Unset
         PROVE  HasBad(chunk, used) \/ (k[a].start < m.start /\ s > rcv_nxt)
    <3>1. m.start = h[x].start /\ m.start = w.start
      BY <1>7, <2>1, <2>7
    <3>2. CASE a = t
      <4>1. h[t].next = Unset
        BY <2>2, <2>3, <2>10, <2>14, <3>2 DEF OnlyBelow
      <4> QED BY <1>1, <2>1, <2>2, <2>3, <2>11, <4>1
    <3>3. CASE a # t
      <4>1. k[a].start = h[a].start
        BY <2>6, <3>3
      <4>2. CASE h[a].next = Unset
        BY <2>11, <3>1, <4>1, <4>2
      <4>3. CASE f # x /\ h[a].start < h[x].start
        BY <1>4, <2>11, <3>1, <4>1, <4>3
      <4> QED BY <2>10, <2>14, <4>2, <4>3 DEF OnlyBelow
    <3> QED BY <3>2, <3>3
  <2>15. Taken(m, s, z)
    <3>1. g \in V /\ t \in V
      BY <2>10 DEF Joining, Strung
    <3> HIDE DEF m, k
    <3>2. m.first = g /\ m.used = V /\ m.ans = t /\ m.chunk = k
      BY <1>2, <2>5 DEF k
    <3>3. s = rcv_nxt => g = t
      BY <2>11
    <3>4. Joining(m.chunk, m.used, m.first, m.ans)
      BY <2>10, <3>2
    <3> HIDE DEF V, g, t
    <3> QED BY <1>7, <2>13, <2>14, <3>1, <3>2, <3>3, <3>4 DEF Taken
  <2> QED BY <1>2, <2>15
<1> QED BY <1>8, <1>9 DEF Walking

(* Each step of the walk keeps what is said of it.                         *)
LEMMA OneStepKeeps ==
    ASSUME BufferInv, ~wild, NEW s, NEW z, Ahead(s, z), NEW w, Walking(w, s, z)
    PROVE  Walking(OneStep(w), s, z)
<1>1. CASE Halts(w)
  BY <1>1 DEF OneStep
<1>2. CASE ~Halts(w)
  <2>1. w \in Walkers /\ w.temp \in w.used /\ w.temp \in Addresses /\ w.wild = FALSE
    BY <1>2, WalkersFields DEF Halts, Walking
  <2>2. \A v \in Walkers : v.temp \in Addresses =>
            /\ Follow(v) \in Walkers
            /\ Follow(v).last = v.temp /\ Follow(v).temp = v.chunk[v.temp].next
            /\ Follow(v).chunk = v.chunk /\ Follow(v).used = v.used
            /\ Follow(v).first = v.first /\ Follow(v).rcv = v.rcv /\ Follow(v).ans = v.ans
            /\ Follow(v).start = v.start /\ Follow(v).size = v.size
            /\ Follow(v).wild = v.wild
    <3> TAKE v \in Walkers
    <3> HAVE v.temp \in Addresses
    <3>1. v.chunk[v.temp].next \in Pointers
      BY RecordsTyped, WalkersFields
    <3> QED BY <3>1 DEF Follow, Walkers
  <2>3. CASE Touches(w)
    <3>1. ~IsIsolated(w)
      BY <1>2 DEF Halts
    <3> DEFINE m == Merge(w)
    <3>2. /\ m \in Walkers /\ ~m.wild /\ Taken(m, s, z)
          /\ m.ans = w.temp /\ m.temp = w.temp
      BY <2>1, <2>3, <3>1, Merging
    <3> HIDE DEF m
    <3>3. Taken(Follow(m), s, z)
      BY <2>1, <2>2, <3>2 DEF Taken, TookIn, Leading
    <3>4. Walking(Follow(m), s, z)
      BY <2>1, <2>2, <3>2, <3>3 DEF Walking
    <3> QED BY <1>2, <2>3, <3>4 DEF OneStep, m
  <2>4. CASE ~Touches(w)
    <3>1. w.chunk[w.temp].start + w.chunk[w.temp].size < w.start
      <4>1. /\ w.chunk[w.temp].start \in Int /\ w.chunk[w.temp].size \in Int
            /\ w.start \in Int
        BY <2>1, RecordsTyped, WalkersFields
      <4> QED BY <2>1, <2>4, <4>1, WalkTests
    <3>2. Searching(w, s, z)
      <4> SUFFICES ASSUME Taken(w, s, z), w.temp = w.chunk[w.ans].next
                   PROVE  FALSE
        BY DEF Walking
      <4>1. w.chunk[w.ans].start < w.chunk[w.temp].start /\ w.chunk[w.ans].start = w.start
        BY <2>1 DEF Taken, Joining, Strung, Adjoining
      <4>2. /\ w.chunk[w.temp].start \in Int /\ w.chunk[w.temp].size \in Int
            /\ 0 <= w.chunk[w.temp].size /\ w.start \in Int
        BY <2>1, RecordsTyped, WalkersFields
      <4> QED BY <3>1, <4>1, <4>2
    <3>3. Searching(Follow(w), s, z)
      BY <2>1, <2>2, <3>1, <3>2 DEF Searching, Reached
    <3>4. Walking(Follow(w), s, z)
      BY <2>1, <2>2, <3>3 DEF Walking
    <3> QED BY <1>2, <2>4, <3>4 DEF OneStep
  <2> QED BY <2>3, <2>4
<1> QED BY <1>1, <1>2

WalkSet(s, z) == {w \in Walkers : Walking(w, s, z)}

IsWalk(f, w) ==
    f = [n \in 0 .. MaxChunks |-> IF n = 0 THEN w ELSE OneStep(f[n - 1])]

LEMMA WalkStarts ==
    ASSUME BufferInv, ~wild, NEW s, NEW z, Ahead(s, z)
    PROVE  Walking(Walker(s, z), s, z)
<1> DEFINE w == Walker(s, z)
<1>1. /\ w.chunk = chunk /\ w.used = used /\ w.first = first /\ w.rcv = rcv_nxt
      /\ w.temp = first /\ w.last = Null /\ w.ans = Null
      /\ w.start = s /\ w.size = z /\ w.wild = FALSE
  BY DEF Walker
<1>2. /\ chunk \in Memories /\ used \subseteq Addresses /\ first \in Addresses
      /\ rcv_nxt \in 0 .. Top /\ first \in Pointers
      /\ s \in 0 .. Top /\ z \in 0 .. Top /\ s + z <= Top
  BY BufferAssumption DEF BufferInv, Ahead, Pointers
<1>3. w \in Walkers
  BY <1>2 DEF Walker, Walkers
<1>4. Searching(w, s, z)
  BY <1>1 DEF Searching, Reached
<1> QED BY <1>1, <1>3, <1>4 DEF Walking

(* What the walk goes past: what it frees and what is below temp.          *)
Passed(w) ==
    {c \in Addresses : c \notin w.used \/ w.chunk[c].start < w.chunk[w.temp].start}

LEMMA PassedGrows ==
    ASSUME BufferInv, ~wild, NEW s, NEW z, Ahead(s, z), NEW w, Walking(w, s, z),
           ~Halts(w), ~Halts(OneStep(w))
    PROVE  w.temp \notin Passed(w) /\ Passed(w) \cup {w.temp} \subseteq Passed(OneStep(w))
<1> DEFINE t == w.temp
           h == w.chunk
           U == w.used
           v == OneStep(w)
           b == h[t].next
<1>1. w \in Walkers /\ t \in U /\ t \in Addresses /\ U \in SUBSET Addresses /\ h \in Memories
  BY WalkersFields DEF Halts, Walking
<1>2. v.temp \in v.used /\ Walking(v, s, z)
  BY OneStepKeeps DEF Halts
<1>3. \A a \in U : h[a].start \in Int
  BY <1>1, RecordsTyped
<1>4. v = Follow(IF Touches(w) THEN Merge(w) ELSE w)
  BY DEF OneStep
<1>5. /\ v.used \subseteq U
      /\ \A c \in Addresses \ {t} : v.chunk[c].start = h[c].start
      /\ v.chunk[t].start <= h[t].start
      /\ v.temp = b \/ v.temp = Unset
  <2>1. CASE Touches(w)
    <3> DEFINE m == Merge(w)
    <3>1. /\ m.used = U \ {w.ans} /\ m.temp = t /\ m \in Walkers
          /\ \A c \in Addresses \ {t} : m.chunk[c].start = h[c].start
          /\ m.chunk[t].start = Start(w)
          /\ m.chunk[t].next = b \/ m.chunk[t].next = Unset
      BY <1>1, MergeFields
    <3>2. Start(w) <= h[t].start
      <4>1. h[t].start \in Int /\ w.start \in Int
        BY <1>1, <1>3, WalkersFields
      <4> QED BY <4>1 DEF Start, Lesser
    <3> HIDE DEF m
    <3>3. v = Follow(m)
      BY <1>4, <2>1 DEF m
    <3>4. v.used = m.used /\ v.chunk = m.chunk /\ v.temp = m.chunk[t].next
      BY <3>1, <3>3 DEF Follow, Walkers
    <3> QED BY <3>1, <3>2, <3>4
  <2>2. CASE ~Touches(w)
    <3>1. v = Follow(w)
      BY <1>4, <2>2
    <3>2. v.used = U /\ v.chunk = h /\ v.temp = b
      BY <1>1, <3>1 DEF Follow, Walkers
    <3> QED BY <1>1, <1>3, <3>2
  <2> QED BY <2>1, <2>2
<1>6. Unset \notin v.used
  BY <1>1, <1>5 DEF Addresses, Unset
<1>7. v.temp = b /\ b \in U
  BY <1>2, <1>5, <1>6
<1>8. Strung(h, U, w.first)
  BY DEF Walking, Searching, Taken, BufferInv, List, Joining
<1>9. h[t].start < h[b].start
  BY <1>1, <1>7, <1>8 DEF Strung, Adjoining
<1>10. b # t /\ b \in Addresses
  BY <1>1, <1>3, <1>7, <1>9
<1>11. v.chunk[b].start = h[b].start
  BY <1>5, <1>10
<1>12. t \notin Passed(w)
  BY <1>1, <1>3 DEF Passed
<1>13. t \in Passed(v)
  <2>1. v.chunk[t].start \in Int
    <3>1. v.chunk \in Memories
      BY <1>2, WalkersFields DEF Walking
    <3> QED BY <1>1, <3>1, RecordsTyped
  <2>2. v.chunk[t].start < h[b].start
    BY <1>1, <1>3, <1>5, <1>7, <1>9, <2>1
  <2> HIDE DEF v
  <2> QED BY <1>1, <1>7, <1>11, <2>2 DEF Passed
<1>14. ASSUME NEW c \in Passed(w)
       PROVE  c \in Passed(v)
  <2>1. c \in Addresses /\ c # t
    BY <1>12, <1>14 DEF Passed
  <2>2. CASE c \notin U
    <3> HIDE DEF v
    <3> QED BY <1>5, <2>1, <2>2 DEF Passed
  <2>3. CASE c \in U /\ h[c].start < h[t].start
    <3>1. v.chunk[c].start < v.chunk[b].start
      BY <1>1, <1>3, <1>5, <1>7, <1>9, <1>11, <2>1, <2>3
    <3> HIDE DEF v
    <3> QED BY <1>7, <2>1, <3>1 DEF Passed
  <2> QED BY <2>2, <2>3 DEF Passed
<1> QED BY <1>12, <1>13, <1>14

(* The walk always comes to an end: there are no more steps in it than     *)
(* there are chunks.                                                       *)
LEMMA WalkedHalts ==
    ASSUME BufferInv, ~wild, NEW s, NEW z, Ahead(s, z)
    PROVE  Walking(Walked(Walker(s, z)), s, z) /\ Halts(Walked(Walker(s, z)))
<1> DEFINE N == MaxChunks
           V == WalkSet(s, z)
           w == Walker(s, z)
           upTo == CHOOSE f : IsWalk(f, w)
<1>1. N \in Nat /\ N # 0
  BY BufferAssumption
<1>2. w \in V
  BY WalkStarts DEF WalkSet, Walking
<1>3. Walked(w) = upTo[N]
  BY Zenon DEF Walked, IsWalk
<1> HIDE DEF upTo, N, V, w
<1>4. \A v \in V : OneStep(v) \in V
  <2> TAKE v \in V
  <2>1. Walking(v, s, z)
    BY DEF V, WalkSet
  <2>2. Walking(OneStep(v), s, z)
    BY <2>1, OneStepKeeps
  <2> QED BY <2>2 DEF V, WalkSet, Walking
<1>5. \E f : IsWalk(f, w)
  <2> DEFINE F == [n \in 1 .. N |-> [v \in V |-> OneStep(v)]]
  <2>1. \A n \in 1 .. N : \A v \in V : F[n][v] = OneStep(v)
    OBVIOUS
  <2> HIDE DEF F
  <2>2. Loops(F, V, N)
    BY <1>4, <2>1 DEF Loops
  <2>3. PICK g \in [0 .. N -> V] :
           g[0] = w /\ \A n \in 1 .. N : g[n] = F[n][g[n - 1]]
    BY ONLY <1>1, <1>2, <2>2, LoopRuns
  <2>4. ASSUME NEW n \in 0 .. N
        PROVE  g[n] = IF n = 0 THEN w ELSE OneStep(g[n - 1])
    <3>1. CASE n = 0
      BY <2>3, <3>1
    <3>2. CASE n # 0
      <4>1. n \in 1 .. N /\ n - 1 \in 0 .. N
        BY <1>1, <3>2
      <4>2. g[n] = F[n][g[n - 1]] /\ g[n - 1] \in V
        BY <2>3, <4>1
      <4> QED BY <2>1, <3>2, <4>1, <4>2
    <3> QED BY <3>1, <3>2
  <2>5. g = [n \in 0 .. N |-> g[n]]
    OBVIOUS
  <2>6. g = [n \in 0 .. N |-> IF n = 0 THEN w ELSE OneStep(g[n - 1])]
    BY <2>4, <2>5
  <2> QED BY <2>6 DEF IsWalk, N
<1>6. IsWalk(upTo, w)
  BY <1>5, Zenon DEF upTo
<1>7. \A n \in 0 .. N : upTo[n] = IF n = 0 THEN w ELSE OneStep(upTo[n - 1])
  BY <1>6, Zenon DEF IsWalk, N
<1> DEFINE S == {n \in 0 .. N : /\ upTo[n] \in V
                                /\ ~Halts(upTo[n]) => n <= Cardinality(Passed(upTo[n]))}
<1>8. IsFiniteSet(Addresses) /\ Cardinality(Addresses) = N
  BY <1>1, FS_Interval DEF Addresses, N
<1>9. \A v : /\ IsFiniteSet(Passed(v)) /\ Cardinality(Passed(v)) \in Nat
             /\ Passed(v) \subseteq Addresses
  <2> TAKE v
  <2>1. Passed(v) \subseteq Addresses
    BY DEF Passed
  <2> HIDE DEF Passed
  <2> QED BY <1>8, <2>1, FS_Subset, FS_CardinalityType
<1>10. 0 \in S
  BY <1>1, <1>2, <1>7, <1>9
<1>11. ASSUME NEW n \in 1 .. N, n - 1 \in S
       PROVE  n \in S
  <2> DEFINE v == upTo[n - 1]
             P == Passed(v)
             Q == Passed(OneStep(v))
  <2>1. upTo[n] = OneStep(v) /\ v \in V /\ (~Halts(v) => n - 1 <= Cardinality(P))
    BY <1>7, <1>11
  <2>2. upTo[n] \in V
    BY <1>4, <2>1
  <2>3. ASSUME ~Halts(upTo[n])
        PROVE  n <= Cardinality(Q)
    <3>1. ~Halts(v)
      BY <2>1, <2>3 DEF OneStep
    <3>2. Walking(v, s, z)
      BY <2>1 DEF V, WalkSet
    <3>3. v.temp \notin P /\ P \cup {v.temp} \subseteq Q
      BY <2>1, <2>3, <3>1, <3>2, PassedGrows
    <3>4. /\ IsFiniteSet(P) /\ IsFiniteSet(Q) /\ Cardinality(P) \in Nat
          /\ Cardinality(Q) \in Nat
      BY <1>9
    <3> HIDE DEF P, Q
    <3>5. Cardinality(P \cup {v.temp}) = Cardinality(P) + 1
      BY <3>3, <3>4, FS_AddElement
    <3>6. Cardinality(P \cup {v.temp}) <= Cardinality(Q)
      BY <3>3, <3>4, FS_Subset
    <3> QED BY <1>1, <2>1, <3>1, <3>4, <3>5, <3>6
  <2>4. n \in 0 .. N
    BY <1>1
  <2> QED BY <2>1, <2>2, <2>3, <2>4
<1>12. N \in S
  <2> HIDE DEF S
  <2>1. 0 .. N \subseteq S
    BY <1>1, <1>10, <1>11, HoldsAll
  <2> QED BY <1>1, <2>1
<1>13. Walking(upTo[N], s, z)
  BY <1>12 DEF V, WalkSet
<1>14. Halts(upTo[N])
  <2> SUFFICES ASSUME ~Halts(upTo[N]) PROVE FALSE
    OBVIOUS
  <2> DEFINE v == upTo[N]
             P == Passed(v)
  <2>1. v.temp \in Addresses
    BY <1>13, WalkersFields DEF Halts, Walking
  <2>2. v.temp \notin P
    <3>1. v.chunk[v.temp].start \in Int /\ v.temp \in v.used
      BY <1>13, <2>1, WalkersFields, RecordsTyped DEF Halts, Walking
    <3> HIDE DEF v
    <3> QED BY <3>1 DEF Passed
  <2>3. N <= Cardinality(P) /\ IsFiniteSet(P) /\ P \subseteq Addresses /\ Cardinality(P) \in Nat
    BY <1>9, <1>12
  <2> HIDE DEF P, v
  <2>4. Cardinality(P \cup {v.temp}) = Cardinality(P) + 1
    BY <2>2, <2>3, FS_AddElement
  <2>5. Cardinality(P \cup {v.temp}) <= Cardinality(Addresses)
    BY <1>8, <2>1, <2>3, FS_Subset
  <2> QED BY <1>1, <1>8, <2>3, <2>4, <2>5
<1> QED BY <1>3, <1>13, <1>14 DEF w

(* What Add may come to: the segment is in; there was no memory for it and *)
(* nothing has changed; or a bad pointer has been followed.                *)
Stores(w, s, z) ==
    /\ ~w.wild /\ List(w.chunk, w.used, w.first) /\ TookIn(w, s, z)
    /\ HasBad(w.chunk, w.used) => HasBad(chunk, used) \/ s > rcv_nxt

Refuses(w, s) ==
    /\ ~w.wild /\ s > rcv_nxt
    /\ w.chunk = chunk /\ w.used = used /\ w.first = first /\ w.rcv = rcv_nxt

Strays(w, s) == w.wild /\ (HasBad(chunk, used) \/ s > rcv_nxt)

Result(w, s, z) ==
    /\ w \in Walkers /\ w.first \in w.used /\ Living(w.chunk, w.used)
    /\ Stores(w, s, z) \/ Refuses(w, s) \/ Strays(w, s)

LEMMA TakenIsStored ==
    ASSUME NEW s, NEW z, NEW w \in Walkers, ~w.wild, Taken(w, s, z),
           \/ w.chunk[w.ans].next = Null
           \/ w.chunk[w.ans].next \in w.used /\ Before(w.chunk, w.ans, w.chunk[w.ans].next)
    PROVE  Result(w, s, z)
<1> DEFINE h == w.chunk
           U == w.used
           f == w.first
           x == w.ans
<1>1. h \in Memories /\ U \in SUBSET Addresses /\ f \in U /\ x \in U /\ Joining(h, U, f, x)
  BY WalkersFields DEF Taken, Joining
<1>2. List(h, U, f)
  <2>1. h[x].next = Null \/ (h[x].next \in U /\ Before(h, x, h[x].next))
    OBVIOUS
  <2> HIDE DEF h, U, f, x
  <2> QED BY ONLY <1>1, <2>1, JoinedUp
<1>3. HasBad(h, U) => HasBad(chunk, used) \/ s > rcv_nxt
  BY DEF Taken, HasBad
<1>4. Living(h, U)
  BY <1>2 DEF List, Strung
<1> QED BY <1>1, <1>2, <1>3, <1>4 DEF Result, Stores, Taken

LEMMA WildStrays ==
    ASSUME BufferInv, ~wild, NEW s, NEW z, NEW w, Walking(w, s, z),
           HasBad(chunk, used) \/ s > rcv_nxt
    PROVE  Result(Wild(w), s, z)
<1>1. w \in Walkers /\ w.first \in w.used /\ Living(w.chunk, w.used)
  BY DEF Walking, Searching, Taken, Joining, Strung, BufferInv
<1>2. /\ Wild(w) \in Walkers /\ Wild(w).first = w.first /\ Wild(w).used = w.used
      /\ Wild(w).chunk = w.chunk /\ Wild(w).wild = TRUE
  BY <1>1 DEF Wild, Walkers
<1> QED BY <1>1, <1>2 DEF Result, Strays

(* Before the walk's end the segment has touched nothing yet: it starts    *)
(* behind rcv_nxt.                                                         *)
LEMMA SearchedBehind ==
    ASSUME BufferInv, ~wild, NEW s, NEW z, Ahead(s, z), NEW w, Walking(w, s, z),
           Searching(w, s, z), w.last # Null
    PROVE  s > rcv_nxt /\ w.last \in used /\ w.temp = chunk[w.last].next
           /\ chunk[w.last].start + chunk[w.last].size < s
<1> DEFINE l == w.last
<1>1. l \in used /\ w.temp = chunk[l].next /\ chunk[l].start + chunk[l].size < s
  BY DEF Searching, Reached
<1>2. /\ List(chunk, used, first) /\ chunk[first].start + chunk[first].size = rcv_nxt
      /\ chunk \in Memories /\ used \subseteq Addresses /\ first \in used
  BY DEF BufferInv
<1>3. chunk[first].start <= chunk[l].start
  BY <1>1, <1>2 DEF List, Strung
<1>4. first = l \/ Before(chunk, first, l) \/ Before(chunk, l, first)
  BY <1>1, <1>2 DEF List
<1>5. /\ chunk[first].start \in Int /\ chunk[first].size \in Int /\ 0 <= chunk[first].size
      /\ chunk[l].start \in Int /\ chunk[l].size \in Int /\ 0 <= chunk[l].size
  BY <1>1, <1>2, RecordsTyped
<1>6. s \in Int
  BY DEF Ahead
<1> QED BY <1>1, <1>2, <1>3, <1>4, <1>5, <1>6 DEF Before

LEMMA MallocGives ==
    ASSUME NEW w \in Walkers, Free(w) # {}
    PROVE  Malloc(w) \in Addresses \ w.used
<1>1. Free(w) \in SUBSET Nat
  BY BufferAssumption DEF Free, Addresses
<1>2. \E a \in Free(w) : \A b \in Free(w) : a <= b
  BY <1>1, LeastIn
<1>3. Malloc(w) \in Free(w)
  BY <1>2 DEF Malloc
<1> QED BY <1>3 DEF Free

(* A chunk with the segment in it, made by Insert or Attach.               *)
LEMMA NewChunkStores ==
    ASSUME BufferInv, ~wild, NEW s, NEW z, Ahead(s, z), s > rcv_nxt,
           NEW w \in Walkers, w.wild = FALSE, w.first = first, w.rcv = rcv_nxt,
           List(w.chunk, w.used, first),
           BytesIn(w.chunk, w.used) = BytesIn(chunk, used) \cup (s .. s + z - 1),
           w.chunk[first].start = chunk[first].start,
           w.chunk[first].size = chunk[first].size,
           HasBad(chunk, used) => HasBad(w.chunk, w.used)
    PROVE  Result(w, s, z)
<1>1. /\ chunk[first].start \in Int /\ chunk[first].size \in Int /\ 0 <= chunk[first].size
      /\ chunk[first].start + chunk[first].size = rcv_nxt
  BY RecordsTyped DEF BufferInv
<1>2. Leading(w)
  BY <1>1 DEF Leading
<1>3. TookIn(w, s, z)
  BY <1>2 DEF TookIn
<1> QED BY <1>3 DEF Result, Stores, List, Strung

LEMMA AttachGives ==
    ASSUME BufferInv, ~wild, NEW s, NEW z, Ahead(s, z), NEW w, Walking(w, s, z),
           Searching(w, s, z), w.temp = Null, NEW v \in Attach(w)
    PROVE  Result(v, s, z)
<1> DEFINE l == w.last
           a == Malloc(w)
           d(n) == DataChunk(s, z, n, l)
           k(n) == [chunk EXCEPT ![l].next = a, ![a] = d(n)]
           with(n) == [w EXCEPT !.used = @ \cup {a}, !.chunk = k(n)]
<1>1. /\ w \in Walkers /\ w.chunk = chunk /\ w.used = used /\ w.first = first
      /\ w.rcv = rcv_nxt /\ w.start = s /\ w.size = z /\ w.wild = FALSE
  BY DEF Walking, Searching
<1>2. /\ List(chunk, used, first) /\ chunk \in Memories /\ used \in SUBSET Addresses
      /\ first \in used
  BY DEF BufferInv
<1>3. l # Null
  BY <1>2 DEF Searching, Reached, Addresses, Null
<1>4. /\ s > rcv_nxt /\ l \in used /\ chunk[l].next = Null
      /\ chunk[l].start + chunk[l].size < s
  BY <1>3, SearchedBehind
<1>5. v = Wild(w) \/ (Free(w) # {} /\ (v = with(Null) \/ v = with(Unset)))
  BY <1>1 DEF Attach
<1>6. CASE v = Wild(w)
  BY <1>4, <1>6, WildStrays
<1>7. ASSUME Free(w) # {}, NEW n \in {Null, Unset}, v = with(n)
      PROVE  Result(v, s, z)
  <2>1. a \in Addresses \ used
    BY <1>1, <1>7, MallocGives
  <2>2. s \in Nat /\ z \in Nat /\ s \in 0 .. Top /\ z \in 0 .. Top /\ s + z <= Top
    BY <1>1, WalkersFields DEF Ahead
  <2>3. d(n) \in ChunkRecords
    BY <1>2, <1>4, <2>2 DEF DataChunk, ChunkRecords, Pointers
  <2>4. l # a /\ l \in Addresses
    BY <1>2, <1>4, <2>1
  <2>5. chunk[l] \in ChunkRecords /\ \A c \in Addresses : chunk[c] \in ChunkRecords
    BY <1>2, <2>4 DEF Memories
  <2> HIDE DEF a, d
  <2>6. /\ k(n)[a] = d(n)
        /\ k(n)[l] = DataChunk(chunk[l].start, chunk[l].size, a, chunk[l].prev)
        /\ \A c \in used \ {l} : k(n)[c] = chunk[c]
    <3>1. k(n)[l] = [chunk[l] EXCEPT !.next = a]
      BY <1>2, <2>4 DEF Memories
    <3>2. [chunk[l] EXCEPT !.next = a] = DataChunk(chunk[l].start, chunk[l].size, a, chunk[l].prev)
      BY <2>5 DEF ChunkRecords, DataChunk
    <3> QED BY <1>2, <2>1, <2>4, <3>1, <3>2 DEF Memories
  <2>7. k(n) \in Memories
    <3>1. [chunk[l] EXCEPT !.next = a] \in ChunkRecords
      BY <2>1, <2>5 DEF ChunkRecords, Pointers
    <3> QED BY <1>2, <2>1, <2>3, <2>4, <2>5, <3>1 DEF Memories
  <2> DEFINE kn == k(n)
             U == used \cup {a}
  <2>8. PutBehind(chunk, kn, used, l, s, z, n, a)
    BY <2>6 DEF PutBehind, d
  <2>9. kn \in Memories
    BY <2>7
  <2> HIDE DEF kn, l
  <2>10. /\ List(kn, U, first)
         /\ Gains(chunk, used, kn, U, s, z)
         /\ kn[first].start = chunk[first].start /\ kn[first].size = chunk[first].size
         /\ HasBad(kn, U) <=> (n = Unset \/ HasBad(chunk, used))
    <3>1. /\ chunk \in Memories /\ kn \in Memories /\ used \in SUBSET Addresses
          /\ first \in used /\ List(chunk, used, first) /\ l \in used
          /\ s \in Nat /\ z \in Nat /\ chunk[l].next = Null
          /\ chunk[l].start + chunk[l].size < s
          /\ a \in Addresses \ used /\ n \in LastNexts
      BY <1>2, <1>4, <2>1, <2>2, <2>9 DEF LastNexts
    <3> QED BY ONLY <3>1, <2>8, Attached
  <2>11. v = [w EXCEPT !.used = @ \cup {a}, !.chunk = kn]
    BY <1>7 DEF kn
  <2>12. /\ v \in Walkers /\ v.chunk = kn /\ v.used = U /\ v.first = first
         /\ v.rcv = rcv_nxt /\ v.wild = FALSE
    BY <1>1, <1>2, <2>1, <2>9, <2>11 DEF Walkers
  <2> QED BY <1>4, <2>10, <2>12, NewChunkStores DEF Gains
<1> QED BY <1>5, <1>6, <1>7

LEMMA InsertGives ==
    ASSUME BufferInv, ~wild, NEW s, NEW z, Ahead(s, z), NEW w, Walking(w, s, z),
           Searching(w, s, z), w.temp \in w.used, IsIsolated(w), NEW v \in Insert(w)
    PROVE  Result(v, s, z)
<1> DEFINE l == w.last
           t == w.temp
           a == Malloc(w)
           p == chunk[t].prev
           d == DataChunk(s, z, t, IF p # Null THEN p ELSE Unset)
           k == [chunk EXCEPT ![a] = d, ![t].prev = a, ![p].next = a]
           with == [w EXCEPT !.used = @ \cup {a}, !.chunk = k]
<1>1. /\ w \in Walkers /\ w.chunk = chunk /\ w.used = used /\ w.first = first
      /\ w.rcv = rcv_nxt /\ w.start = s /\ w.size = z /\ w.wild = FALSE
      /\ Reached(chunk, used, first, l, t, s)
  BY DEF Walking, Searching
<1>2. /\ List(chunk, used, first) /\ chunk \in Memories /\ used \in SUBSET Addresses
      /\ first \in used /\ t \in used /\ t \in Addresses
      /\ chunk[first].start + chunk[first].size = rcv_nxt
  BY <1>1 DEF BufferInv
<1>3. s \in Nat /\ z \in Nat /\ s \in 0 .. Top /\ z \in 0 .. Top /\ s + z <= Top /\ rcv_nxt <= s
  BY <1>1, WalkersFields DEF Ahead
<1>4. s + z < chunk[t].start
  BY <1>1, <1>2, WalkTests
<1>5. l # Null /\ chunk[t].prev = l /\ l \in used /\ l # t
  <2>1. /\ l # Null => chunk[t].prev = l /\ l \in used /\ l # t
        /\ l = Null => t = first
    BY <1>1, <1>2, <1>3, LowerChunksEnd
  <2>2. chunk[first].start \in Int /\ chunk[first].size \in Int /\ 0 <= chunk[first].size
    BY <1>2, RecordsTyped
  <2>3. t # first
    BY <1>2, <1>3, <1>4, <2>2
  <2> QED BY <2>1, <2>3
<1>6. s > rcv_nxt /\ chunk[l].start + chunk[l].size < s
  BY <1>5, SearchedBehind
<1>7. p = l /\ p \in w.used
  BY <1>1, <1>5
<1>8. v = w \/ (Free(w) # {} /\ v = with)
  <2>1. Null \notin used
    BY <1>2 DEF Addresses, Null
  <2> QED BY <1>1, <1>7, <2>1 DEF Insert
<1>9. CASE v = w
  <2>1. Refuses(w, s)
    BY <1>1, <1>6 DEF Refuses
  <2> QED BY <1>1, <1>2, <1>9, <2>1 DEF Result, List, Strung
<1>10. CASE Free(w) # {} /\ v = with
  <2>1. a \in Addresses \ used
    BY <1>1, <1>10, MallocGives
  <2>2. d = DataChunk(s, z, t, l)
    BY <1>5
  <2>3. d \in ChunkRecords
    BY <1>2, <1>3, <1>5, <2>2 DEF DataChunk, ChunkRecords, Pointers
  <2>4. l # a /\ t # a /\ l \in Addresses /\ k = [chunk EXCEPT ![a] = d, ![t].prev = a, ![l].next = a]
    BY <1>2, <1>5, <2>1
  <2>5. \A c \in Addresses : chunk[c] \in ChunkRecords
    BY <1>2 DEF Memories
  <2> DEFINE kt == [chunk[t] EXCEPT !.prev = a]
             kl == [chunk[l] EXCEPT !.next = a]
  <2>6. /\ kt = DataChunk(chunk[t].start, chunk[t].size, chunk[t].next, a)
        /\ kl = DataChunk(chunk[l].start, chunk[l].size, a, chunk[l].prev)
        /\ kt \in ChunkRecords /\ kl \in ChunkRecords
    BY <1>2, <2>1, <2>4, <2>5 DEF ChunkRecords, DataChunk, Pointers
  <2> HIDE DEF a, d, l, t
  <2>7. /\ k = [c \in Addresses |-> IF c = a THEN d ELSE IF c = t THEN kt
                                    ELSE IF c = l THEN kl ELSE chunk[c]]
    <3>1. DOMAIN chunk = Addresses
      BY <1>2 DEF Memories
    <3> HIDE DEF k
    <3> DEFINE k1 == [chunk EXCEPT ![a] = d]
               k2 == [k1 EXCEPT ![t] = [k1[t] EXCEPT !.prev = a]]
               k3 == [k2 EXCEPT ![l] = [k2[l] EXCEPT !.next = a]]
    <3>2. k = k3
      BY <2>4
    <3>3. DOMAIN k1 = Addresses /\ \A c \in Addresses : k1[c] = IF c = a THEN d ELSE chunk[c]
      BY <2>1, <3>1
    <3>4. k1[t] = chunk[t]
      BY <1>2, <2>4, <3>3
    <3> HIDE DEF k1
    <3>5. DOMAIN k2 = Addresses /\ \A c \in Addresses : k2[c] = IF c = t THEN kt ELSE k1[c]
      BY <1>2, <3>3, <3>4
    <3>6. k2[l] = chunk[l]
      BY <1>5, <2>4, <3>3, <3>5
    <3> HIDE DEF k2, kt, kl
    <3>7. k3 = [c \in Addresses |-> IF c = l THEN [chunk[l] EXCEPT !.next = a] ELSE k2[c]]
      BY <2>4, <3>5, <3>6
    <3>8. k3 = [c \in Addresses |-> IF c = l THEN kl ELSE k2[c]]
      BY <3>7 DEF kl
    <3> HIDE DEF k3
    <3>9. \A c \in Addresses :
             (IF c = l THEN kl ELSE k2[c])
                = IF c = a THEN d ELSE IF c = t THEN kt ELSE IF c = l THEN kl ELSE chunk[c]
      BY <1>5, <2>4, <3>3, <3>5
    <3> QED BY <3>2, <3>8, <3>9
  <2> HIDE DEF k, kt, kl
  <2>8. k \in Memories
    BY <2>1, <2>3, <2>5, <2>6, <2>7 DEF Memories
  <2> DEFINE U == used \cup {a}
  <2>9. PutBefore(chunk, k, used, l, t, s, z, a)
    BY <1>2, <1>5, <2>1, <2>2, <2>4, <2>6, <2>7 DEF PutBefore
  <2>10. /\ List(k, U, first)
         /\ Gains(chunk, used, k, U, s, z)
         /\ k[first].start = chunk[first].start /\ k[first].size = chunk[first].size
         /\ HasBad(k, U) <=> HasBad(chunk, used)
    <3>1. /\ chunk \in Memories /\ k \in Memories /\ used \in SUBSET Addresses
          /\ first \in used /\ List(chunk, used, first) /\ l \in used /\ t \in used
          /\ s \in Nat /\ z \in Nat /\ s + z < chunk[t].start
          /\ Reached(chunk, used, first, l, t, s) /\ a \in Addresses \ used
      BY <1>1, <1>2, <1>3, <1>4, <1>5, <2>1, <2>8
    <3> QED BY ONLY <3>1, <2>9, Inserted
  <2>11. /\ v \in Walkers /\ v.chunk = k /\ v.used = U /\ v.first = first
         /\ v.rcv = rcv_nxt /\ v.wild = FALSE
    BY <1>1, <1>2, <1>10, <2>1, <2>8 DEF Walkers
  <2> QED BY <1>6, <2>10, <2>11, NewChunkStores DEF Gains
<1> QED BY <1>8, <1>9, <1>10

(* Whatever Add comes to is one of the three.                              *)
LEMMA OutcomesAre ==
    ASSUME BufferInv, ~wild, NEW s, NEW z, Ahead(s, z),
           NEW v \in Outcomes(Walked(Walker(s, z)))
    PROVE  Result(v, s, z)
<1> DEFINE w == Walked(Walker(s, z))
<1>1. Walking(w, s, z) /\ Halts(w)
  BY WalkedHalts
<1>2. v \in Outcomes(w)
  OBVIOUS
<1> HIDE DEF w
<1>3. w \in Walkers /\ w.wild = FALSE
  BY <1>1 DEF Walking
<1>4. used \subseteq Addresses /\ first \in used /\ Null \notin used
  BY DEF BufferInv, Addresses, Null
<1>5. CASE Searching(w, s, z)
  <2>1. /\ w.chunk = chunk /\ w.used = used /\ w.start = s /\ w.ans = Null
    BY <1>5 DEF Searching
  <2>2. CASE w.temp = Null
    <3>1. w.last # Null
      BY <1>4, <1>5, <2>2 DEF Searching, Reached
    <3>2. End(w.chunk[w.last]) < w.start
      BY <1>1, <1>5, <2>1, <3>1, SearchedBehind DEF End
    <3>3. v \in Attach(w)
      BY <1>2, <2>2, <3>2 DEF Outcomes
    <3> QED BY <1>1, <1>5, <2>2, <3>3, AttachGives
  <2>3. CASE w.temp # Null /\ w.temp \notin w.used
    <3>1. w.last # Null
      BY <1>4, <1>5, <2>1, <2>3 DEF Searching, Reached
    <3>2. s > rcv_nxt
      BY <1>1, <1>5, <3>1, SearchedBehind
    <3>3. v = Wild(w)
      BY <1>2, <2>3 DEF Outcomes
    <3> QED BY <1>1, <3>2, <3>3, WildStrays
  <2>4. CASE w.temp \in w.used
    <3>1. w.temp # Null
      BY <1>4, <2>1, <2>4
    <3>2. CASE IsIsolated(w)
      <4>1. v \in Insert(w)
        BY <1>2, <2>1, <2>4, <3>1, <3>2 DEF Outcomes
      <4> QED BY <1>1, <1>5, <2>4, <3>2, <4>1, InsertGives
    <3>3. CASE ~IsIsolated(w)
      <4>1. Touches(w) /\ w.chunk[w.temp].next = Null
        BY <1>1, <2>4, <3>3 DEF Halts
      <4>2. v = Merge(w)
        BY <1>2, <2>4, <3>1, <3>3 DEF Outcomes
      <4>3. v \in Walkers /\ ~v.wild /\ Taken(v, s, z) /\ v.ans = w.temp
        BY <1>1, <2>4, <3>3, <4>1, <4>2, Merging
      <4>4. v.chunk[v.ans].next = Null
        BY <1>3, <1>4, <2>1, <2>4, <4>1, <4>2, <4>3, MergeFields
      <4> QED BY <4>3, <4>4, TakenIsStored
    <3> QED BY <3>2, <3>3
  <2> QED BY <2>2, <2>3, <2>4
<1>6. CASE Taken(w, s, z) /\ w.last = w.ans /\ w.temp = w.chunk[w.ans].next
  <2>1. /\ w.ans \in w.used /\ w.ans # Null /\ w.chunk[w.ans].start = w.start
        /\ w.chunk[w.ans].size = w.size /\ w.ans \in Addresses
    BY <1>3, <1>6, WalkersFields DEF Taken, Joining, Addresses, Null
  <2>2. w.start \in Int /\ w.size \in Int /\ 0 <= w.size
    BY <1>3, WalkersFields
  <2>3. CASE w.temp = Null
    <3>1. ~(End(w.chunk[w.last]) < w.start)
      BY <1>6, <2>1, <2>2 DEF End
    <3>2. v = w
      BY <1>2, <2>3, <3>1 DEF Outcomes
    <3> QED BY <1>3, <1>6, <2>3, <3>2, TakenIsStored
  <2>4. CASE w.temp # Null /\ w.temp \notin w.used
    <3>1. v = Wild(w)
      BY <1>2, <2>4 DEF Outcomes
    <3>2. w.chunk[w.ans].next = Unset
      BY <1>6, <2>1, <2>4 DEF Taken, Joining, Strung, Living
    <3>3. HasBad(chunk, used)
      BY <1>6, <2>1, <2>2, <3>2 DEF Taken
    <3> QED BY <1>1, <3>1, <3>3, WildStrays
  <2>5. CASE w.temp \in w.used
    <3>1. w.temp # Null /\ w.temp \in Addresses
      BY <1>3, <2>5, WalkersFields DEF Addresses, Null
    <3>2. CASE IsIsolated(w)
      <4>1. v = w
        BY <1>2, <2>1, <2>5, <3>1, <3>2 DEF Outcomes
      <4>2. Before(w.chunk, w.ans, w.temp)
        BY <1>3, <2>1, <3>1, <3>2, WalkTests DEF Before
      <4> QED BY <1>3, <1>6, <2>5, <4>1, <4>2, TakenIsStored
    <3>3. CASE ~IsIsolated(w)
      <4>1. Touches(w) /\ w.chunk[w.temp].next = Null
        BY <1>1, <2>5, <3>3 DEF Halts
      <4>2. v = Merge(w)
        BY <1>2, <2>5, <3>1, <3>3 DEF Outcomes
      <4>3. v \in Walkers /\ ~v.wild /\ Taken(v, s, z) /\ v.ans = w.temp
        BY <1>1, <2>5, <3>3, <4>1, <4>2, Merging
      <4>4. v.chunk[v.ans].next = Null
        BY <1>3, <2>1, <3>1, <4>1, <4>2, <4>3, MergeFields
      <4> QED BY <4>3, <4>4, TakenIsStored
    <3> QED BY <3>2, <3>3
  <2> QED BY <2>3, <2>4, <2>5
<1> QED BY <1>1, <1>5, <1>6 DEF Walking

(* The bytes above rcv_nxt, and what comes right after the first chunk.    *)
LEMMA HeldIs ==
    ASSUME NEW h \in Memories, NEW U \in SUBSET Addresses, NEW f \in U, List(h, U, f),
           NEW r, r = h[f].start + h[f].size
    PROVE  /\ UNION {BytesOf(h[a]) : a \in U \ {f}} = {p \in BytesIn(h, U) : p > r}
           /\ r \notin BytesIn(h, U)
           /\ h[f].start .. r - 1 \subseteq BytesIn(h, U)
<1>1. \A a \in U : h[a].start \in Int /\ h[a].size \in Int /\ 0 <= h[a].size
  BY RecordsTyped
<1>2. \A a \in U \ {f} : r < h[a].start
  <2> TAKE a \in U \ {f}
  <2>1. h[f].start <= h[a].start
    BY DEF List, Strung
  <2>2. Before(h, f, a) \/ Before(h, a, f)
    BY DEF List
  <2> QED BY <1>1, <2>1, <2>2 DEF Before
<1>3. \A a \in U \ {f} : \A p \in BytesOf(h[a]) : p > r
  BY <1>1, <1>2 DEF BytesOf
<1>4. \A p \in BytesOf(h[f]) : p < r
  BY <1>1 DEF BytesOf
<1>5. BytesOf(h[f]) = h[f].start .. r - 1
  BY <1>1 DEF BytesOf
<1>6. r \in Int
  BY <1>1
<1>7. \A p \in BytesIn(h, U) : p \in BytesOf(h[f]) \/ \E a \in U \ {f} : p \in BytesOf(h[a])
  BY DEF BytesIn
<1>8. \A a \in U : \A p \in BytesOf(h[a]) : p \in BytesIn(h, U) /\ p \in Int
  BY <1>1 DEF BytesIn, BytesOf
<1>9. UNION {BytesOf(h[a]) : a \in U \ {f}} \subseteq {p \in BytesIn(h, U) : p > r}
  BY <1>3, <1>8
<1>10. {p \in BytesIn(h, U) : p > r} \subseteq UNION {BytesOf(h[a]) : a \in U \ {f}}
  BY <1>4, <1>6, <1>7, <1>8
<1>11. r \notin BytesIn(h, U)
  BY <1>3, <1>4, <1>6, <1>7
<1> QED BY <1>5, <1>8, <1>9, <1>10, <1>11

LEMMA BufferStarts == BufferInit => BufferInv
<1> SUFFICES ASSUME BufferInit PROVE BufferInv
  OBVIOUS
<1>1. PICK r \in 0 .. 1 :
         /\ chunk = [a \in Addresses |-> IF a = 1 THEN DataChunk(r, 0, Null, Null)
                                                  ELSE DataChunk(0, 0, Unset, Unset)]
         /\ used = {1} /\ first = 1 /\ rcv_nxt = r /\ wild = FALSE
  BY DEF BufferInit
<1>2. 1 \in Addresses /\ r \in 0 .. Top /\ 0 \in 0 .. Top
  BY BufferAssumption DEF Addresses
<1>3. chunk \in Memories
  BY <1>1, <1>2 DEF Memories, ChunkRecords, DataChunk, Pointers
<1>4. chunk[1].start = r /\ chunk[1].size = 0 /\ chunk[1].next = Null /\ chunk[1].prev = Null
  BY <1>1, <1>2 DEF DataChunk
<1>5. Null \notin {1} /\ Null # Unset
  BY DEF Null, Unset
<1>6. List(chunk, used, first)
  BY <1>1, <1>2, <1>4, <1>5 DEF List, Strung, Living
<1>7. Living(chunk, used)
  BY <1>6 DEF List, Strung
<1>8. chunk[first].start + chunk[first].size = rcv_nxt
  BY <1>1, <1>2, <1>4
<1>9. used \subseteq Addresses /\ first \in used /\ rcv_nxt \in 0 .. Top /\ wild \in BOOLEAN
  BY <1>1, <1>2
<1> QED BY <1>3, <1>6, <1>7, <1>8, <1>9 DEF BufferInv

(* A call of Add comes to a result.                                        *)
LEMMA AddIs ==
    ASSUME BufferInv, NEW s \in 0 .. Top - 1, NEW z \in 1 .. Top - s, Add(s, z)
    PROVE  /\ ~wild /\ Ahead(s, z)
           /\ \E v : Result(v, s, z) /\ TurnsInto(v)
<1>1. ~wild /\ Ahead(s, z)
  BY BufferAssumption DEF Add, Ahead
<1>2. ~(s + z < rcv_nxt)
  BY <1>1, BufferAssumption DEF Ahead, BufferInv
<1>3. PICK v \in Outcomes(Walked(Walker(s, z))) : TurnsInto(v)
  BY <1>2 DEF Add
<1>4. Result(v, s, z)
  BY <1>1, OutcomesAre
<1> QED BY <1>1, <1>3, <1>4

LEMMA ResultKeeps ==
    ASSUME BufferInv, ~wild, NEW s, NEW z, Ahead(s, z),
           NEW v, Result(v, s, z), TurnsInto(v)
    PROVE  BufferInv'
<1>1. /\ v.chunk \in Memories /\ v.used \subseteq Addresses /\ v.rcv \in 0 .. Top
      /\ v.wild \in BOOLEAN /\ v.first \in v.used /\ Living(v.chunk, v.used)
  BY WalkersFields DEF Result
<1>2. ~v.wild => /\ List(v.chunk, v.used, v.first)
                 /\ v.chunk[v.first].start + v.chunk[v.first].size = v.rcv
  <2>1. CASE Stores(v, s, z)
    BY <2>1 DEF Stores, TookIn, Leading
  <2>2. CASE Refuses(v, s)
    BY <2>2 DEF Refuses, BufferInv
  <2>3. CASE Strays(v, s)
    BY <2>3 DEF Strays
  <2> QED BY <2>1, <2>2, <2>3 DEF Result
<1>3. /\ chunk' = v.chunk /\ used' = v.used /\ first' = v.first /\ rcv_nxt' = v.rcv
      /\ wild' = v.wild
  BY DEF TurnsInto
<1> QED BY <1>1, <1>2, <1>3 DEF BufferInv, Living, List, Strung, Adjoining, Before

LEMMA BufferKeeps == BufferInv /\ [BufferNext]_bufferVars => BufferInv'
<1> SUFFICES ASSUME BufferInv, [BufferNext]_bufferVars PROVE BufferInv'
  OBVIOUS
<1>1. ASSUME NEW s \in 0 .. Top - 1, NEW z \in 1 .. Top - s, Add(s, z)
      PROVE  BufferInv'
  BY <1>1, AddIs, ResultKeeps
<1>2. CASE UNCHANGED bufferVars
  BY <1>2 DEF BufferInv, Living, List, Strung, Adjoining, Before, bufferVars
<1> QED BY <1>1, <1>2 DEF BufferNext

LEMMA BufferInvHolds == BufferSpec => []BufferInv
BY BufferStarts, BufferKeeps, PTL DEF BufferSpec

(* The chunk list is in order, whatever segments come, in whatever order,  *)
(* and whether or not there is memory: as long as no link is bad each      *)
(* chunk ends before the next begins, links come back, and no chunk is     *)
(* lost (tcp_buffer.cpp 74-148).                                           *)
THEOREM BufferIsInOrder == BufferSpec => []InOrder
<1>1. BufferInv => InOrder
  <2> SUFFICES ASSUME BufferInv PROVE InOrder
    OBVIOUS
  <2>1. /\ chunk \in Memories /\ used \in SUBSET Addresses /\ first \in used
        /\ rcv_nxt \in 0 .. Top /\ wild \in BOOLEAN /\ Living(chunk, used)
    BY DEF BufferInv
  <2>2. ChunksTyped
    BY <2>1, RecordsTyped DEF ChunksTyped, Living
  <2>3. ASSUME ~wild, ~suspect
        PROVE  /\ End(chunk[first]) = rcv_nxt
               /\ chunk[first].prev = Null
               /\ \A a \in used : Follows(a) # Null =>
                      /\ End(chunk[a]) < chunk[Follows(a)].start
                      /\ chunk[Follows(a)].prev = a
               /\ \A a \in used \ {first} : \E b \in used : Follows(b) = a
    <3>1. List(chunk, used, first) /\ chunk[first].start + chunk[first].size = rcv_nxt
      BY <2>3 DEF BufferInv
    <3>2. \A a \in used : chunk[a].next # Unset
      BY <2>3 DEF suspect, Follows
    <3>3. ASSUME NEW a \in used, chunk[a].next # Null
          PROVE  /\ End(chunk[a]) < chunk[chunk[a].next].start
                 /\ chunk[chunk[a].next].prev = a
      <4> DEFINE b == chunk[a].next
      <4>1. b \in used
        BY <2>1, <3>2, <3>3 DEF Living
      <4>2. chunk[b].prev = a /\ chunk[a].start < chunk[b].start
        BY <3>1, <4>1 DEF List, Strung, Adjoining
      <4>3. /\ chunk[a].start \in Int /\ chunk[a].size \in Int
            /\ chunk[b].start \in Int /\ chunk[b].size \in Int /\ 0 <= chunk[b].size
        BY <2>1, <4>1, RecordsTyped
      <4>4. a # b
        BY <4>2, <4>3
      <4>5. Before(chunk, a, b) \/ Before(chunk, b, a)
        BY <3>1, <4>1, <4>4 DEF List
      <4> QED BY <4>2, <4>3, <4>5 DEF Before, End
    <3>4. chunk[first].prev = Null /\ \A a \in used \ {first} : \E b \in used : chunk[b].next = a
      BY <3>1, <3>2 DEF List, Strung
    <3> QED BY <3>1, <3>3, <3>4 DEF Follows, End
  <2> QED BY <2>2, <2>3 DEF InOrder
<1> QED BY <1>1, BufferInvHolds, PTL

(* The numbers that Reassembly's Stored says are kept.                     *)
LEMMA StoredBytes ==
    ASSUME BufferInv, ~wild, NEW s, NEW z, Ahead(s, z),
           NEW v, Result(v, s, z), Stores(v, s, z), TurnsInto(v)
    PROVE  Abstract!Stored(s .. s + z - 1)
<1> DEFINE seg == s .. s + z - 1
           got == held \cup seg
           B == BytesIn(chunk, used)
           C == BytesIn(v.chunk, v.used)
           n == v.rcv
<1>1. /\ chunk' = v.chunk /\ used' = v.used /\ first' = v.first /\ rcv_nxt' = n
      /\ v.chunk \in Memories /\ v.used \in SUBSET Addresses /\ n \in 0 .. Top
      /\ v.first \in v.used
  BY WalkersFields DEF TurnsInto, Result
<1>2. /\ List(chunk, used, first) /\ chunk[first].start + chunk[first].size = rcv_nxt
      /\ chunk \in Memories /\ used \in SUBSET Addresses /\ first \in used
      /\ rcv_nxt \in 0 .. Top /\ s \in Nat /\ z \in Nat \ {0} /\ rcv_nxt <= s
  BY DEF BufferInv, Ahead
<1>3. /\ List(v.chunk, v.used, v.first) /\ Leading(v) /\ C = B \cup seg
      /\ HasBad(chunk, used) => HasBad(v.chunk, v.used)
      /\ HasBad(v.chunk, v.used) => HasBad(chunk, used) \/ s > rcv_nxt
  BY DEF Stores, TookIn
<1>4. held = UNION {BytesOf(chunk[a]) : a \in used \ {first}}
  <2>1. \A a \in used : BytesOf(chunk[a]) = chunk[a].start .. End(chunk[a]) - 1
    BY <1>2, RecordsTyped DEF BytesOf, End
  <2> HIDE DEF B, C, n, got
  <2> QED BY <2>1 DEF held
<1>5. held' = UNION {BytesOf(v.chunk[a]) : a \in v.used \ {v.first}}
  <2>1. \A a \in v.used : BytesOf(v.chunk[a]) = v.chunk[a].start .. End(v.chunk[a]) - 1
    <3> TAKE a \in v.used
    <3>1. v.chunk[a].start \in Int /\ v.chunk[a].size \in Int
      BY <1>1, RecordsTyped
    <3> QED BY <3>1 DEF BytesOf, End
  <2>2. held' = UNION {v.chunk[a].start .. End(v.chunk[a]) - 1 : a \in v.used \ {v.first}}
    BY <1>1 DEF held, End
  <2> HIDE DEF B, C, n, got
  <2> QED BY <2>1, <2>2
<1>6. held = {p \in B : p > rcv_nxt} /\ rcv_nxt \notin B
  BY <1>2, <1>4, HeldIs
<1>7. /\ held' = {p \in C : p > n} /\ n \notin C
      /\ v.chunk[v.first].start .. n - 1 \subseteq C
  <2>1. n = v.chunk[v.first].start + v.chunk[v.first].size
    BY <1>3 DEF Leading
  <2> QED BY <1>1, <1>3, <1>5, <2>1, HeldIs
<1>8. /\ v.chunk[v.first].start \in Int /\ v.chunk[v.first].start <= rcv_nxt
      /\ rcv_nxt <= n
  BY <1>1, <1>3, RecordsTyped DEF Leading
<1>9. B \subseteq Int /\ seg \subseteq Int /\ \A p \in seg : p >= rcv_nxt
  <2>1. \A a \in used : chunk[a].start \in Int /\ chunk[a].size \in Int
    BY <1>2, RecordsTyped
  <2> QED BY <1>2, <2>1 DEF BytesIn, BytesOf
<1> HIDE DEF B, C, n, seg
<1>10. n \notin got
  BY <1>3, <1>6, <1>7
<1>11. rcv_nxt .. n - 1 \subseteq got
  <2> SUFFICES ASSUME NEW p \in rcv_nxt .. n - 1 PROVE p \in got
    OBVIOUS
  <2>1. p \in v.chunk[v.first].start .. n - 1
    BY <1>1, <1>2, <1>8
  <2>2. p \in B \cup seg
    BY <1>3, <1>7, <2>1
  <2>3. p \in B => p > rcv_nxt
    BY <1>2, <1>6
  <2> QED BY <1>6, <2>2, <2>3
<1>12. held' = {p \in got : p > n}
  <2>1. \A p : p \in B /\ p > n => p \in held
    BY <1>1, <1>2, <1>6, <1>8, <1>9
  <2>2. \A p : p \in held => p \in B
    BY <1>6
  <2> QED BY <1>3, <1>7, <2>1, <2>2
<1>13. suspect = HasBad(chunk, used) /\ suspect' = HasBad(v.chunk, v.used)
  BY <1>1 DEF suspect, HasBad, Follows
<1>14. suspect' = suspect \/ (suspect' = TRUE /\ rcv_nxt \notin seg)
  <2>1. s > rcv_nxt => rcv_nxt \notin seg
    BY <1>2 DEF seg
  <2> QED BY <1>3, <1>13, <2>1 DEF HasBad
<1>15. rcv_nxt' = n /\ n \in 0 .. Top /\ n >= rcv_nxt
  BY <1>1, <1>2, <1>8
<1> HIDE DEF got
<1>16. Abstract!Stored(seg)
  BY <1>10, <1>11, <1>12, <1>14, <1>15 DEF Abstract!Stored, got
<1> QED BY <1>16 DEF seg

(* The list keeps what Reassembly promises TcpStream: the bytes that were  *)
(* received and nothing else, with rcv_nxt at the first that is missing;   *)
(* and before a bad pointer can be followed, a segment that left a gap has *)
(* made one.                                                               *)
THEOREM BufferKeepsTheBytes == BufferSpec => KeepsTheBytes
<1>1. BufferInit => Abstract!Init
  <2> SUFFICES ASSUME BufferInit PROVE Abstract!Init
    OBVIOUS
  <2>1. PICK r \in 0 .. 1 :
         /\ chunk = [a \in Addresses |-> IF a = 1 THEN DataChunk(r, 0, Null, Null)
                                                  ELSE DataChunk(0, 0, Unset, Unset)]
         /\ used = {1} /\ first = 1 /\ rcv_nxt = r /\ wild = FALSE
    BY DEF BufferInit
  <2>2. rcv_nxt \in 0 .. Top /\ wild = FALSE
    BY <2>1, BufferAssumption
  <2>3. held = {}
    BY <2>1 DEF held
  <2>4. suspect = FALSE
    BY <2>1, BufferAssumption DEF suspect, Follows, DataChunk, Addresses, Null, Unset
  <2> QED BY <2>2, <2>3, <2>4 DEF Abstract!Init
<1>2. BufferInv /\ [BufferNext]_bufferVars => [Abstract!Next]_(Abstract!vars)
  <2> SUFFICES ASSUME BufferInv, [BufferNext]_bufferVars
               PROVE  [Abstract!Next]_(Abstract!vars)
    OBVIOUS
  <2>1. CASE UNCHANGED bufferVars
    BY <2>1 DEF bufferVars, Abstract!vars, held, suspect, Follows, End
  <2>2. ASSUME NEW s \in 0 .. Top - 1, NEW z \in 1 .. Top - s, Add(s, z)
        PROVE  Abstract!Next
    <3>1. ~wild /\ Ahead(s, z) /\ \E v : Result(v, s, z) /\ TurnsInto(v)
      BY <2>2, AddIs
    <3>2. PICK v : Result(v, s, z) /\ TurnsInto(v)
      BY <3>1
    <3>3. Abstract!Add(s, z)
      <4>1. CASE Stores(v, s, z)
        <5>1. Abstract!Stored(s .. s + z - 1)
          BY <3>1, <3>2, <4>1, StoredBytes
        <5>2. wild' = FALSE
          BY <3>2, <4>1, WalkersFields DEF Stores, TurnsInto, Result
        <5> QED BY <3>1, <5>1, <5>2 DEF Abstract!Add
      <4>2. CASE Refuses(v, s)
        <5>1. UNCHANGED <<chunk, used, first, rcv_nxt>> /\ wild' = FALSE /\ s > rcv_nxt
          BY <3>2, <4>2, WalkersFields DEF Refuses, TurnsInto, Result
        <5>2. UNCHANGED <<rcv_nxt, held, suspect>>
          BY <5>1 DEF held, suspect, Follows, End
        <5> QED BY <3>1, <5>1, <5>2 DEF Abstract!Add, Abstract!Refused
      <4>3. CASE Strays(v, s)
        <5>1. wild' = TRUE
          BY <3>2, <4>3, WalkersFields DEF Strays, TurnsInto, Result
        <5>2. suspect \/ s > rcv_nxt
          BY <4>3 DEF Strays, suspect, HasBad, Follows
        <5> QED BY <3>1, <5>1, <5>2 DEF Abstract!Add
      <4> QED BY <3>2, <4>1, <4>2, <4>3 DEF Result
    <3>4. /\ s \in 0 .. Top /\ s + z - 1 \in 0 .. Top /\ s >= rcv_nxt /\ s + z - 1 >= s
          /\ s + z - 1 - s + 1 = z
      BY <3>1, BufferAssumption DEF Ahead, BufferInv
    <3>5. Abstract!Add(s, s + z - 1 - s + 1)
      BY <3>3, <3>4
    <3> QED BY <3>4, <3>5 DEF Abstract!Next
  <2> QED BY <2>1, <2>2 DEF BufferNext
<1>3. BufferSpec => Abstract!Spec
  BY <1>1, <1>2, BufferInvHolds, PTL DEF BufferSpec, Abstract!Spec
<1> QED BY <1>3 DEF KeepsTheBytes
=============================================================================
