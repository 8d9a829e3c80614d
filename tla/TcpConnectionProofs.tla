-------------------------- MODULE TcpConnectionProofs --------------------------
(***************************************************************************)
(* What holds of two hosts that run this TCP, for every window, any number *)
(* of units, whatever a fresh socket's acknowledgementNumber holds and     *)
(* whatever is lost: nobody is ESTABLISHED alone, both agree about the     *)
(* stream, and an opening is reset only if both called and a SYN got lost. *)
(***************************************************************************)
EXTENDS TcpConnection, TcpSocketProofs

-----------------------------------------------------------------------------
(* The handler, for sockets that nobody disconnects                        *)

Plain == {{"SYN"}, {"SYN", "ACK"}, {"ACK"}, {"RST"}}

Early == {"NONE", "CLOSED", "LISTEN", "SYN_SENT", "SYN_RECEIVED", "ESTABLISHED"}

(* What the socket acknowledges once it has looked at its buffer.          *)
Acks(s) == IF s.buf THEN s.rcv ELSE s.ack

(* The buffer is left alone; or bytes are stored in it.                    *)
Keeps(s, t) == t.buf = s.buf /\ t.rcv = s.rcv /\ t.held = s.held /\ t.got = s.got

Fills(s, t, places, byte) ==
    /\ s.buf /\ t.buf
    /\ t.got = s.got \cup {<<p, byte>> : p \in places}
    /\ t.rcv \in s.rcv .. s.rcv + Window
    /\ s.rcv .. t.rcv - 1 \subseteq s.held \cup places
    /\ t.held \subseteq s.held \cup places

Answer(a, flags, seq, ack) ==
    a.flags = flags /\ a.seq = seq /\ a.ack = ack /\ a.byte = NoByte

Stays(s, t) == t.caux = s.caux /\ t.simultaneous_open = s.simultaneous_open

(* The five things that may become of a socket: it is opened, established, *)
(* reset, ended by the peer's reset, or takes an acknowledgement or data.  *)
OpenedBy(s, m, o) ==
    LET t == o.sock IN
    /\ m.flags = {"SYN"} /\ t.state = "SYN_RECEIVED"
    /\ t.cseq = s.cseq /\ t.una = s.una /\ t.ack = m.seq + 1 /\ Keeps(s, t)
    /\ \/ /\ s.state = "LISTEN" /\ t.caux = s.caux + 1
          /\ t.simultaneous_open = s.simultaneous_open
       \/ s.state = "SYN_SENT" /\ t.caux = s.caux /\ t.simultaneous_open = TRUE
    /\ \E a : o.sent = <<a>> /\ Answer(a, {"SYN", "ACK"}, s.cseq, m.seq + 1)

EstablishedBy(s, m, o) ==
    LET t == o.sock IN
    /\ m.ack = s.cseq + 1 /\ t.state = "ESTABLISHED" /\ Stays(s, t)
    /\ t.cseq = s.cseq + 1 /\ t.una = m.ack - s.caux
    /\ t.buf /\ t.held = {} /\ t.got = s.got /\ t.ack = t.rcv
    /\ \/ /\ s.state = "SYN_SENT" /\ m.flags = {"SYN", "ACK"} /\ t.rcv = m.seq + 1
          /\ \E a : o.sent = <<a>> /\ Answer(a, {"ACK"}, s.cseq + 1, m.seq + 1)
       \/ /\ s.state = "SYN_RECEIVED" /\ t.rcv = Acks(s) /\ o.sent = <<>>
          /\ m.flags = IF s.simultaneous_open THEN {"SYN", "ACK"} ELSE {"ACK"}

(* Why a socket resets.                                                    *)
Refuses(s, m) ==
    \/ MallocFails /\ m.flags \in {{"SYN", "ACK"}, {"ACK"}}
    \/ m.flags = {"SYN"} /\ s.state \notin {"LISTEN", "SYN_SENT"}
    \/ /\ m.flags = {"SYN", "ACK"}
       /\ \/ m.ack # s.cseq + 1
          \/ s.state # "SYN_SENT" /\ ~ (s.state = "SYN_RECEIVED" /\ s.simultaneous_open)
    \/ /\ m.flags = {"ACK"}
       /\ \/ s.state = "SYN_RECEIVED" /\ (m.ack # s.cseq + 1 \/ s.simultaneous_open)
          \/ s.state # "SYN_RECEIVED" /\ ~ s.buf

ResetBy(s, m, o) ==
    LET t == o.sock IN
    /\ Refuses(s, m) /\ t.state = "CLOSED" /\ Stays(s, t) /\ Keeps(s, t)
    /\ t.cseq = s.cseq \/ (s.state = "SYN_RECEIVED" /\ t.cseq = s.cseq + 1)
    /\ t.una = s.una \/ (m.flags = {"ACK"} /\ t.una = m.ack - s.caux)
    /\ \/ t.ack = Acks(s)
       \/ s.state = "SYN_SENT" /\ m.flags = {"SYN", "ACK"} /\ t.ack = m.seq + 1
    /\ \E a : o.sent = <<a>> /\ a.flags = {"RST"} /\ a.byte = NoByte

EndedBy(s, m, o) ==
    LET t == o.sock IN
    /\ m.flags = {"RST"} /\ t.state = IF s.passive THEN "LISTEN" ELSE "CLOSED"
    /\ Stays(s, t) /\ Keeps(s, t)
    /\ t.cseq = s.cseq /\ t.una = s.una /\ t.ack = Acks(s) /\ o.sent = <<>>

(* An empty segment in order needs no answer.                              *)
Prompts(s, m) == m.byte # NoByte \/ m.seq # Acks(s) \/ m.seq = 0

TakenBy(s, m, o) ==
    LET t == o.sock IN
    /\ m.flags = {"ACK"} /\ s.state # "SYN_RECEIVED" /\ t.state = s.state /\ Stays(s, t)
    /\ t.cseq = s.cseq /\ t.una = m.ack - s.caux /\ t.ack = Acks(t)
    /\ \/ Keeps(s, t) /\ t.ack = Acks(s)
       \/ m.byte # NoByte /\ Fills(s, t, {m.seq}, m.byte)
       \/ /\ m.byte = NoByte /\ m.seq = s.rcv + Window
          /\ Fills(s, t, s.rcv .. s.rcv + Window - 1, NoByte)
    /\ \/ o.sent = <<>>
       \/ \E a : o.sent = <<a>> /\ Answer(a, {"ACK"}, s.cseq + s.nxt, t.ack)
    /\ o.sent # <<>> => Prompts(s, m)

Handled(s, m, o) ==
    \/ OpenedBy(s, m, o) \/ EstablishedBy(s, m, o) \/ ResetBy(s, m, o)
    \/ EndedBy(s, m, o) \/ TakenBy(s, m, o)

(* Sockets that differ in ack and una at most.                             *)
Like(s, t) == Alike(s, t) /\ Keeps(s, t)

LEMMA RefreshLike ==
    ASSUME NEW s, IsSocket(s)
    PROVE  /\ Like(s, Refresh(s)) /\ Refresh(s).una = s.una
           /\ Refresh(s).ack = Acks(s) /\ Acks(Refresh(s)) = Acks(s)
BY DEF Like, Alike, Keeps, Refresh, IsSocket, Acks

LEMMA UpdateLike ==
    ASSUME NEW s, IsSocket(s), NEW m
    PROVE  /\ Like(s, Update(s, m)) /\ Update(s, m).una = m.ack - s.caux
           /\ Update(s, m).ack = Acks(s) /\ Acks(Update(s, m)) = Acks(s)
<1> DEFINE t == [s EXCEPT !.una = m.ack - s.caux]
<1>1. Like(s, t) /\ t.una = m.ack - s.caux /\ Acks(t) = Acks(s)
  BY DEF Like, Alike, Keeps, IsSocket, Acks
<1>2. Update(s, m) = Refresh(t)
  BY DEF Update
<1> HIDE DEF t
<1>3. /\ Like(t, Refresh(t)) /\ Refresh(t).una = t.una
      /\ Refresh(t).ack = Acks(t) /\ Acks(Refresh(t)) = Acks(t)
  BY <1>1, RefreshLike DEF Like, Alike
<1> QED BY <1>1, <1>2, <1>3 DEF Like, Alike, Keeps

LEMMA ResetIs ==
    ASSUME NEW s, IsSocket(s), NEW o \in Reset(s)
    PROVE  /\ o.sock.state = "CLOSED" /\ Stays(s, o.sock) /\ Keeps(s, o.sock)
           /\ o.sock.cseq = s.cseq /\ o.sock.una = s.una /\ o.sock.ack = s.ack
           /\ \E a : o.sent = <<a>> /\ a.flags = {"RST"} /\ a.byte = NoByte
<1>1. o.sock = [s EXCEPT !.state = "CLOSED"] /\ o.sent = <<Segment(s, {"RST"}, s.nxt)>>
  BY DEF Reset, Outcome
<1>2. Segment(s, {"RST"}, s.nxt).flags = {"RST"} /\ Segment(s, {"RST"}, s.nxt).byte = NoByte
  BY DEF Segment
<1> QED BY <1>1, <1>2 DEF IsSocket, Stays, Keeps

LEMMA NoMemoryIs ==
    ASSUME NEW s, NEW o \in NoMemory(s)
    PROVE  MallocFails /\ o \in Reset(s)
BY DEF NoMemory

LEMMA OnSynIs ==
    ASSUME NEW s, Typed(s), s.ack = Acks(s), NEW m, m.flags = {"SYN"},
           NEW o \in OnSyn(s, m)
    PROVE  Handled(s, m, o)
<1> PICK p : p = [s EXCEPT !.state = "SYN_RECEIVED", !.ack = m.seq + 1]
  OBVIOUS
<1> PICK a : a = Segment(p, {"SYN", "ACK"}, 0)
  OBVIOUS
<1>1. Answer(a, {"SYN", "ACK"}, s.cseq, m.seq + 1)
  BY DEF Answer, Segment, Typed, IsSocket
<1>2. CASE s.state = "LISTEN"
  <2>1. /\ o.sock = [p EXCEPT !.bound = TRUE, !.caux = s.caux + 1]
        /\ o.sent = <<a>>
    BY <1>2 DEF OnSyn, Outcome
  <2>2. OpenedBy(s, m, o)
    BY <1>1, <1>2, <2>1 DEF OpenedBy, Keeps, Typed, IsSocket
  <2> QED BY <2>2 DEF Handled
<1>3. CASE s.state = "SYN_SENT"
  <2>1. /\ o.sock = [p EXCEPT !.simultaneous_open = TRUE]
        /\ o.sent = <<a>>
    BY <1>3 DEF OnSyn, Outcome
  <2>2. OpenedBy(s, m, o)
    BY <1>1, <1>3, <2>1 DEF OpenedBy, Keeps, Typed, IsSocket
  <2> QED BY <2>2 DEF Handled
<1>4. CASE s.state \notin {"LISTEN", "SYN_SENT"}
  <2>1. o \in Reset(s)
    BY <1>4 DEF OnSyn
  <2>2. ResetBy(s, m, o)
    BY <1>4, <2>1, ResetIs DEF ResetBy, Refuses, Typed
  <2> QED BY <2>2 DEF Handled
<1> QED BY <1>2, <1>3, <1>4

LEMMA EstablishIs ==
    ASSUME NEW s, Typed(s), NEW m, NEW answer, NEW o \in Establish(s, m, answer)
    PROVE  /\ o.sock.state = "ESTABLISHED" /\ Stays(s, o.sock)
           /\ o.sock.cseq = s.cseq + 1 /\ o.sock.una = m.ack - s.caux
           /\ o.sock.buf /\ o.sock.held = {} /\ o.sock.got = s.got
           /\ o.sock.ack = o.sock.rcv /\ o.sock.rcv = s.ack
           /\ o.sent = answer
<1> PICK t : t = Opened(s)
  OBVIOUS
<1>1. /\ IsSocket(t) /\ t.state = "ESTABLISHED" /\ t.cseq = s.cseq + 1 /\ Stays(s, t)
      /\ t.buf = TRUE /\ t.held = {} /\ t.got = s.got /\ t.rcv = s.ack
  BY DEF Opened, Started, IsSocket, Typed, Stays
<1>2. o.sock = Update(t, m) /\ o.sent = answer
  BY DEF Establish, Outcome
<1>3. Like(t, Update(t, m)) /\ Update(t, m).una = m.ack - t.caux
      /\ Update(t, m).ack = Acks(t)
  BY <1>1, UpdateLike
<1> QED BY <1>1, <1>2, <1>3 DEF Like, Alike, Keeps, Stays, Acks

LEMMA OnSynAckIs ==
    ASSUME NEW s, Typed(s), s.ack = Acks(s), NEW m, m.flags = {"SYN", "ACK"},
           NEW o \in OnSynAck(s, m)
    PROVE  Handled(s, m, o)
<1> PICK v, c : /\ v = [s EXCEPT !.ack = m.seq + 1]
                /\ c = [s EXCEPT !.cseq = s.cseq + 1]
  OBVIOUS
<1>1. CASE m.ack # s.cseq + 1 \/ (s.state # "SYN_SENT"
              /\ ~ (s.state = "SYN_RECEIVED" /\ s.simultaneous_open))
  <2>1. o \in Reset(s)
    BY <1>1 DEF OnSynAck
  <2>2. ResetBy(s, m, o)
    BY <1>1, <2>1, ResetIs DEF ResetBy, Refuses, Typed
  <2> QED BY <2>2 DEF Handled
<1>2. CASE m.ack = s.cseq + 1 /\ s.state = "SYN_SENT"
  <2> PICK a : a = Segment(Opened(v), {"ACK"}, 0)
    OBVIOUS
  <2>1. /\ IsSocket(v) /\ v.ack = m.seq + 1 /\ v.cseq = s.cseq /\ v.una = s.una
        /\ Stays(s, v) /\ Keeps(s, v) /\ v.state = s.state
    BY DEF Typed, IsSocket, Stays, Keeps
  <2>2. o \in Establish(v, m, <<a>>) \cup NoMemory(v)
    BY <1>2 DEF OnSynAck, JustAck
  <2>3. ASSUME o \in NoMemory(v) PROVE ResetBy(s, m, o)
    <3>1. MallocFails /\ o \in Reset(v)
      BY <2>3, NoMemoryIs
    <3>2. /\ o.sock.state = "CLOSED" /\ Stays(v, o.sock) /\ Keeps(v, o.sock)
          /\ o.sock.cseq = v.cseq /\ o.sock.una = v.una /\ o.sock.ack = v.ack
          /\ \E b : o.sent = <<b>> /\ b.flags = {"RST"} /\ b.byte = NoByte
      BY ONLY <2>1, <3>1, ResetIs
    <3>3. Stays(s, o.sock) /\ Keeps(s, o.sock)
      BY <2>1, <3>2 DEF Stays, Keeps
    <3>4. Refuses(s, m)
      BY <3>1 DEF Refuses
    <3>5. \/ o.sock.ack = Acks(s)
          \/ s.state = "SYN_SENT" /\ m.flags = {"SYN", "ACK"} /\ o.sock.ack = m.seq + 1
      BY <1>2, <2>1, <3>2
    <3>6. o.sock.cseq = s.cseq \/ (s.state = "SYN_RECEIVED" /\ o.sock.cseq = s.cseq + 1)
      BY <1>2, <2>1, <3>2
    <3> QED BY <2>1, <3>2, <3>3, <3>4, <3>5, <3>6 DEF ResetBy
  <2>4. ASSUME o \in Establish(v, m, <<a>>) PROVE EstablishedBy(s, m, o)
    <3>1. Opened(v).cseq = s.cseq + 1 /\ Opened(v).ack = m.seq + 1 /\ s.cseq \in Nat
      BY <2>1 DEF Opened, Started, IsSocket, Typed
    <3>2. Answer(a, {"ACK"}, s.cseq + 1, m.seq + 1)
      BY <3>1 DEF Answer, Segment
    <3> PICK t : t = Opened(v)
      OBVIOUS
    <3>3. /\ IsSocket(t) /\ t.state = "ESTABLISHED" /\ t.cseq = s.cseq + 1
          /\ Stays(s, t) /\ t.buf = TRUE /\ t.held = {} /\ t.got = s.got
          /\ t.rcv = m.seq + 1
      BY <2>1 DEF Opened, Started, IsSocket, Stays, Keeps
    <3>4. o.sock = Update(t, m) /\ o.sent = <<a>>
      BY <2>4 DEF Establish, Outcome
    <3>5. Like(t, Update(t, m)) /\ Update(t, m).una = m.ack - t.caux
          /\ Update(t, m).ack = Acks(t)
      BY <3>3, UpdateLike
    <3> QED BY <1>2, <3>2, <3>3, <3>4, <3>5
            DEF EstablishedBy, Like, Alike, Keeps, Stays, Acks
  <2> QED BY <2>2, <2>3, <2>4 DEF Handled
<1>3. CASE m.ack = s.cseq + 1 /\ s.state = "SYN_RECEIVED" /\ s.simultaneous_open
  <2>1. /\ IsSocket(c) /\ c.ack = s.ack /\ c.cseq = s.cseq + 1 /\ c.una = s.una
        /\ Stays(s, c) /\ Keeps(s, c)
    BY DEF Typed, IsSocket, Stays, Keeps
  <2>2. o \in Establish(s, m, <<>>) \cup NoMemory(c)
    BY <1>3 DEF OnSynAck
  <2>3. ASSUME o \in NoMemory(c) PROVE ResetBy(s, m, o)
    <3>1. MallocFails /\ o \in Reset(c)
      BY <2>3, NoMemoryIs
    <3>2. /\ o.sock.state = "CLOSED" /\ Stays(c, o.sock) /\ Keeps(c, o.sock)
          /\ o.sock.cseq = c.cseq /\ o.sock.una = c.una /\ o.sock.ack = c.ack
          /\ \E a : o.sent = <<a>> /\ a.flags = {"RST"} /\ a.byte = NoByte
      BY ONLY <2>1, <3>1, ResetIs
    <3>3. Stays(s, o.sock) /\ Keeps(s, o.sock)
      BY <2>1, <3>2 DEF Stays, Keeps
    <3>4. Refuses(s, m)
      BY <3>1 DEF Refuses
    <3>5. \/ o.sock.ack = Acks(s)
          \/ s.state = "SYN_SENT" /\ m.flags = {"SYN", "ACK"} /\ o.sock.ack = m.seq + 1
      BY <1>3, <2>1, <3>2
    <3>6. o.sock.cseq = s.cseq \/ (s.state = "SYN_RECEIVED" /\ o.sock.cseq = s.cseq + 1)
      BY <1>3, <2>1, <3>2
    <3> QED BY <2>1, <3>2, <3>3, <3>4, <3>5, <3>6 DEF ResetBy
  <2>4. ASSUME o \in Establish(s, m, <<>>) PROVE EstablishedBy(s, m, o)
    BY <1>3, <2>4, EstablishIs DEF EstablishedBy
  <2> QED BY <2>2, <2>3, <2>4 DEF Handled
<1> QED BY <1>1, <1>2, <1>3

LEMMA StoredFills ==
    ASSUME NEW s, Typed(s), s.buf, NEW byte,
           NEW places \in SUBSET (s.rcv .. s.rcv + Window - 1)
    PROVE  /\ Fills(s, Stored(s, places, byte), places, byte)
           /\ Typed(Stored(s, places, byte)) /\ Alike(s, Stored(s, places, byte))
<1> DEFINE have == s.held \cup places
           P(n) == n \notin have /\ s.rcv .. n - 1 \subseteq have
           next == CHOOSE n \in s.rcv .. s.rcv + Window : P(n)
           t == [s EXCEPT !.rcv = next, !.held = {p \in have : p > next},
                          !.got = s.got \cup {<<p, byte>> : p \in places}]
<1>0. Window \in Nat /\ s.rcv \in Nat
  BY SocketAssumption DEF Typed
<1>1. Stored(s, places, byte) = t
  BY DEF Stored
<1>2. have \in SUBSET (s.rcv .. s.rcv + Window - 1)
  <2>1. s.held \subseteq s.rcv + 1 .. s.rcv + Window - 1
    BY DEF Typed
  <2>2. s.held \subseteq s.rcv .. s.rcv + Window - 1
    BY <1>0, <2>1
  <2> QED BY <2>2
<1>3. next \in s.rcv .. s.rcv + Window /\ P(next)
  <2>1. \E n \in s.rcv .. s.rcv + Window : P(n)
    <3> HIDE DEF have
    <3> QED BY <1>0, <1>2, NextExpected
  <2> QED BY <2>1
<1> HIDE DEF next
<1>4. {p \in have : p > next} \subseteq have
  OBVIOUS
<1>5. /\ t.buf = s.buf /\ t.rcv = next /\ t.held = {p \in have : p > next}
      /\ t.got = s.got \cup {<<p, byte>> : p \in places}
  BY DEF Typed, IsSocket
<1> HIDE DEF t
<1>6. Fills(s, t, places, byte)
  BY <1>3, <1>4, <1>5 DEF Fills
<1> QED BY <1>1, <1>6, StoredTyped

(* A segment's byte is stored, or the socket resets.                       *)
LEMMA StoreIs ==
    ASSUME NEW s, Typed(s), Fresh(s), NEW m, IsSegment(m),
           NEW places \in SUBSET (s.ack .. s.ack + Window - 1),
           NEW o \in Store(s, m, places)
    PROVE  \/ /\ Fills(s, o.sock, places, m.byte) /\ Alike(s, o.sock)
              /\ o.sock.una = m.ack - s.caux /\ o.sock.ack = Acks(o.sock)
              /\ \E a : o.sent = <<a>> /\ Answer(a, {"ACK"}, s.cseq + s.nxt, o.sock.ack)
           \/ MallocFails /\ o \in Reset(s)
           \/ ~ s.buf /\ o \in Reset(Update(s, m))
<1> DEFINE n == Stored(s, places, m.byte)
           u == Update(n, m)
<1>1. ASSUME s.buf, o \in Acknowledged(u)
      PROVE  /\ Fills(s, o.sock, places, m.byte) /\ Alike(s, o.sock)
             /\ o.sock.una = m.ack - s.caux /\ o.sock.ack = Acks(o.sock)
             /\ \E a : o.sent = <<a>> /\ Answer(a, {"ACK"}, s.cseq + s.nxt, o.sock.ack)
  <2>1. places \in SUBSET (s.rcv .. s.rcv + Window - 1)
    BY <1>1 DEF Fresh
  <2>2. Fills(s, n, places, m.byte) /\ Typed(n) /\ Alike(s, n)
    BY <1>1, <2>1, StoredFills
  <2> HIDE DEF n
  <2>3. /\ Like(n, u) /\ u.una = m.ack - n.caux /\ u.ack = Acks(n) /\ Acks(u) = Acks(n)
    BY <2>2, UpdateLike DEF Typed
  <2> HIDE DEF u
  <2> PICK a : a = AckSegment(u)
    OBVIOUS
  <2>4. o.sock = u /\ o.sent = <<a>>
    BY <1>1 DEF Acknowledged, Outcome
  <2>5. Answer(a, {"ACK"}, u.cseq + u.nxt, u.ack)
    BY DEF Answer, AckSegment, Segment
  <2>6. Alike(s, u) /\ Fills(s, u, places, m.byte) /\ u.una = m.ack - s.caux
    BY <2>2, <2>3 DEF Like, Alike, Keeps, Fills
  <2>7. Answer(a, {"ACK"}, s.cseq + s.nxt, u.ack)
    BY <2>5, <2>6 DEF Alike
  <2> QED BY <2>3, <2>4, <2>6, <2>7
<1>2. \/ s.buf /\ o \in Acknowledged(u)
      \/ o \in NoMemory(s)
      \/ ~ s.buf /\ o \in Reset(Update(s, m))
  BY DEF Store
<1> HIDE DEF u
<1> QED BY <1>1, <1>2, NoMemoryIs

LEMMA TakenSeen ==
    ASSUME NEW s, Typed(s), NEW m, m.flags = {"ACK"}, s.state # "SYN_RECEIVED",
           NEW r, r = Update(s, m), NEW o \in Quietly(r) \cup Acknowledged(r),
           o.sent # <<>> => Prompts(s, m)
    PROVE  TakenBy(s, m, o)
<1>1. /\ Like(s, r) /\ r.una = m.ack - s.caux /\ r.ack = Acks(s) /\ Acks(r) = Acks(s)
  BY UpdateLike DEF Typed
<1> PICK a : a = AckSegment(r)
  OBVIOUS
<1>2. o.sock = r /\ (o.sent = <<>> \/ o.sent = <<a>>)
  BY DEF Quietly, Acknowledged, Outcome
<1>3. Answer(a, {"ACK"}, s.cseq + s.nxt, r.ack)
  BY <1>1 DEF Answer, AckSegment, Segment, Like, Alike
<1> QED BY <1>1, <1>2, <1>3 DEF TakenBy, Like, Alike, Stays

LEMMA InOrderQuiet ==
    ASSUME NEW s, Typed(s), NEW m, IsSegment(m), ~ Prompts(s, m), NEW o \in OnData(s, m)
    PROVE  o.sent = <<>>
<1> PICK r : r = Update(s, m)
  OBVIOUS
<1>1. r.ack = Acks(s)
  BY UpdateLike DEF Typed
<1>2. m.seq \in Nat /\ m.seq > 0 /\ m.seq = r.ack /\ Size(m) = 0 /\ Window \in Nat /\ Window > 0
  BY <1>1, SocketAssumption DEF Prompts, Size, IsSegment
<1> DEFINE end    == m.seq + Size(m)
           ahead  == m.seq > r.ack /\ r.ack + Window > m.seq
           covers == end >= r.ack /\ end > 0 /\ r.ack + Window > end - 1
           left   == Size(m) - (r.ack - m.seq)
<1>3. o \in Quietly(r) \/ ahead \/ ~ covers \/ left # 0
  BY DEF OnData
<1>4. ~ ahead /\ covers /\ left = 0
  BY <1>2
<1>5. o \in Quietly(r)
  BY <1>3, <1>4
<1> QED BY <1>5 DEF Quietly, Outcome

LEMMA OnDataIs ==
    ASSUME NEW s, Typed(s), Fresh(s), s.state # "SYN_RECEIVED",
           NEW m, IsSegment(m), m.flags = {"ACK"}, NEW o \in OnData(s, m)
    PROVE  Handled(s, m, o)
<1> PICK r : r = Update(s, m)
  OBVIOUS
<1>1. /\ Typed(r) /\ Fresh(r)
  BY UpdateTyped DEF Fresh
<1>2. /\ Like(s, r) /\ r.una = m.ack - s.caux /\ r.ack = Acks(s) /\ Acks(r) = Acks(s)
  BY UpdateLike DEF Typed
<1>3. \/ o \in Quietly(r) \cup Acknowledged(r)
      \/ \E places \in SUBSET (r.ack .. r.ack + Window - 1) :
            /\ o \in Store(r, m, places)
            /\ \/ m.byte # NoByte /\ places = {m.seq}
               \/ /\ m.byte = NoByte /\ m.seq = r.ack + Window
                  /\ places = r.ack .. r.ack + Window - 1
  BY OnDataCases
<1>4. ASSUME NEW q, o \in Reset(q), q = r \/ q = Update(r, m), Refuses(s, m)
      PROVE  ResetBy(s, m, o)
  <2>1. /\ IsSocket(q) /\ Stays(s, q) /\ Keeps(s, q) /\ q.cseq = s.cseq
        /\ q.una = m.ack - s.caux /\ q.ack = Acks(s)
    <3>1. CASE q = r
      BY <1>2, <3>1 DEF Like, Alike, Stays
    <3>2. CASE q = Update(r, m)
      <4>1. /\ Like(r, q) /\ q.una = m.ack - r.caux /\ q.ack = Acks(r)
        BY <1>1, <3>2, UpdateLike DEF Typed
      <4> QED BY <1>2, <4>1 DEF Like, Alike, Stays, Keeps
    <3> QED BY <1>4, <3>1, <3>2
  <2>2. /\ o.sock.state = "CLOSED" /\ Stays(q, o.sock) /\ Keeps(q, o.sock)
        /\ o.sock.cseq = q.cseq /\ o.sock.una = q.una /\ o.sock.ack = q.ack
        /\ \E a : o.sent = <<a>> /\ a.flags = {"RST"} /\ a.byte = NoByte
    BY <1>4, <2>1, ResetIs
  <2>3. Stays(s, o.sock) /\ Keeps(s, o.sock)
    BY <2>1, <2>2 DEF Stays, Keeps
  <2> QED BY <1>4, <2>1, <2>2, <2>3 DEF ResetBy
<1>5. ASSUME NEW places \in SUBSET (r.ack .. r.ack + Window - 1),
             o \in Store(r, m, places),
             \/ m.byte # NoByte /\ places = {m.seq}
             \/ /\ m.byte = NoByte /\ m.seq = r.ack + Window
                /\ places = r.ack .. r.ack + Window - 1
      PROVE  Handled(s, m, o)
  <2>1. CASE /\ Fills(r, o.sock, places, m.byte) /\ Alike(r, o.sock)
             /\ o.sock.una = m.ack - r.caux /\ o.sock.ack = Acks(o.sock)
             /\ \E a : o.sent = <<a>> /\ Answer(a, {"ACK"}, r.cseq + r.nxt, o.sock.ack)
    <3>1. Fills(s, o.sock, places, m.byte)
      BY <1>2, <2>1 DEF Fills, Like, Keeps
    <3>2. /\ o.sock.state = s.state /\ Stays(s, o.sock) /\ o.sock.cseq = s.cseq
          /\ o.sock.una = m.ack - s.caux
          /\ \E a : o.sent = <<a>> /\ Answer(a, {"ACK"}, s.cseq + s.nxt, o.sock.ack)
      BY <1>2, <2>1 DEF Like, Alike, Stays
    <3>3. r.ack = s.rcv
      BY <1>2, <2>1 DEF Fills, Like, Keeps, Acks
    <3>4. \/ m.byte # NoByte /\ Fills(s, o.sock, {m.seq}, m.byte)
          \/ /\ m.byte = NoByte /\ m.seq = s.rcv + Window
             /\ Fills(s, o.sock, s.rcv .. s.rcv + Window - 1, NoByte)
      BY <1>5, <3>1, <3>3
    <3>6. Prompts(s, m)
      <4>1. s.rcv \in Nat /\ Window \in Nat \ {0}
        BY SocketAssumption DEF Typed
      <4>2. Acks(s) = s.rcv
        BY <1>2, <3>3
      <4> QED BY <3>4, <4>1, <4>2 DEF Prompts
    <3>5. TakenBy(s, m, o)
      BY ONLY m.flags = {"ACK"}, s.state # "SYN_RECEIVED", <2>1, <3>2, <3>4, <3>6 DEF TakenBy
    <3> QED BY <3>5 DEF Handled
  <2>2. CASE MallocFails /\ o \in Reset(r)
    BY <1>4, <2>2 DEF Refuses, Handled
  <2>3. CASE ~ r.buf /\ o \in Reset(Update(r, m))
    <3>1. Refuses(s, m)
      BY <1>2, <2>3 DEF Refuses, Like, Keeps
    <3> QED BY <1>4, <2>3, <3>1 DEF Handled
  <2> QED BY <1>1, <1>5, <2>1, <2>2, <2>3, StoreIs
<1>6. o.sent # <<>> => Prompts(s, m)
  BY InOrderQuiet
<1>7. ASSUME o \in Quietly(r) \cup Acknowledged(r) PROVE Handled(s, m, o)
  BY <1>6, <1>7, TakenSeen DEF Handled
<1> QED BY <1>3, <1>5, <1>7

LEMMA OnAckIs ==
    ASSUME NEW s, Typed(s), Fresh(s), s.state \in Early,
           NEW m, IsSegment(m), m.flags = {"ACK"}, NEW o \in OnAck(s, m)
    PROVE  Handled(s, m, o)
<1>0. s.ack = Acks(s)
  BY DEF Fresh, Acks
<1>1. CASE s.state = "SYN_RECEIVED" /\ s.cseq + 1 = m.ack /\ ~ s.simultaneous_open
  <2>1. o \in Establish(s, m, <<>>) \cup NoMemory(s)
    BY <1>1 DEF OnAck
  <2>2. ASSUME o \in Establish(s, m, <<>>) PROVE EstablishedBy(s, m, o)
    BY <1>0, <1>1, <2>2, EstablishIs DEF EstablishedBy
  <2>3. ASSUME MallocFails, o \in Reset(s) PROVE ResetBy(s, m, o)
    BY <1>0, <2>3, ResetIs DEF ResetBy, Refuses, Typed
  <2> QED BY <2>1, <2>2, <2>3, NoMemoryIs DEF Handled
<1>2. CASE s.state = "SYN_RECEIVED" /\ ~ (s.cseq + 1 = m.ack /\ ~ s.simultaneous_open)
  <2>1. o \in Reset(s)
    BY <1>2 DEF OnAck
  <2>2. Refuses(s, m)
    BY <1>2 DEF Refuses, Typed
  <2>3. ResetBy(s, m, o)
    BY <1>0, <2>1, <2>2, ResetIs DEF ResetBy, Typed
  <2> QED BY <2>3 DEF Handled
<1>3. CASE s.state # "SYN_RECEIVED"
  <2>1. o \in OnData(s, m)
    BY <1>3 DEF OnAck, Early
  <2> QED BY <1>3, <2>1, OnDataIs
<1> QED BY <1>1, <1>2, <1>3

(* The whole handler.                                                      *)
LEMMA ReceivedPlain ==
    ASSUME NEW s, Typed(s), InStep(s), s.state \in Early,
           NEW m, IsSegment(m), m.flags \in Plain, NEW o \in Received(s, m)
    PROVE  Handled(s, m, o)
<1> PICK r : r = Refresh(s)
  OBVIOUS
<1>1. /\ Typed(r) /\ Fresh(r)
  BY RefreshTyped DEF InStep
<1>2. Like(s, r) /\ r.una = s.una /\ r.ack = Acks(s) /\ Acks(r) = Acks(s)
  BY RefreshLike DEF Typed
<1>3. ASSUME m.flags # {"RST"} PROVE Handled(r, m, o)
  <2> DEFINE control == m.flags \cap {"SYN", "ACK", "FIN"}
  <2>1. /\ control = m.flags /\ "RST" \notin m.flags
        /\ m.flags \in {{"SYN"}, {"SYN", "ACK"}, {"ACK"}}
    BY <1>3 DEF Plain
  <2>2. s.state # "TIME_WAIT" /\ r.state \in Early
    BY <1>2 DEF Early, Like, Alike
  <2>3. \/ m.flags = {"SYN"} /\ o \in OnSyn(r, m)
        \/ m.flags = {"SYN", "ACK"} /\ o \in OnSynAck(r, m)
        \/ m.flags = {"ACK"} /\ o \in OnAck(r, m)
    BY <2>1, <2>2 DEF Received
  <2>4. r.ack = Acks(r)
    BY <1>2
  <2> QED BY <1>1, <2>2, <2>3, <2>4, OnSynIs, OnSynAckIs, OnAckIs
<1>11. ASSUME m.flags = {"RST"} PROVE EndedBy(r, m, o)
  <2>1. o.sock = [r EXCEPT !.state = IF r.passive THEN "LISTEN" ELSE "CLOSED"]
        /\ o.sent = <<>>
    BY <1>11 DEF Received, Quietly, Outcome, Early
  <2>2. IsSocket(r) /\ r.ack = Acks(r)
    BY <1>1, <1>2 DEF Typed
  <2> QED BY <1>11, <2>1, <2>2 DEF EndedBy, IsSocket, Stays, Keeps
<1>4. /\ r.state = s.state /\ r.passive = s.passive /\ r.nxt = s.nxt
      /\ r.simultaneous_open = s.simultaneous_open
      /\ r.cseq = s.cseq /\ r.caux = s.caux /\ r.una = s.una
      /\ r.buf = s.buf /\ r.rcv = s.rcv /\ r.held = s.held /\ r.got = s.got
  BY <1>2 DEF Like, Alike, Keeps
<1>5. Refuses(r, m) = Refuses(s, m)
  BY <1>4 DEF Refuses
<1>6. OpenedBy(r, m, o) => OpenedBy(s, m, o)
  BY <1>4 DEF OpenedBy, Keeps
<1>7. EstablishedBy(r, m, o) => EstablishedBy(s, m, o)
  BY <1>2, <1>4 DEF EstablishedBy, Stays
<1>8. ResetBy(r, m, o) => ResetBy(s, m, o)
  BY <1>2, <1>4, <1>5 DEF ResetBy, Stays, Keeps
<1>9. EndedBy(r, m, o) => EndedBy(s, m, o)
  BY <1>2, <1>4 DEF EndedBy, Stays, Keeps
<1>10. TakenBy(r, m, o) => TakenBy(s, m, o)
  BY <1>2, <1>4 DEF TakenBy, Stays, Keeps, Fills, Prompts
<1> QED BY <1>3, <1>11, <1>6, <1>7, <1>8, <1>9, <1>10 DEF Handled

-----------------------------------------------------------------------------
(* The queues of segments                                                  *)

LEMMA QueueIs ==
    ASSUME NEW q, IsQueue(q)
    PROVE  /\ Len(q) \in Nat /\ DOMAIN q = 1 .. Len(q)
           /\ q # <<>> => 1 \in DOMAIN q /\ Head(q) = q[1]
BY DEF IsQueue

LEMMA ShortQueues ==
    /\ IsQueue(<<>>)
    /\ \A a : IsQueue(<<a>>) /\ DOMAIN <<a>> = {1} /\ <<a>>[1] = a
<1>1. ASSUME NEW a PROVE <<>> \in Seq({a}) /\ <<a>> \in Seq({a}) /\ DOMAIN <<a>> = {1} /\ <<a>>[1] = a
  OBVIOUS
<1> QED BY <1>1 DEF IsQueue

(* r is q with some of it left out.                                        *)
Thins(q, r) ==
    /\ IsQueue(r)
    /\ \A i \in DOMAIN r : \E j \in DOMAIN q : j >= i /\ r[i] = q[j]

LEMMA TailThins ==
    ASSUME NEW q, IsQueue(q), q # <<>>
    PROVE  /\ IsQueue(Tail(q)) /\ Len(Tail(q)) = Len(q) - 1
           /\ \A i \in DOMAIN Tail(q) : i + 1 \in DOMAIN q /\ Tail(q)[i] = q[i + 1]
           /\ Thins(q, Tail(q))
<1> PICK S : q \in Seq(S)
  BY DEF IsQueue
<1>1. /\ Tail(q) \in Seq(S) /\ Len(Tail(q)) = Len(q) - 1
      /\ \A i \in 1 .. Len(Tail(q)) : Tail(q)[i] = q[i + 1]
  BY HeadTailProperties
<1>2. /\ Len(q) \in Nat /\ DOMAIN q = 1 .. Len(q) /\ DOMAIN Tail(q) = 1 .. Len(Tail(q))
  BY <1>1
<1>3. \A i \in DOMAIN Tail(q) :
         i + 1 \in DOMAIN q /\ Tail(q)[i] = q[i + 1] /\ i + 1 >= i
  BY <1>1, <1>2
<1> QED BY <1>1, <1>3 DEF IsQueue, Thins

LEMMA RemoveThins ==
    ASSUME NEW q, IsQueue(q), NEW n \in DOMAIN q
    PROVE  /\ Thins(q, RemoveAt(q, n)) /\ Len(RemoveAt(q, n)) = Len(q) - 1
           /\ \A i \in DOMAIN q : i < n => RemoveAt(q, n)[i] = q[i]
           /\ \A i \in DOMAIN RemoveAt(q, n) : i >= n => RemoveAt(q, n)[i] = q[i + 1]
<1> PICK S : q \in Seq(S)
  BY DEF IsQueue
<1>0. Len(q) \in Nat /\ DOMAIN q = 1 .. Len(q) /\ n \in 1 .. Len(q)
  OBVIOUS
<1> PICK a : a = SubSeq(q, 1, n - 1)
  OBVIOUS
<1> PICK b : b = SubSeq(q, n + 1, Len(q))
  OBVIOUS
<1>1. /\ a \in Seq(S) /\ Len(a) = n - 1 /\ \A i \in 1 .. Len(a) : a[i] = q[i]
  <2>1. \A i \in 1 .. n - 1 : q[i] \in S
    BY <1>0
  <2>2. /\ Len(SubSeq(q, 1, n - 1)) = IF 1 <= n - 1 THEN n - 1 - 1 + 1 ELSE 0
        /\ \A i \in 1 .. n - 1 - 1 + 1 : SubSeq(q, 1, n - 1)[i] = q[1 + i - 1]
        /\ SubSeq(q, 1, n - 1) \in Seq(S)
    BY <1>0, <2>1, SubSeqProperties
  <2> QED BY <1>0, <2>2
<1>2. /\ b \in Seq(S) /\ Len(b) = Len(q) - n /\ \A i \in 1 .. Len(b) : b[i] = q[n + i]
  <2>1. \A i \in n + 1 .. Len(q) : q[i] \in S
    BY <1>0
  <2>2. /\ SubSeq(q, n + 1, Len(q)) \in Seq(S)
        /\ Len(SubSeq(q, n + 1, Len(q))) = IF n + 1 <= Len(q) THEN Len(q) - (n + 1) + 1 ELSE 0
        /\ \A i \in 1 .. Len(q) - (n + 1) + 1 : SubSeq(q, n + 1, Len(q))[i] = q[n + 1 + i - 1]
    BY <1>0, <2>1, SubSeqProperties
  <2> QED BY <1>0, <2>2
<1>3. RemoveAt(q, n) = a \o b
  BY DEF RemoveAt
<1> PICK r : r = RemoveAt(q, n)
  OBVIOUS
<1>4. /\ r \in Seq(S) /\ Len(r) = Len(q) - 1
      /\ \A i \in 1 .. Len(r) : r[i] = IF i <= Len(a) THEN a[i] ELSE b[i - Len(a)]
  <2>1. /\ r \in Seq(S) /\ Len(r) = Len(a) + Len(b)
        /\ \A i \in 1 .. Len(a) + Len(b) : r[i] = IF i <= Len(a) THEN a[i] ELSE b[i - Len(a)]
    <3>1. r = a \o b
      BY <1>3
    <3> QED BY ONLY <1>1, <1>2, <3>1, ConcatProperties
  <2>2. Len(a) + Len(b) = Len(q) - 1
    <3>1. n \in Int /\ Len(q) \in Int /\ Len(a) = n - 1 /\ Len(b) = Len(q) - n
      BY <1>0, <1>1, <1>2
    <3> QED BY ONLY <3>1
  <2> QED BY <2>1, <2>2
<1>5. \A i \in 1 .. Len(r) : IF i < n THEN r[i] = q[i] ELSE r[i] = q[i + 1]
  <2> SUFFICES ASSUME NEW i \in 1 .. Len(r)
               PROVE  IF i < n THEN r[i] = q[i] ELSE r[i] = q[i + 1]
    OBVIOUS
  <2>1. CASE i < n
    <3>1. i \in 1 .. Len(a) /\ i <= Len(a)
      BY <1>0, <1>1, <2>1
    <3> QED BY <1>1, <1>4, <2>1, <3>1
  <2>2. CASE ~ (i < n)
    <3> PICK k : k = i - Len(a)
      OBVIOUS
    <3>1. ~ (i <= Len(a)) /\ k \in 1 .. Len(b) /\ n + k = i + 1
      <4>1. /\ n \in Int /\ Len(q) \in Int /\ Len(a) = n - 1 /\ Len(b) = Len(q) - n
            /\ Len(r) = Len(q) - 1 /\ i \in 1 .. Len(r) /\ k = i - Len(a) /\ n >= 1
        BY <1>0, <1>1, <1>2, <1>4
      <4> QED BY ONLY <2>2, <4>1
    <3>2. r[i] = b[k]
      BY <1>4, <3>1
    <3> QED BY <1>2, <2>2, <3>1, <3>2
  <2> QED BY <2>1, <2>2
<1>6. DOMAIN r = 1 .. Len(r)
  BY <1>4
<1>7. \A i \in DOMAIN r : \E j \in DOMAIN q : j >= i /\ r[i] = q[j]
  <2> SUFFICES ASSUME NEW i \in DOMAIN r PROVE \E j \in DOMAIN q : j >= i /\ r[i] = q[j]
    OBVIOUS
  <2>1. CASE i < n
    BY <1>0, <1>4, <1>5, <1>6, <2>1
  <2>2. CASE ~ (i < n)
    <3>1. i + 1 \in DOMAIN q /\ i + 1 >= i /\ r[i] = q[i + 1]
      BY <1>0, <1>4, <1>5, <1>6, <2>2
    <3> QED BY <3>1
  <2> QED BY <2>1, <2>2
<1>8. /\ \A i \in DOMAIN q : i < n => r[i] = q[i]
      /\ \A i \in DOMAIN r : i >= n => r[i] = q[i + 1]
  BY <1>0, <1>4, <1>5, <1>6
<1> QED BY <1>4, <1>7, <1>8 DEF Thins, IsQueue

LEMMA JoinIs ==
    ASSUME NEW q, IsQueue(q), NEW r, IsQueue(r)
    PROVE  /\ IsQueue(q \o r) /\ Len(q \o r) = Len(q) + Len(r)
           /\ \A i \in DOMAIN (q \o r) :
                 \/ i \in DOMAIN q /\ (q \o r)[i] = q[i]
                 \/ /\ i - Len(q) \in DOMAIN r /\ (q \o r)[i] = r[i - Len(q)]
<1> PICK S : q \in Seq(S)
  BY DEF IsQueue
<1> PICK R : r \in Seq(R)
  BY DEF IsQueue
<1> PICK U : U = S \cup R
  OBVIOUS
<1>1. q \in Seq(U) /\ r \in Seq(U)
  OBVIOUS
<1>2. /\ q \o r \in Seq(U) /\ Len(q \o r) = Len(q) + Len(r)
      /\ \A i \in 1 .. Len(q) + Len(r) :
            (q \o r)[i] = IF i <= Len(q) THEN q[i] ELSE r[i - Len(q)]
  BY <1>1, ConcatProperties
<1>3. /\ Len(q) \in Nat /\ DOMAIN q = 1 .. Len(q) /\ Len(r) \in Nat
      /\ DOMAIN r = 1 .. Len(r) /\ DOMAIN (q \o r) = 1 .. Len(q) + Len(r)
  BY <1>1, <1>2
<1> QED BY <1>2, <1>3 DEF IsQueue

-----------------------------------------------------------------------------
(* Who has begun, and who is gone                                          *)

(* The socket was reset, or listens again after its peer was.              *)
Gone(s) == s.state = "CLOSED" \/ (s.state = "LISTEN" /\ s.caux = 1)

Begun(s) == s.caux = 1 /\ (s.state \in {"SYN_RECEIVED", "ESTABLISHED"} \/ Gone(s))

Proper(s) ==
    /\ Typed(s) /\ InStep(s) /\ s.state \in Early
    /\ s.state = "NONE" => s = NoSocket
    /\ s.state = "LISTEN" => s.passive
    /\ s.state = "SYN_SENT" => ~ s.passive
    /\ s.passive => s.nxt = 0
    /\ s.caux \in {0, 1} /\ s.cseq <= s.caux
    /\ s.state \notin {"NONE", "LISTEN"} => s.caux = 1
    /\ s.state \in {"SYN_SENT", "SYN_RECEIVED"} => s.cseq = 0
    /\ s.state = "SYN_RECEIVED" => s.ack >= 1
    /\ s.state = "ESTABLISHED" => s.buf
    /\ s.nxt > 0 => s.buf
    /\ s.buf => s.cseq = 1 /\ s.rcv >= 1
    /\ s.nxt <= Available

(* A segment m on its way from p to s.                                     *)
Fits(s, p, m) ==
    /\ IsSegment(m) /\ m.flags \in Plain
    /\ m.byte # NoByte =>
          m.flags = {"ACK"} /\ m.byte \in 0 .. p.nxt - 1 /\ m.seq = 1 + m.byte
    /\ m.flags = {"SYN"} =>
          /\ m.seq = 0 /\ p.caux = 1 /\ ~ p.passive
          /\ s.passive => s.caux = 0
    /\ m.flags = {"SYN", "ACK"} => m.seq = 0 /\ s.caux = 1 /\ Begun(p)
    /\ m.flags = {"ACK"} => Begun(s) /\ Begun(p)
    /\ m.flags = {"RST"} => Gone(p)

(* What s knows of its peer p.                                             *)
Knows(s, p) ==
    /\ s.buf => Begun(s) /\ Begun(p)
    /\ s.state = "LISTEN" /\ s.caux = 1 => Gone(p)
    /\ s.passive /\ s.caux = 1 => p.caux = 1

(* A socket, its peer, and the segments on their way from the peer.        *)
Side(s, p, q) ==
    /\ Proper(s) /\ Knows(s, p) /\ IsQueue(q)
    /\ \A i \in DOMAIN q : Fits(s, p, q[i])
    /\ \A i \in DOMAIN q : q[i].flags = {"SYN"} => i = 1
    /\ p.state = "NONE" => q = <<>>

(* What s may become, as far as its peer can tell.                         *)
Goes(s, t) ==
    /\ t.nxt >= s.nxt
    /\ s.caux = 1 => t.caux = 1 /\ t.passive = s.passive
    /\ Begun(s) => Begun(t)
    /\ Gone(s) => Gone(t)

LEMMA FlagsDiffer ==
    /\ {"SYN", "ACK"} # {"SYN"} /\ {"SYN", "ACK"} # {"ACK"} /\ {"SYN", "ACK"} # {"RST"}
    /\ {"SYN"} # {"ACK"} /\ {"SYN"} # {"RST"} /\ {"ACK"} # {"RST"}
OBVIOUS

LEMMA NoSocketIs ==
    /\ NoSocket.caux = 0 /\ NoSocket.state = "NONE" /\ NoSocket.nxt = 0
    /\ NoSocket.buf = FALSE /\ NoSocket.passive = FALSE /\ NoSocket.bound = FALSE
    /\ NoSocket.got = {} /\ NoSocket.una = 0
BY DEF NoSocket, NewSocket

LEMMA FitsTo ==
    ASSUME NEW s, NEW p, NEW m, NEW t, Fits(s, p, m), Proper(s), Goes(s, t),
           m.flags = {"SYN"} => (t.passive => t.caux = 0)
    PROVE  Fits(t, p, m)
BY DEF Fits, Goes

LEMMA FitsFrom ==
    ASSUME NEW s, NEW p, NEW m, NEW t, Fits(p, s, m), Proper(s), Proper(t), Goes(s, t)
    PROVE  Fits(p, t, m)
<1>1. s.nxt \in Nat /\ t.nxt \in Nat
  BY DEF Proper, Typed
<1>2. ASSUME m.byte # NoByte
      PROVE  m.flags = {"ACK"} /\ m.byte \in 0 .. t.nxt - 1 /\ m.seq = 1 + m.byte
  BY <1>1, <1>2 DEF Fits, Goes
<1>3. m.flags = {"SYN"} =>
         m.seq = 0 /\ t.caux = 1 /\ ~ t.passive /\ (p.passive => p.caux = 0)
  BY DEF Fits, Goes
<1> QED BY <1>2, <1>3 DEF Fits, Goes

(* The side of the host that moves.                                        *)
LEMMA SideKept ==
    ASSUME NEW s, NEW p, NEW q, Side(s, p, q), NEW t, Goes(s, t), Proper(t), Knows(t, p),
           NEW r, Thins(q, r),
           \A i \in DOMAIN r : r[i].flags = {"SYN"} => (t.passive => t.caux = 0)
    PROVE  Side(t, p, r)
<1>1. \A i \in DOMAIN r : \E j \in DOMAIN q : j >= i /\ r[i] = q[j]
  BY DEF Thins
<1>2. IsQueue(r) /\ IsQueue(q) /\ \A i \in DOMAIN r : i \in Nat /\ i >= 1
  BY QueueIs DEF Thins, Side
<1>3. ASSUME NEW i \in DOMAIN r PROVE Fits(t, p, r[i])
  <2> PICK j \in DOMAIN q : r[i] = q[j]
    BY <1>1
  <2> QED BY FitsTo DEF Side
<1>4. ASSUME NEW i \in DOMAIN r, r[i].flags = {"SYN"} PROVE i = 1
  <2> PICK j \in DOMAIN q : j >= i /\ r[i] = q[j]
    BY <1>1
  <2>1. j = 1
    BY <1>4 DEF Side
  <2> QED BY <1>2, <2>1
<1>5. ASSUME q = <<>> PROVE r = <<>>
  <2>1. DOMAIN q = {}
    BY <1>5
  <2>2. Len(r) = 0
    BY <1>1, <1>2, <2>1, QueueIs
  <2>3. ASSUME NEW S, r \in Seq(S), Len(r) = 0 PROVE r = <<>>
    BY <2>3, EmptySeq
  <2> QED BY <1>2, <2>2, <2>3 DEF IsQueue
<1> QED BY <1>2, <1>3, <1>4, <1>5 DEF Side

(* The side of its peer, which is sent something.                          *)
LEMMA SideSent ==
    ASSUME NEW s, NEW p, NEW w, Side(p, s, w), Proper(s),
           NEW t, Goes(s, t), Proper(t), t.state # "NONE", NEW sent, IsQueue(sent),
           \A i \in DOMAIN sent : Fits(p, t, sent[i]),
           w = <<>> \/ (\A i \in DOMAIN sent : sent[i].flags # {"SYN"}),
           \A i \in DOMAIN sent : sent[i].flags = {"SYN"} => i = 1
    PROVE  Side(p, t, w \o sent)
<1> PICK r : r = w \o sent
  OBVIOUS
<1>1. /\ IsQueue(r) /\ IsQueue(w)
      /\ \A i \in DOMAIN r :
            \/ i \in DOMAIN w /\ r[i] = w[i]
            \/ i - Len(w) \in DOMAIN sent /\ r[i] = sent[i - Len(w)]
  BY JoinIs DEF Side
<1>2. ASSUME NEW i \in DOMAIN r PROVE Fits(p, t, r[i])
  <2>1. CASE i \in DOMAIN w /\ r[i] = w[i]
    BY <2>1, FitsFrom DEF Side
  <2>2. CASE i - Len(w) \in DOMAIN sent /\ r[i] = sent[i - Len(w)]
    BY <2>2
  <2> QED BY <1>1, <2>1, <2>2
<1>3. ASSUME NEW i \in DOMAIN r, r[i].flags = {"SYN"} PROVE i = 1
  <2>1. CASE i \in DOMAIN w /\ r[i] = w[i]
    BY <1>3, <2>1 DEF Side
  <2>2. CASE i - Len(w) \in DOMAIN sent /\ r[i] = sent[i - Len(w)]
    <3>1. i - Len(w) = 1 /\ w = <<>>
      BY <1>3, <2>2
    <3>2. Len(w) = 0
      BY <3>1
    <3>3. i \in Nat
      BY <1>1, QueueIs
    <3> QED BY <3>1, <3>2, <3>3
  <2> QED BY <1>1, <2>1, <2>2
<1>4. Knows(p, t)
  BY DEF Side, Knows, Goes
<1> QED BY <1>1, <1>2, <1>3, <1>4 DEF Side, Goes

(* What a handled segment makes of both.                                   *)
Served(s, p, o) ==
    /\ Proper(o.sock) /\ Goes(s, o.sock) /\ Knows(o.sock, p)
    /\ o.sock.state # "NONE" /\ IsQueue(o.sent)
    /\ \A i \in DOMAIN o.sent : Fits(p, o.sock, o.sent[i]) /\ o.sent[i].flags # {"SYN"}

LEMMA ReceivedServes ==
    ASSUME NEW s, NEW p, NEW m, Proper(s), Proper(p), Knows(s, p), Knows(p, s),
           Fits(s, p, m), Accepts(s, m), NEW o \in Received(s, m)
    PROVE  Served(s, p, o)
<1> PICK t : t = o.sock
  OBVIOUS
<1>1. /\ Typed(t) /\ InStep(t) /\ t.passive = s.passive /\ t.nxt = s.nxt
      /\ \A i \in DOMAIN o.sent : Answers(t, o.sent[i])
  BY ReceivedSound, ReceivedMoves DEF Proper, Fits, Sound, Moves, Typed
<1>2. Handled(s, m, o)
  BY ReceivedPlain DEF Proper, Fits
<1>3. s.state # "NONE"
  BY NoSocketIs DEF Accepts, Proper
<1>4. t.nxt >= s.nxt
  BY <1>1 DEF Typed
<1>5. ASSUME NEW a, o.sent = <<a>>, Fits(p, t, a), a.flags # {"SYN"}
      PROVE  /\ IsQueue(o.sent)
             /\ \A i \in DOMAIN o.sent : Fits(p, t, o.sent[i]) /\ o.sent[i].flags # {"SYN"}
  BY <1>5, ShortQueues
<1>6. ASSUME o.sent = <<>>
      PROVE  /\ IsQueue(o.sent)
             /\ \A i \in DOMAIN o.sent : Fits(p, t, o.sent[i]) /\ o.sent[i].flags # {"SYN"}
  BY <1>6, ShortQueues
<1>7. ASSUME NEW a, o.sent = <<a>> PROVE IsSegment(a) /\ a.byte = NoByte
  BY <1>1, <1>7, ShortQueues DEF Answers
<1>8. CASE OpenedBy(s, m, o)
  <2>1. /\ m.flags = {"SYN"} /\ t.state = "SYN_RECEIVED" /\ t.cseq = s.cseq
        /\ t.ack = m.seq + 1 /\ Keeps(s, t)
        /\ \/ s.state = "LISTEN" /\ t.caux = s.caux + 1
           \/ s.state = "SYN_SENT" /\ t.caux = s.caux
    BY <1>8 DEF OpenedBy
  <2> PICK a : o.sent = <<a>> /\ Answer(a, {"SYN", "ACK"}, s.cseq, m.seq + 1)
    BY <1>8 DEF OpenedBy
  <2>2. m.seq = 0 /\ p.caux = 1 /\ ~ p.passive /\ (s.passive => s.caux = 0)
    BY <2>1 DEF Fits
  <2>3. s.cseq = 0 /\ t.caux = 1 /\ ~ s.buf /\ ~ Gone(s) /\ ~ Begun(s)
    BY <2>1, <2>2 DEF Proper, Gone, Begun, Typed
  <2>4. /\ t.buf = s.buf /\ t.rcv = s.rcv
    BY <2>1 DEF Keeps
  <2>5. Proper(t)
    BY <1>1, <2>1, <2>2, <2>3, <2>4 DEF Proper, Early
  <2>6. Goes(s, t)
    BY <1>1, <1>4, <2>1, <2>3 DEF Goes
  <2>7. Knows(t, p)
    BY <2>1, <2>2, <2>3, <2>4 DEF Knows
  <2>8. Begun(t)
    BY <2>1, <2>3 DEF Begun
  <2>9. Fits(p, t, a) /\ a.flags # {"SYN"}
    <3>1. /\ a.flags = {"SYN", "ACK"} /\ a.seq = 0 /\ p.caux = 1
          /\ IsSegment(a) /\ a.byte = NoByte
      BY <1>7, <2>2, <2>3 DEF Answer
    <3> QED BY <2>8, <3>1, FlagsDiffer DEF Fits, Plain
  <2> QED BY <1>5, <2>1, <2>5, <2>6, <2>7, <2>9 DEF Served
<1>9. CASE EstablishedBy(s, m, o)
  <2>1. /\ t.state = "ESTABLISHED" /\ Stays(s, t) /\ t.cseq = s.cseq + 1 /\ t.buf
        /\ \/ s.state = "SYN_SENT" /\ m.flags = {"SYN", "ACK"} /\ t.rcv = m.seq + 1
           \/ /\ s.state = "SYN_RECEIVED" /\ t.rcv = Acks(s) /\ o.sent = <<>>
              /\ m.flags \in {{"SYN", "ACK"}, {"ACK"}}
    BY <1>9 DEF EstablishedBy
  <2>2. \/ o.sent = <<>>
        \/ \E a : o.sent = <<a>> /\ Answer(a, {"ACK"}, s.cseq + 1, m.seq + 1)
    BY <1>9 DEF EstablishedBy
  <2>3. Begun(p) /\ (m.flags = {"SYN", "ACK"} => m.seq = 0)
    BY <2>1 DEF Fits
  <2>4. s.cseq = 0 /\ s.caux = 1 /\ ~ s.buf /\ ~ Gone(s)
    BY <2>1 DEF Proper, Gone
  <2>5. t.rcv >= 1
    BY <2>1, <2>3, <2>4 DEF Acks, Proper
  <2>6. Proper(t)
    BY <1>1, <2>1, <2>4, <2>5 DEF Proper, Early, Stays
  <2>7. Begun(t)
    BY <2>1, <2>4 DEF Begun, Stays
  <2>8. Goes(s, t)
    BY <1>1, <1>4, <2>1, <2>4, <2>7 DEF Goes, Stays
  <2>9. Knows(t, p)
    BY <2>1, <2>3, <2>7 DEF Knows, Begun
  <2>10. ASSUME NEW a, o.sent = <<a>>, Answer(a, {"ACK"}, s.cseq + 1, m.seq + 1)
         PROVE  Fits(p, t, a) /\ a.flags # {"SYN"}
    BY <1>7, <2>3, <2>7, <2>10 DEF Fits, Answer, Plain
  <2> QED BY <1>5, <1>6, <2>1, <2>2, <2>6, <2>8, <2>9, <2>10 DEF Served
<1>10. CASE ResetBy(s, m, o)
  <2>1. /\ Refuses(s, m) /\ t.state = "CLOSED" /\ Stays(s, t) /\ Keeps(s, t)
        /\ t.cseq = s.cseq \/ (s.state = "SYN_RECEIVED" /\ t.cseq = s.cseq + 1)
    BY <1>10 DEF ResetBy
  <2> PICK a : o.sent = <<a>> /\ a.flags = {"RST"} /\ a.byte = NoByte
    BY <1>10 DEF ResetBy
  <2>2. s.caux = 1
    <3>1. CASE m.flags = {"SYN"}
      <4>1. s.state # "LISTEN"
        BY <2>1, <3>1 DEF Refuses
      <4> QED BY <1>3, <4>1 DEF Proper
    <3>2. CASE m.flags # {"SYN"}
      <4>1. m.flags \in {{"SYN", "ACK"}, {"ACK"}}
        BY <2>1, <3>2 DEF Refuses
      <4> QED BY <4>1 DEF Fits, Begun
    <3> QED BY <3>1, <3>2
  <2>3. Gone(t) /\ Begun(t) /\ t.caux = 1
    BY <2>1, <2>2 DEF Gone, Begun, Stays
  <2>4. t.cseq \in Nat /\ t.cseq <= 1 /\ (t.buf => t.cseq = 1 /\ t.rcv >= 1)
    <3>1. CASE t.cseq = s.cseq
      BY <1>1, <2>1, <2>2, <3>1 DEF Proper, Keeps, Typed
    <3>2. CASE s.state = "SYN_RECEIVED" /\ t.cseq = s.cseq + 1
      BY <1>1, <2>1, <2>2, <3>2 DEF Proper, Keeps, Typed
    <3> QED BY <2>1, <3>1, <3>2
  <2>5. Proper(t)
    BY <1>1, <2>1, <2>3, <2>4 DEF Proper, Early, Keeps
  <2>6. Goes(s, t)
    BY <1>1, <1>4, <2>1, <2>3 DEF Goes
  <2>7. Knows(t, p)
    BY <1>1, <2>1, <2>2, <2>3 DEF Knows, Keeps
  <2>8. Fits(p, t, a) /\ a.flags # {"SYN"}
    <3>1. a.flags = {"RST"} /\ a.flags # {"SYN"} /\ a.flags # {"SYN", "ACK"} /\ a.flags # {"ACK"}
      OBVIOUS
    <3> QED BY <1>7, <2>3, <3>1 DEF Fits, Plain
  <2> QED BY <1>5, <2>1, <2>5, <2>6, <2>7, <2>8 DEF Served
<1>11. CASE EndedBy(s, m, o)
  <2>1. /\ m.flags = {"RST"} /\ t.state = IF s.passive THEN "LISTEN" ELSE "CLOSED"
        /\ Stays(s, t) /\ Keeps(s, t) /\ t.cseq = s.cseq /\ o.sent = <<>>
    BY <1>11 DEF EndedBy
  <2>2. Gone(p)
    BY <2>1 DEF Fits
  <2>3. Proper(t)
    BY <1>1, <1>3, <2>1 DEF Proper, Early, Keeps, Stays
  <2>4. t.caux = 1 => Gone(t)
    BY <2>1 DEF Gone
  <2>5. Gone(s) => s.caux = 1
    BY DEF Gone, Proper
  <2>6. Goes(s, t)
    BY <1>1, <1>4, <2>1, <2>4, <2>5 DEF Goes, Begun, Stays
  <2>7. Knows(t, p)
    BY <1>1, <2>1, <2>2, <2>4 DEF Knows, Keeps, Stays, Begun
  <2> QED BY <1>6, <2>1, <2>3, <2>6, <2>7 DEF Served
<1>12. CASE TakenBy(s, m, o)
  <2>1. /\ m.flags = {"ACK"} /\ t.state = s.state /\ s.state # "SYN_RECEIVED" /\ Stays(s, t)
        /\ t.cseq = s.cseq
    BY <1>12 DEF TakenBy
  <2>2. \/ o.sent = <<>>
        \/ \E a : o.sent = <<a>> /\ Answer(a, {"ACK"}, s.cseq + s.nxt, t.ack)
    BY <1>12 DEF TakenBy
  <2>3. t.buf = s.buf /\ (s.buf => t.rcv >= s.rcv)
    <3>1. CASE Keeps(s, t)
      BY <3>1 DEF Keeps, Proper, Typed
    <3>2. ASSUME NEW places, NEW byte, Fills(s, t, places, byte)
          PROVE  t.buf = s.buf /\ t.rcv >= s.rcv
      <4>1. s.rcv \in Nat /\ t.rcv \in s.rcv .. s.rcv + Window /\ s.buf = TRUE /\ t.buf = TRUE
        BY <1>1, <3>2 DEF Fills, Proper, Typed
      <4>2. Window \in Nat
        BY SocketAssumption
      <4>3. t.rcv >= s.rcv
        BY ONLY <4>1, <4>2
      <4> QED BY <4>1, <4>3
    <3>3. Keeps(s, t) \/ \E places, byte : Fills(s, t, places, byte)
      BY <1>12 DEF TakenBy
    <3> QED BY <3>1, <3>2, <3>3
  <2>4. Begun(s) /\ Begun(p)
    BY <2>1 DEF Fits
  <2>5. t.buf => t.rcv >= 1
    BY <1>1, <2>3 DEF Proper, Typed
  <2>6. Begun(t) /\ (Gone(s) => Gone(t))
    BY <2>1, <2>4 DEF Begun, Gone, Stays
  <2>7. Proper(t)
    BY <1>1, <1>3, <2>1, <2>3, <2>5 DEF Proper, Stays
  <2>8. Goes(s, t)
    BY <1>1, <1>3, <1>4, <2>1, <2>6 DEF Goes, Stays
  <2>9. Knows(t, p)
    BY <1>1, <2>1, <2>3, <2>4, <2>6 DEF Knows, Stays
  <2>10. ASSUME NEW a, o.sent = <<a>>, Answer(a, {"ACK"}, s.cseq + s.nxt, t.ack)
         PROVE  Fits(p, t, a) /\ a.flags # {"SYN"}
    BY <1>7, <2>4, <2>6, <2>10 DEF Fits, Answer, Plain
  <2> QED BY <1>3, <1>5, <1>6, <2>1, <2>2, <2>7, <2>8, <2>9, <2>10 DEF Served
<1> QED BY <1>2, <1>8, <1>9, <1>10, <1>11, <1>12 DEF Handled

LEMMA TickedServes ==
    ASSUME NEW s, NEW p, Proper(s), Knows(s, p), s.state # "NONE",
           NEW o \in Ticked(s, Available)
    PROVE  Served(s, p, o)
<1> PICK t : t = o.sock
  OBVIOUS
<1>0. Available \in Nat
  BY ConnectionAssumption
<1>1. /\ Typed(t) /\ InStep(t) /\ t.state = s.state /\ t.passive = s.passive
      /\ t.cseq = s.cseq /\ t.caux = s.caux /\ t.rcv = s.rcv /\ t.buf = s.buf
      /\ (~ s.buf => t.ack = s.ack) /\ IsQueue(o.sent)
      /\ t.nxt = s.nxt \/ (Sending(s, Available) /\ t.nxt = s.nxt + 1)
      /\ \A i \in DOMAIN o.sent :
            \E k \in s.timers \cup {s.nxt} :
               /\ k < t.nxt
               /\ k = s.nxt => Sending(s, Available)
               /\ IsSegment(o.sent[i]) /\ o.sent[i].flags = {"ACK"}
               /\ o.sent[i].byte = k /\ o.sent[i].seq = s.cseq + k
  BY <1>0, TickedSound DEF Proper
<1>2. s.nxt \in Nat /\ s.timers \subseteq 0 .. s.nxt - 1 /\ t.nxt \in Nat /\ t.nxt >= s.nxt
  BY <1>1 DEF Proper, Typed
<1>3. ASSUME Sending(s, Available)
      PROVE  s.buf /\ ~ s.passive /\ s.nxt < Available
  BY <1>3 DEF Sending, Proper, Early
<1>4. /\ t.passive => t.nxt = 0
      /\ t.nxt > 0 => t.buf
      /\ t.nxt <= Available
  BY <1>0, <1>1, <1>2, <1>3 DEF Proper
<1>5. s.state = "SYN_RECEIVED" => ~ s.buf
  BY DEF Proper
<1>6. Proper(t)
  BY <1>1, <1>4, <1>5 DEF Proper
<1>7. Goes(s, t) /\ Knows(t, p)
  BY <1>1, <1>2 DEF Goes, Knows, Begun, Gone
<1>8. ASSUME NEW i \in DOMAIN o.sent PROVE Fits(p, t, o.sent[i]) /\ o.sent[i].flags # {"SYN"}
  <2> PICK a : a = o.sent[i]
    OBVIOUS
  <2> PICK k \in s.timers \cup {s.nxt} :
               /\ k < t.nxt
               /\ k = s.nxt => Sending(s, Available)
               /\ IsSegment(a) /\ a.flags = {"ACK"}
               /\ a.byte = k /\ a.seq = s.cseq + k
    BY <1>1
  <2>1. k \in Nat /\ k \in 0 .. t.nxt - 1 /\ t.nxt > 0
    BY <1>2
  <2>2. t.buf /\ s.buf /\ s.cseq = 1
    BY <1>1, <1>4, <2>1 DEF Proper
  <2>3. Begun(t) /\ Begun(p)
    BY <1>7, <2>2 DEF Knows
  <2>4. a.seq = 1 + a.byte
    BY <2>1, <2>2
  <2>5. a.flags \in Plain /\ a.flags # {"SYN"} /\ a.flags # {"SYN", "ACK"} /\ a.flags # {"RST"}
    BY DEF Plain
  <2> QED BY <2>1, <2>3, <2>4, <2>5 DEF Fits
<1> QED BY <1>1, <1>6, <1>7, <1>8 DEF Served

LEMMA ConnectServes ==
    ASSUME NEW s, NEW p, Proper(s), Proper(p), Knows(p, s), s.state = "NONE",
           NEW o \in Connecting
    PROVE  /\ Proper(o.sock) /\ Goes(s, o.sock) /\ Knows(o.sock, p)
           /\ o.sock.state = "SYN_SENT" /\ o.sock.passive = FALSE
           /\ o.sock.simultaneous_open = FALSE
           /\ o.sock.got = {} /\ o.sock.buf = FALSE /\ o.sock.una = 0 /\ o.sock.nxt = 0
           /\ IsQueue(o.sent) /\ DOMAIN o.sent = {1} /\ Fits(p, o.sock, o.sent[1])
           /\ o.sent[1].flags = {"SYN"} /\ o.sent[1].byte = NoByte
<1>a. PICK ack \in UnsetAcks :
         o = Outcome([NewSocket("SYN_SENT", FALSE, TRUE, ack) EXCEPT !.caux = 1],
                     <<Segment(NewSocket("SYN_SENT", FALSE, TRUE, ack), {"SYN"}, 0)>>)
  BY DEF Connecting
<1>n. PICK n : n = NewSocket("SYN_SENT", FALSE, TRUE, ack)
  OBVIOUS
<1>t. PICK t : t = o.sock
  OBVIOUS
<1>b. PICK a : a = Segment(n, {"SYN"}, 0)
  OBVIOUS
<1>0. ack \in Nat /\ Available \in Nat /\ Window \in Nat
  BY SocketAssumption, ConnectionAssumption
<1>1. t = [n EXCEPT !.caux = 1] /\ o.sent = <<a>>
  BY ONLY <1>a, <1>n, <1>t, <1>b DEF Outcome
<1>2. /\ IsSocket(n) /\ n.state = "SYN_SENT" /\ n.passive = FALSE /\ n.bound = TRUE
      /\ n.simultaneous_open = FALSE /\ n.cseq = 0 /\ n.ack = ack /\ n.una = 0 /\ n.nxt = 0
      /\ n.timers = {} /\ n.buf = FALSE /\ n.rcv = 0 /\ n.held = {} /\ n.got = {}
  BY ONLY <1>n DEF NewSocket, IsSocket
<1>3. /\ IsSocket(t) /\ t.state = "SYN_SENT" /\ t.passive = FALSE /\ t.bound = TRUE
      /\ t.simultaneous_open = FALSE /\ t.cseq = 0 /\ t.caux = 1 /\ t.ack = ack
      /\ t.una = 0 /\ t.nxt = 0
      /\ t.timers = {} /\ t.buf = FALSE /\ t.rcv = 0 /\ t.held = {} /\ t.got = {}
  BY ONLY <1>1, <1>2 DEF IsSocket
<1>4. Typed(t) /\ InStep(t)
  <2>1. 0 \in Nat /\ 1 \in Nat /\ 0 \in Int
    OBVIOUS
  <2> QED BY ONLY <1>0, <1>3, <2>1 DEF Typed, InStep, States
<1>5. Proper(t)
  BY ONLY <1>0, <1>3, <1>4 DEF Proper, Early
<1>6. Goes(s, t) /\ Knows(t, p)
  BY <1>3, NoSocketIs DEF Goes, Knows, Proper, Begun, Gone
<1>7. /\ a.flags = {"SYN"} /\ a.byte = NoByte /\ a.seq = 0 /\ a.ack = ack
  BY ONLY <1>b, <1>2 DEF Segment
<1>8. IsSegment(a)
  BY ONLY <1>0, <1>7 DEF IsSegment, Flags
<1>9. p.passive => p.caux = 0
  BY NoSocketIs DEF Knows, Proper
<1>10. Fits(p, t, a)
  BY <1>3, <1>7, <1>8, <1>9, FlagsDiffer DEF Fits, Plain
<1>11. o.sent[1] = a /\ IsQueue(o.sent) /\ DOMAIN o.sent = {1}
  BY <1>1, ShortQueues
<1> QED BY <1>t, <1>1, <1>3, <1>5, <1>6, <1>7, <1>10, <1>11

LEMMA ListenServes ==
    ASSUME NEW s, NEW p, Proper(s), s.state = "NONE", NEW o \in Listening
    PROVE  /\ Proper(o.sock) /\ Goes(s, o.sock) /\ Knows(o.sock, p) /\ o.sent = <<>>
           /\ o.sock.state = "LISTEN" /\ o.sock.passive = TRUE /\ o.sock.caux = 0
           /\ o.sock.simultaneous_open = FALSE
           /\ o.sock.got = {} /\ o.sock.buf = FALSE /\ o.sock.una = 0 /\ o.sock.nxt = 0
<1>a. PICK ack \in UnsetAcks : o \in Quietly(NewSocket("LISTEN", TRUE, FALSE, ack))
  BY DEF Listening
<1>t. PICK t : t = o.sock
  OBVIOUS
<1>0. ack \in Nat /\ Available \in Nat /\ Window \in Nat
  BY SocketAssumption, ConnectionAssumption
<1>1. t = NewSocket("LISTEN", TRUE, FALSE, ack) /\ o.sent = <<>>
  <2>1. o = Outcome(NewSocket("LISTEN", TRUE, FALSE, ack), <<>>)
    BY ONLY <1>a DEF Quietly
  <2> QED BY ONLY <2>1, <1>t DEF Outcome
<1>2. /\ IsSocket(t) /\ t.state = "LISTEN" /\ t.passive = TRUE /\ t.bound = FALSE
      /\ t.simultaneous_open = FALSE /\ t.cseq = 0 /\ t.caux = 0 /\ t.ack = ack
      /\ t.una = 0 /\ t.nxt = 0
      /\ t.timers = {} /\ t.buf = FALSE /\ t.rcv = 0 /\ t.held = {} /\ t.got = {}
  BY ONLY <1>1 DEF NewSocket, IsSocket
<1>3. Typed(t) /\ InStep(t)
  <2>1. 0 \in Nat /\ 0 \in Int
    OBVIOUS
  <2> QED BY ONLY <1>0, <1>2, <2>1 DEF Typed, InStep, States
<1>4. Proper(t)
  BY ONLY <1>0, <1>2, <1>3 DEF Proper, Early
<1>5. Goes(s, t) /\ Knows(t, p)
  BY <1>2, NoSocketIs DEF Goes, Knows, Proper, Begun, Gone
<1> QED BY <1>t, <1>1, <1>2, <1>4, <1>5

-----------------------------------------------------------------------------
(* The two hosts                                                           *)

Tables ==
    /\ DOMAIN sock = Hosts /\ DOMAIN net = Hosts
    /\ losses \in 0 .. MaxLosses

Sides == \A h \in Hosts : Side(sock[h], sock[Peer(h)], net[h])

LEMMA TwoHosts ==
    ASSUME NEW h \in Hosts
    PROVE  /\ Peer(h) \in Hosts /\ Peer(Peer(h)) = h /\ Peer(h) # h
           /\ \A g \in Hosts : g = h \/ g = Peer(h)
BY DEF Hosts, Peer

LEMMA BecomesIs ==
    ASSUME Tables, NEW h \in Hosts, NEW o, Becomes(h, o)
    PROVE  /\ DOMAIN sock' = Hosts /\ DOMAIN net' = Hosts
           /\ sock'[h] = o.sock /\ sock'[Peer(h)] = sock[Peer(h)]
           /\ net'[h] = net[h] /\ net'[Peer(h)] = net[Peer(h)] \o o.sent
BY TwoHosts DEF Becomes, Tables

LEMMA ReceivesIs ==
    ASSUME Tables, NEW h \in Hosts, NEW o, Receives(h, o)
    PROVE  /\ DOMAIN sock' = Hosts /\ DOMAIN net' = Hosts
           /\ sock'[h] = o.sock /\ sock'[Peer(h)] = sock[Peer(h)]
           /\ net'[h] = Tail(net[h]) /\ net'[Peer(h)] = net[Peer(h)] \o o.sent
BY TwoHosts DEF Receives, Tables

(* The six things that may happen, as the host and its peer see them.      *)
Drops(h) ==
    /\ sock' = sock /\ net'[Peer(h)] = net[Peer(h)]
    /\ losses' \in losses .. losses + 1 /\ (MaxLosses > 0 => losses' > 0)
    /\ \/ net[h] # <<>> /\ net'[h] = Tail(net[h]) /\ ~ Accepts(sock[h], Head(net[h]))
       \/ \E i \in DOMAIN net[h] : net'[h] = RemoveAt(net[h], i)

LEMMA DropsIs ==
    ASSUME Tables, NEW h \in Hosts, Unknown(h) \/ Lose(h)
    PROVE  Drops(h) /\ Tables'
<1>0. MaxLosses \in Nat
  BY ConnectionAssumption
<1>1. CASE Unknown(h)
  BY <1>0, <1>1, TwoHosts DEF Unknown, Drops, Tables
<1>2. CASE Lose(h)
  <2> PICK i \in DOMAIN net[h] : net' = [net EXCEPT ![h] = RemoveAt(@, i)]
    BY <1>2 DEF Lose
  <2>1. net'[h] = RemoveAt(net[h], i) /\ net'[Peer(h)] = net[Peer(h)] /\ DOMAIN net' = Hosts
    BY TwoHosts DEF Tables
  <2> QED BY <1>0, <1>2, <2>1 DEF Lose, Drops, Tables
<1> QED BY <1>1, <1>2

LEMMA SidesInit == Init => Tables /\ Sides
<1> SUFFICES ASSUME Init PROVE Tables /\ Sides
  OBVIOUS
<1>0. {Available, MaxLosses} \subseteq Nat
  BY ConnectionAssumption
<1>1. Tables
  BY <1>0 DEF Init, Tables
<1>2. Proper(NoSocket)
  <2> PICK s : s = NoSocket
    OBVIOUS
  <2>1. /\ IsSocket(s) /\ s.state = "NONE" /\ s.passive = FALSE /\ s.bound = FALSE
        /\ s.simultaneous_open = FALSE /\ s.cseq = 0 /\ s.caux = 0 /\ s.ack = 0
        /\ s.una = 0 /\ s.nxt = 0
        /\ s.timers = {} /\ s.buf = FALSE /\ s.rcv = 0 /\ s.held = {} /\ s.got = {}
    BY DEF NoSocket, NewSocket, IsSocket
  <2>2. Typed(s) /\ InStep(s)
    <3>1. 0 \in Nat /\ 0 \in Int
      OBVIOUS
    <3> QED BY ONLY <2>1, <3>1 DEF Typed, InStep
  <2>3. Proper(s)
    BY <1>0, <2>1, <2>2 DEF Proper, Early
  <2> QED BY <2>3
<1>3. Knows(NoSocket, NoSocket)
  BY NoSocketIs DEF Knows
<1>4. ASSUME NEW h \in Hosts PROVE Side(sock[h], sock[Peer(h)], net[h])
  <2>1. sock[h] = NoSocket /\ sock[Peer(h)] = NoSocket /\ net[h] = <<>>
    BY TwoHosts DEF Init
  <2> QED BY <1>2, <1>3, <2>1, ShortQueues DEF Side
<1> QED BY <1>1, <1>4 DEF Sides

(* Whatever moves, both sides are as before.                               *)
LEMMA SidesNext ==
    ASSUME Tables, Sides, Next
    PROVE  Tables' /\ Sides'
<1> PICK h \in Hosts : \/ Connect(h) \/ Listen(h)
                       \/ Deliver(h) \/ Unknown(h) \/ Tick(h) \/ Lose(h)
  BY DEF Next
<1> PICK s, p : s = sock[h] /\ p = sock[Peer(h)]
  OBVIOUS
<1> PICK q, w : q = net[h] /\ w = net[Peer(h)]
  OBVIOUS
<1>0. /\ Side(s, p, q) /\ Side(p, s, w)
      /\ Peer(h) \in Hosts /\ Peer(Peer(h)) = h
      /\ \A g \in Hosts : g = h \/ g = Peer(h)
  BY TwoHosts DEF Sides
<1>8. Proper(s) /\ Proper(p) /\ Knows(s, p) /\ Knows(p, s) /\ IsQueue(q) /\ IsQueue(w)
  BY <1>0 DEF Side
<1>1. ASSUME NEW t, NEW r, NEW x, sock'[h] = t, sock'[Peer(h)] = p,
             net'[h] = r, net'[Peer(h)] = x, Side(t, p, r), Side(p, t, x)
      PROVE  Sides'
  <2>1. ASSUME NEW g \in Hosts PROVE Side(sock'[g], sock'[Peer(g)], net'[g])
    BY <1>0, <1>1
  <2> QED BY <2>1 DEF Sides
<1>2. Thins(q, q)
  <2>1. IsQueue(q) /\ \A i \in DOMAIN q : i \in Nat /\ i >= i
    BY <1>0, QueueIs DEF Side
  <2> QED BY <2>1 DEF Thins
<1>3. CASE Connect(h)
  <2> PICK o \in Connecting : Becomes(h, o) /\ losses' = losses
    BY <1>3 DEF Connect
  <2>1. s.state = "NONE" /\ w = <<>>
    BY <1>0, <1>3 DEF Connect, Idle, Side
  <2>2. /\ Proper(o.sock) /\ Goes(s, o.sock) /\ Knows(o.sock, p)
        /\ o.sock.passive = FALSE /\ o.sock.state = "SYN_SENT"
        /\ IsQueue(o.sent) /\ DOMAIN o.sent = {1} /\ Fits(p, o.sock, o.sent[1])
    <3>0. o \in Connecting
      OBVIOUS
    <3>1. /\ Proper(o.sock) /\ Goes(s, o.sock) /\ Knows(o.sock, p)
          /\ o.sock.passive = FALSE /\ o.sock.state = "SYN_SENT"
      BY ONLY <1>8, <2>1, <3>0, ConnectServes
    <3>2. IsQueue(o.sent)
      BY ONLY <1>8, <2>1, <3>0, ConnectServes
    <3>3. DOMAIN o.sent = {1}
      BY ONLY <1>8, <2>1, <3>0, ConnectServes
    <3>4. Fits(p, o.sock, o.sent[1])
      BY ONLY <1>8, <2>1, <3>0, ConnectServes
    <3> QED BY <3>1, <3>2, <3>3, <3>4
  <2>3. Side(o.sock, p, q)
    BY <1>0, <1>2, <2>2, SideKept
  <2>4. /\ IsQueue(o.sent) /\ \A i \in DOMAIN o.sent : Fits(p, o.sock, o.sent[i]) /\ i = 1
    BY <2>2
  <2>5. Side(p, o.sock, w \o o.sent)
    BY <1>0, <1>8, <2>1, <2>2, <2>4, SideSent
  <2> QED BY <1>1, <2>3, <2>5, BecomesIs DEF Tables
<1>4. CASE Listen(h)
  <2> PICK o \in Listening : Becomes(h, o) /\ losses' = losses
    BY <1>4 DEF Listen
  <2>1. s.state = "NONE"
    BY <1>4 DEF Listen, Idle
  <2>2. /\ Proper(o.sock) /\ Goes(s, o.sock) /\ Knows(o.sock, p) /\ o.sent = <<>>
        /\ o.sock.caux = 0 /\ o.sock.state # "NONE"
    BY ONLY <1>8, <2>1, ListenServes
  <2>3. Side(o.sock, p, q)
    BY <1>0, <1>2, <2>2, SideKept
  <2>4. /\ IsQueue(o.sent) /\ DOMAIN o.sent = {}
    BY <2>2, ShortQueues
  <2>5. Side(p, o.sock, w \o o.sent)
    BY <1>0, <1>8, <2>2, <2>4, SideSent
  <2> QED BY <1>1, <2>3, <2>5, BecomesIs DEF Tables
<1>5. CASE Deliver(h)
  <2> PICK m : m = Head(q)
    OBVIOUS
  <2> PICK o \in Received(s, m) : Receives(h, o) /\ losses' = losses
    BY <1>5 DEF Deliver
  <2>1. q # <<>> /\ Accepts(s, m)
    BY <1>5 DEF Deliver
  <2>2. Fits(s, p, m)
    BY <1>0, <2>1, QueueIs DEF Side
  <2>3. Served(s, p, o)
    BY <1>0, <2>1, <2>2, ReceivedServes DEF Side
  <2>4. /\ Thins(q, Tail(q))
        /\ \A i \in DOMAIN Tail(q) : i + 1 \in DOMAIN q /\ Tail(q)[i] = q[i + 1] /\ i \in Nat /\ i >= 1
    BY <1>0, <2>1, TailThins, QueueIs DEF Side
  <2>5. \A i \in DOMAIN Tail(q) : Tail(q)[i].flags # {"SYN"}
    <3> SUFFICES ASSUME NEW i \in DOMAIN Tail(q), Tail(q)[i].flags = {"SYN"} PROVE FALSE
      OBVIOUS
    <3>1. i + 1 = 1 /\ i \in Nat /\ i >= 1
      BY <1>0, <2>4 DEF Side
    <3> QED BY ONLY <3>1
  <2>6. Side(o.sock, p, Tail(q))
    BY <1>0, <2>3, <2>4, <2>5, SideKept DEF Served
  <2>7. Side(p, o.sock, w \o o.sent)
    <3>1. \A i \in DOMAIN o.sent : Fits(p, o.sock, o.sent[i]) /\ o.sent[i].flags # {"SYN"}
      BY <2>3 DEF Served
    <3> QED BY <1>0, <1>8, <2>3, <3>1, SideSent DEF Served
  <2> QED BY <1>1, <2>6, <2>7, ReceivesIs DEF Tables
<1>6. CASE Tick(h)
  <2> PICK o \in Ticked(s, Available) : Becomes(h, o) /\ losses' = losses
    BY <1>6 DEF Tick
  <2>1. s.state # "NONE"
    BY <1>6 DEF Tick, Idle
  <2>2. Served(s, p, o)
    BY <1>0, <2>1, TickedServes DEF Side
  <2>3. ASSUME NEW i \in DOMAIN q, q[i].flags = {"SYN"}, o.sock.passive PROVE o.sock.caux = 0
    <3>1. o.sock.passive = s.passive /\ o.sock.caux = s.caux
      <4>1. Available \in Nat
        BY ConnectionAssumption
      <4> QED BY <1>0, <4>1, TickedSound DEF Side, Proper
    <3> QED BY <1>0, <2>3, <3>1 DEF Side, Fits
  <2>4. Side(o.sock, p, q)
    BY <1>0, <1>2, <2>2, <2>3, SideKept DEF Served
  <2>5. Side(p, o.sock, w \o o.sent)
    <3>1. \A i \in DOMAIN o.sent : Fits(p, o.sock, o.sent[i]) /\ o.sent[i].flags # {"SYN"}
      BY <2>2 DEF Served
    <3> QED BY <1>0, <1>8, <2>2, <3>1, SideSent DEF Served
  <2> QED BY <1>1, <2>4, <2>5, BecomesIs DEF Tables
<1>7. CASE Unknown(h) \/ Lose(h)
  <2>1. Drops(h) /\ Tables'
    BY <1>7, DropsIs
  <2>2. Thins(q, net'[h])
    BY <1>0, <2>1, TailThins, RemoveThins DEF Drops, Side
  <2>3. Goes(s, s)
    BY <1>0 DEF Goes, Side, Proper, Typed
  <2>4. Side(s, p, net'[h])
    <3>1. ASSUME NEW i \in DOMAIN net'[h], net'[h][i].flags = {"SYN"}, s.passive PROVE s.caux = 0
      <4> PICK j \in DOMAIN q : net'[h][i] = q[j]
        BY <2>2 DEF Thins
      <4> QED BY <1>0, <3>1 DEF Side, Fits
    <3> QED BY <1>0, <1>8, <2>2, <2>3, <3>1, SideKept
  <2> QED BY <1>0, <1>1, <2>1, <2>4 DEF Drops
<1> QED BY <1>3, <1>4, <1>5, <1>6, <1>7

LEMMA SidesAlways == Spec => [](Tables /\ Sides)
<1>1. Tables /\ Sides /\ [Next]_vars => Tables' /\ Sides'
  <2> SUFFICES ASSUME Tables, Sides, [Next]_vars PROVE Tables' /\ Sides'
    OBVIOUS
  <2>1. CASE UNCHANGED vars
    BY <2>1 DEF vars, Tables, Sides
  <2> QED BY <2>1, SidesNext
<1> QED BY <1>1, SidesInit, PTL DEF Spec

LEMMA SidesTypes ==
    ASSUME Tables, Sides
    PROVE  TypeOK
<1>0. Available \in Nat /\ Window \in Nat
  BY ConnectionAssumption, SocketAssumption
<1>1. ASSUME NEW h \in Hosts PROVE SocketOK(sock[h])
  <2> PICK s : s = sock[h]
    OBVIOUS
  <2>1. Proper(s) /\ Typed(s)
    BY DEF Sides, Side, Proper
  <2>2. \A x \in s.held : x > s.rcv
    BY <1>0, <2>1 DEF Typed
  <2>3. s.nxt <= Available
    BY <2>1 DEF Proper
  <2>4. SocketOK(s)
    BY <2>1, <2>2, <2>3 DEF Typed, SocketOK
  <2> QED BY <2>4
<1>2. ASSUME NEW h \in Hosts, NEW i \in DOMAIN net[h] PROVE SegmentOK(net[h][i])
  <2> PICK m, p : m = net[h][i] /\ p = sock[Peer(h)]
    OBVIOUS
  <2>1. Fits(sock[h], p, m) /\ Proper(p)
    BY TwoHosts DEF Sides, Side
  <2>2. p.nxt \in Nat /\ p.nxt <= Available
    BY <2>1 DEF Proper, Typed
  <2>3. m.byte # NoByte => m.byte \in 0 .. Available - 1
    BY <1>0, <2>1, <2>2 DEF Fits
  <2>4. SegmentOK(m)
    BY <2>1, <2>3 DEF SegmentOK, Fits, IsSegment
  <2> QED BY <2>4
<1> QED BY <1>1, <1>2 DEF TypeOK, Tables

(* Nobody is ESTABLISHED towards a host that never heard of it, whatever   *)
(* is lost, resets and memory running out included (the SYN + ACK and the  *)
(* last ACK of the opening, tcp.cpp 273 and 387).                          *)
THEOREM NobodyIsAlone == Spec => []NobodyAlone
<1>1. Tables /\ Sides => NobodyAlone
  <2> SUFFICES ASSUME Sides, NEW h \in Hosts, sock[h].state = "ESTABLISHED"
               PROVE  sock[Peer(h)].state \in {"SYN_RECEIVED", "ESTABLISHED", "CLOSED"}
    BY DEF NobodyAlone
  <2> PICK s, p : s = sock[h] /\ p = sock[Peer(h)]
    OBVIOUS
  <2>1. Proper(s) /\ Knows(s, p) /\ Knows(p, s)
    BY TwoHosts DEF Sides, Side
  <2>2. Begun(p) /\ ~ Gone(s)
    BY <2>1 DEF Proper, Knows, Gone
  <2>3. p.state \in {"SYN_RECEIVED", "ESTABLISHED", "CLOSED"}
    BY <2>1, <2>2 DEF Begun, Gone, Knows
  <2> QED BY <2>3
<1> QED BY <1>1, SidesAlways, PTL

-----------------------------------------------------------------------------
(* The stream: both agree about it if one of them called, or if all that a *)
(* host has to send fits in a window                                       *)

(* s has the first n units its peer sent.                                  *)
Has(s, n) == \A o \in 0 .. n - 1 : <<1 + o, o>> \in s.got

(* s acknowledges no more than it has.                                     *)
AcksWell(s, p) == s.ack \in 1 .. 1 + p.nxt /\ Has(s, s.ack - 1)

(* A socket that was called may get data.                                  *)
Hears(s) == s.passive /\ (s.buf \/ s.state = "SYN_RECEIVED")

(* A segment on its way from p to s.  One without data that starts beyond  *)
(* the first unit never goes to a socket that was called.                  *)
Carries(s, p, m) ==
    /\ m.flags \in {{"SYN", "ACK"}, {"ACK"}} =>
          m.ack \in 1 .. 1 + s.nxt /\ Has(p, m.ack - 1) /\ AcksWell(p, s)
    /\ m.flags = {"ACK"} =>
          /\ AcksWell(s, p) /\ m.seq <= 1 + p.nxt /\ s.caux = 1 /\ p.caux = 1
          /\ m.seq = 0 => ~ Hears(p)
          /\ m.byte = NoByte /\ Hears(s) => m.seq <= 1

Streams(s, p) ==
    /\ \A g \in s.got : \E o \in 0 .. p.nxt - 1 : g = <<1 + o, o>>
    /\ s.buf => /\ Has(s, s.rcv - 1) /\ \A x \in s.held : <<x, x - 1>> \in s.got
                /\ AcksWell(s, p) /\ AcksWell(p, s)
    /\ s.state = "SYN_RECEIVED" => s.ack = 1
    /\ s.una \in 0 .. s.nxt /\ Has(p, s.una)

Flow(s, p, q) == Streams(s, p) /\ \A i \in DOMAIN q : Carries(s, p, q[i])

(* What s may become, as far as the stream goes.                           *)
HearsOn(s, t) == s.caux = 1 => t.caux = 1 /\ (Hears(t) => Hears(s))

Gains(s, t, p) ==
    /\ s.got \subseteq t.got /\ t.nxt >= s.nxt /\ (AcksWell(s, p) => AcksWell(t, p))
    /\ HearsOn(s, t)

LEMMA GainsFrom ==
    ASSUME NEW s, NEW t, NEW p, Typed(s), Typed(t), Typed(p), Gains(s, t, p)
    PROVE  /\ \A n : Has(s, n) => Has(t, n)
           /\ AcksWell(p, s) => AcksWell(p, t)
           /\ \A m : Carries(s, p, m) => Carries(t, p, m)
           /\ \A m : IsSegment(m) /\ Carries(p, s, m) => Carries(p, t, m)
           /\ Streams(p, s) => Streams(p, t)
<1>0. s.nxt \in Nat /\ t.nxt \in Nat /\ p.nxt \in Nat /\ t.nxt >= s.nxt
  BY DEF Typed, Gains
<1>1. \A n : Has(s, n) => Has(t, n)
  BY DEF Has, Gains
<1>2. AcksWell(p, s) => AcksWell(p, t)
  BY <1>0 DEF AcksWell, Typed
<1>3. AcksWell(s, p) => AcksWell(t, p)
  BY DEF Gains
<1>4. ASSUME NEW m, Carries(s, p, m) PROVE Carries(t, p, m)
  <2>1. m.flags \in {{"SYN", "ACK"}, {"ACK"}} =>
           m.ack \in 1 .. 1 + t.nxt /\ Has(p, m.ack - 1) /\ AcksWell(p, t)
    BY <1>0, <1>2, <1>4 DEF Carries
  <2>2. ASSUME m.flags = {"ACK"}
        PROVE  /\ AcksWell(t, p) /\ m.seq <= 1 + p.nxt /\ t.caux = 1 /\ p.caux = 1
               /\ m.seq = 0 => ~ Hears(p)
               /\ m.byte = NoByte /\ Hears(t) => m.seq <= 1
    BY <1>3, <1>4, <2>2 DEF Carries, Gains, HearsOn
  <2> QED BY ONLY <2>1, <2>2 DEF Carries
<1>5. ASSUME NEW m, IsSegment(m), Carries(p, s, m) PROVE Carries(p, t, m)
  <2>1. m.flags = {"ACK"} => m.seq <= 1 + t.nxt
    BY <1>0, <1>5 DEF Carries, IsSegment
  <2>2. m.flags \in {{"SYN", "ACK"}, {"ACK"}} =>
           m.ack \in 1 .. 1 + p.nxt /\ Has(t, m.ack - 1) /\ AcksWell(t, p)
    BY <1>1, <1>3, <1>5 DEF Carries
  <2>3. ASSUME m.flags = {"ACK"}
        PROVE  /\ AcksWell(p, t) /\ m.seq <= 1 + t.nxt /\ p.caux = 1 /\ t.caux = 1
               /\ m.seq = 0 => ~ Hears(t)
               /\ m.byte = NoByte /\ Hears(p) => m.seq <= 1
    BY <1>2, <1>5, <2>1, <2>3 DEF Carries, Gains, HearsOn
  <2> QED BY ONLY <2>2, <2>3 DEF Carries
<1>6. ASSUME Streams(p, s) PROVE Streams(p, t)
  <2>1. \A g \in p.got : \E o \in 0 .. t.nxt - 1 : g = <<1 + o, o>>
    <3>1. 0 .. s.nxt - 1 \subseteq 0 .. t.nxt - 1
      BY <1>0
    <3> QED BY <1>6, <3>1 DEF Streams
  <2>2. Has(t, p.una)
    BY <1>1, <1>6 DEF Streams
  <2> QED BY <1>2, <1>3, <1>6, <2>1, <2>2 DEF Streams
<1> QED BY <1>1, <1>2, <1>4, <1>5, <1>6

LEMMA AcksIs ==
    ASSUME NEW s, Proper(s)
    PROVE  Acks(s) = s.ack /\ (s.buf => s.ack = s.rcv)
BY DEF Acks, Proper, InStep

LEMMA HasNone == \A s : Has(s, 0) /\ \A p : Typed(p) /\ s.ack = 1 => AcksWell(s, p)
<1>1. \A s : Has(s, 0)
  BY DEF Has
<1>2. ASSUME NEW s, NEW p, Typed(p), s.ack = 1 PROVE AcksWell(s, p)
  BY <1>1, <1>2 DEF AcksWell, Typed
<1> QED BY <1>1, <1>2

(* The buffer is left alone.                                               *)
LEMMA KeepsStreams ==
    ASSUME NEW s, NEW p, NEW t, Proper(s), Typed(p), Typed(t), Streams(s, p), Keeps(s, t),
           t.ack = s.ack \/ t.ack = 1, t.nxt >= s.nxt, t.state # "SYN_RECEIVED",
           t.una \in 0 .. t.nxt, Has(p, t.una), HearsOn(s, t)
    PROVE  Streams(t, p) /\ Gains(s, t, p)
<1>1. t.got = s.got /\ t.buf = s.buf /\ t.rcv = s.rcv /\ t.held = s.held
  BY DEF Keeps
<1>2. AcksWell(s, p) => AcksWell(t, p)
  <2>1. CASE t.ack = s.ack
    BY <1>1, <2>1 DEF AcksWell, Has
  <2>2. CASE t.ack = 1
    BY <2>2, HasNone
  <2> QED BY <2>1, <2>2
<1>3. Gains(s, t, p)
  BY <1>1, <1>2 DEF Gains
<1>4. AcksWell(p, s) => AcksWell(p, t)
  BY <1>3, GainsFrom DEF Proper
<1>5. Has(s, s.rcv - 1) => Has(t, t.rcv - 1)
  BY <1>1 DEF Has
<1> QED BY <1>1, <1>2, <1>3, <1>4, <1>5 DEF Streams

(* A unit is stored.                                                       *)
LEMMA FillsStreams ==
    ASSUME NEW s, NEW p, NEW t, NEW byte, Proper(s), Typed(p), Typed(t), Streams(s, p),
           byte \in 0 .. p.nxt - 1, Fills(s, t, {1 + byte}, byte),
           t.ack = t.rcv, t.nxt >= s.nxt, t.state # "SYN_RECEIVED",
           t.una \in 0 .. t.nxt, Has(p, t.una), HearsOn(s, t)
    PROVE  Streams(t, p) /\ Gains(s, t, p)
<1>0. /\ s.rcv \in Nat /\ t.rcv \in Nat /\ s.rcv >= 1 /\ t.rcv >= s.rcv /\ p.nxt \in Nat
      /\ s.buf /\ t.buf /\ byte \in Nat
  <2>1. /\ s.rcv \in Nat /\ p.nxt \in Nat /\ Window \in Nat /\ s.buf /\ t.buf
        /\ t.rcv \in s.rcv .. s.rcv + Window
    BY SocketAssumption DEF Proper, Typed, Fills
  <2>2. s.rcv >= 1
    BY <2>1 DEF Proper
  <2> QED BY <2>1, <2>2
<1>1. /\ t.got = s.got \cup {<<1 + byte, byte>>}
      /\ s.rcv .. t.rcv - 1 \subseteq s.held \cup {1 + byte}
      /\ t.held \subseteq s.held \cup {1 + byte}
  <2>1. {<<x, byte>> : x \in {1 + byte}} = {<<1 + byte, byte>>}
    OBVIOUS
  <2> QED BY <2>1 DEF Fills
<1>2. \A x \in s.held \cup {1 + byte} : <<x, x - 1>> \in t.got
  <2>1. 1 + byte - 1 = byte
    BY <1>0
  <2>2. <<1 + byte, 1 + byte - 1>> \in t.got
    BY <1>1, <2>1
  <2>3. \A x \in s.held : <<x, x - 1>> \in t.got
    BY <1>0, <1>1 DEF Streams
  <2>4. ASSUME NEW x \in s.held \cup {1 + byte} PROVE <<x, x - 1>> \in t.got
    <3>1. CASE x \in s.held
      BY <2>3, <3>1
    <3>2. CASE x = 1 + byte
      BY <2>2, <3>2
    <3> QED BY <3>1, <3>2
  <2> QED BY <2>4
<1>3. \A g \in t.got : \E o \in 0 .. p.nxt - 1 : g = <<1 + o, o>>
  BY <1>1 DEF Streams
<1>4. Has(t, t.rcv - 1)
  <2> SUFFICES ASSUME NEW o \in 0 .. t.rcv - 1 - 1 PROVE <<1 + o, o>> \in t.got
    BY DEF Has
  <2>1. CASE 1 + o < s.rcv
    <3>1. o \in 0 .. s.rcv - 1 - 1
      BY <1>0, <2>1
    <3> QED BY <1>0, <1>1, <3>1 DEF Streams, Has
  <2>2. CASE ~ (1 + o < s.rcv)
    <3>1. 1 + o \in s.rcv .. t.rcv - 1 /\ 1 + o - 1 = o
      BY <1>0, <2>2
    <3>2. 1 + o \in s.held \cup {1 + byte}
      BY <1>1, <3>1
    <3>3. <<1 + o, 1 + o - 1>> \in t.got
      BY <1>2, <3>2
    <3> QED BY <3>1, <3>3
  <2> QED BY <2>1, <2>2
<1>5. t.rcv <= 1 + p.nxt
  <2>1. CASE t.rcv = s.rcv
    BY <1>0, <2>1, AcksIs DEF Streams, AcksWell
  <2>2. CASE t.rcv # s.rcv
    <3>1. t.rcv - 1 \in s.rcv .. t.rcv - 1
      BY <1>0, <2>2
    <3>2. <<t.rcv - 1, t.rcv - 1 - 1>> \in t.got
      BY <1>1, <1>2, <3>1
    <3> PICK o \in 0 .. p.nxt - 1 : <<t.rcv - 1, t.rcv - 1 - 1>> = <<1 + o, o>>
      BY <1>3, <3>2
    <3>3. t.rcv - 1 = 1 + o
      OBVIOUS
    <3> QED BY <1>0, <3>3
  <2> QED BY <2>1, <2>2
<1>6. AcksWell(t, p)
  BY <1>0, <1>4, <1>5 DEF AcksWell
<1>7. Gains(s, t, p)
  BY <1>1, <1>6 DEF Gains
<1>8. AcksWell(p, t)
  BY <1>0, <1>7, GainsFrom DEF Proper, Streams
<1>9. \A x \in t.held : <<x, x - 1>> \in t.got
  BY <1>1, <1>2
<1> QED BY <1>3, <1>4, <1>6, <1>7, <1>8, <1>9 DEF Streams

(* What a handled segment makes of the stream.                             *)
Streamed(s, p, o) ==
    /\ Streams(o.sock, p) /\ Gains(s, o.sock, p)
    /\ \A i \in DOMAIN o.sent : Carries(p, o.sock, o.sent[i])

LEMMA ReceivedStreams ==
    ASSUME NEW s, NEW p, NEW m, Proper(s), Proper(p), Knows(s, p), Knows(p, s),
           Fits(s, p, m), Accepts(s, m), Streams(s, p), Carries(s, p, m),
           Available < Window \/ s.passive \/ p.passive,
           NEW o \in Received(s, m)
    PROVE  Streamed(s, p, o)
<1> PICK t : t = o.sock
  OBVIOUS
<1>1. /\ Typed(t) /\ t.nxt = s.nxt
  BY ReceivedSound, ReceivedMoves DEF Proper, Fits, Sound, Moves, Typed
<1>2. Handled(s, m, o)
  BY ReceivedPlain DEF Proper, Fits
<1>3. Proper(t)
  BY ReceivedServes DEF Served
<1>4. /\ Typed(s) /\ Typed(p) /\ s.nxt \in Nat /\ t.nxt >= s.nxt /\ p.nxt \in Nat
      /\ Acks(s) = s.ack /\ (s.buf => s.ack = s.rcv)
  BY <1>1, AcksIs DEF Proper, Typed
<1>5. ASSUME NEW a, o.sent = <<a>>, Carries(p, t, a)
      PROVE  \A i \in DOMAIN o.sent : Carries(p, t, o.sent[i])
  BY <1>5, ShortQueues
<1>6. ASSUME o.sent = <<>>
      PROVE  \A i \in DOMAIN o.sent : Carries(p, t, o.sent[i])
  BY <1>6
<1>7. s.una \in 0 .. t.nxt /\ Has(p, s.una)
  BY <1>1 DEF Streams
<1>h. HearsOn(s, t)
  <2> SUFFICES ASSUME s.caux = 1 PROVE t.caux = 1 /\ (Hears(t) => Hears(s))
    BY DEF HearsOn
  <2>1. t.caux = 1 /\ t.passive = s.passive
    BY ReceivedServes DEF Served, Goes
  <2>2. s.state = "SYN_SENT" => ~ s.passive
    BY DEF Proper
  <2>3. CASE OpenedBy(s, m, o)
    BY <2>1, <2>2, <2>3 DEF OpenedBy, Hears
  <2>4. CASE EstablishedBy(s, m, o)
    BY <2>1, <2>2, <2>4 DEF EstablishedBy, Hears
  <2>5. CASE ResetBy(s, m, o)
    BY <2>1, <2>5 DEF ResetBy, Keeps, Hears
  <2>6. CASE EndedBy(s, m, o)
    BY <2>1, <2>6 DEF EndedBy, Keeps, Hears
  <2>7. CASE TakenBy(s, m, o)
    BY <2>1, <2>7 DEF TakenBy, Keeps, Fills, Hears
  <2> QED BY <1>2, <2>3, <2>4, <2>5, <2>6, <2>7 DEF Handled
<1>8. CASE OpenedBy(s, m, o)
  <2>1. /\ m.flags = {"SYN"} /\ t.state = "SYN_RECEIVED" /\ t.una = s.una
        /\ t.ack = m.seq + 1 /\ Keeps(s, t)
    BY <1>8 DEF OpenedBy
  <2> PICK a : o.sent = <<a>> /\ Answer(a, {"SYN", "ACK"}, s.cseq, m.seq + 1)
    BY <1>8 DEF OpenedBy
  <2>2. t.ack = 1 /\ a.ack = 1 /\ a.flags = {"SYN", "ACK"}
    BY <2>1 DEF Fits, Answer
  <2>3. t.buf = FALSE /\ t.got = s.got
    BY <1>1, <1>3, <2>1 DEF Proper, Keeps, Typed
  <2>4. AcksWell(t, p) /\ Has(t, 0)
    BY <1>4, <2>2, HasNone
  <2>5. Gains(s, t, p)
    BY <1>4, <1>h, <2>3, <2>4 DEF Gains
  <2>6. Streams(t, p)
    BY <1>7, <2>1, <2>2, <2>3 DEF Streams
  <2>7. Carries(p, t, a)
    BY <1>4, <2>2, <2>4, FlagsDiffer DEF Carries
  <2> QED BY <1>5, <2>5, <2>6, <2>7 DEF Streamed
<1>9. CASE EstablishedBy(s, m, o)
  <2>1. /\ m.ack = s.cseq + 1 /\ t.una = m.ack - s.caux
        /\ t.state = "ESTABLISHED" /\ t.buf /\ t.held = {} /\ t.got = s.got /\ t.ack = t.rcv
        /\ \/ s.state = "SYN_SENT" /\ m.flags = {"SYN", "ACK"} /\ t.rcv = m.seq + 1
           \/ /\ s.state = "SYN_RECEIVED" /\ t.rcv = Acks(s) /\ o.sent = <<>>
              /\ m.flags \in {{"SYN", "ACK"}, {"ACK"}}
    BY <1>9 DEF EstablishedBy
  <2>2. \/ o.sent = <<>>
        \/ \E a : o.sent = <<a>> /\ Answer(a, {"ACK"}, s.cseq + 1, m.seq + 1)
    BY <1>9 DEF EstablishedBy
  <2>3. AcksWell(p, s) /\ (m.flags = {"SYN", "ACK"} => m.seq = 0)
    BY <2>1 DEF Fits, Carries
  <2>4. s.cseq = 0 /\ s.caux = 1
    BY <2>1 DEF Proper
  <2>5. t.rcv = 1 /\ t.ack = 1 /\ t.una = 0
    BY <1>4, <2>1, <2>3, <2>4 DEF Streams
  <2>6. AcksWell(t, p) /\ Has(t, 0) /\ Has(p, 0)
    BY <1>4, <2>5, HasNone
  <2>7. Gains(s, t, p)
    BY <1>4, <1>h, <2>1, <2>6 DEF Gains
  <2>8. AcksWell(p, t)
    BY <1>1, <1>4, <2>3, <2>7, GainsFrom
  <2>9. Streams(t, p)
    BY <1>1, <1>4, <2>1, <2>5, <2>6, <2>8 DEF Streams
  <2>10. ASSUME NEW a, o.sent = <<a>>, Answer(a, {"ACK"}, s.cseq + 1, m.seq + 1)
         PROVE  Carries(p, t, a)
    <3>1. a.flags = {"ACK"} /\ a.seq = 1 /\ a.ack = m.seq + 1
      BY <2>4, <2>10 DEF Answer
    <3>2. s.state = "SYN_SENT" => a.ack = 1
      BY <2>1, <2>3, <3>1
    <3>3. s.state = "SYN_SENT"
      BY <2>1, <2>10
    <3>4. a.ack \in 1 .. 1 + p.nxt /\ Has(t, a.ack - 1) /\ a.seq <= 1 + t.nxt
      BY <1>1, <1>4, <2>6, <3>1, <3>2, <3>3
    <3>5. p.caux = 1 /\ t.caux = 1
      BY <1>h, <2>1, <2>4, <3>3 DEF Fits, Begun, HearsOn
    <3> QED BY <2>6, <2>8, <3>1, <3>4, <3>5 DEF Carries
  <2> QED BY <1>5, <1>6, <2>2, <2>7, <2>9, <2>10 DEF Streamed
<1>10. CASE ResetBy(s, m, o)
  <2>1. /\ t.state = "CLOSED" /\ Keeps(s, t)
        /\ t.una = s.una \/ (m.flags = {"ACK"} /\ t.una = m.ack - s.caux)
        /\ \/ t.ack = s.ack
           \/ m.flags = {"SYN", "ACK"} /\ t.ack = m.seq + 1
    BY <1>4, <1>10 DEF ResetBy
  <2> PICK a : o.sent = <<a>> /\ a.flags = {"RST"} /\ a.byte = NoByte
    BY <1>10 DEF ResetBy
  <2>2. t.ack = s.ack \/ t.ack = 1
    BY <2>1 DEF Fits
  <2>3. t.una \in 0 .. t.nxt /\ Has(p, t.una)
    <3>1. ASSUME m.flags = {"ACK"} PROVE m.ack - s.caux \in 0 .. t.nxt /\ Has(p, m.ack - s.caux)
      <4>1. s.caux = 1
        BY <3>1 DEF Fits, Begun
      <4>2. m.ack \in 1 .. 1 + s.nxt /\ Has(p, m.ack - 1)
        BY <3>1 DEF Carries
      <4> QED BY <1>1, <1>4, <4>1, <4>2
    <3> QED BY <1>7, <2>1, <3>1
  <2>4. Streams(t, p) /\ Gains(s, t, p)
    BY <1>1, <1>4, <1>h, <2>1, <2>2, <2>3, KeepsStreams
  <2>5. Carries(p, t, a)
    BY FlagsDiffer DEF Carries
  <2> QED BY <1>5, <2>4, <2>5 DEF Streamed
<1>11. CASE EndedBy(s, m, o)
  <2>1. /\ t.state \in {"LISTEN", "CLOSED"} /\ Keeps(s, t) /\ t.una = s.una
        /\ t.ack = s.ack /\ o.sent = <<>>
    BY <1>4, <1>11 DEF EndedBy
  <2>2. Streams(t, p) /\ Gains(s, t, p)
    BY <1>1, <1>4, <1>7, <1>h, <2>1, KeepsStreams
  <2> QED BY <1>6, <2>1, <2>2 DEF Streamed
<1>12. CASE TakenBy(s, m, o)
  <2>1. /\ m.flags = {"ACK"} /\ t.state # "SYN_RECEIVED"
        /\ t.una = m.ack - s.caux /\ t.ack = Acks(t)
        /\ \/ Keeps(s, t) /\ t.ack = s.ack
           \/ m.byte # NoByte /\ Fills(s, t, {m.seq}, m.byte)
           \/ m.byte = NoByte /\ s.buf /\ m.seq = s.rcv + Window
    BY <1>4, <1>12 DEF TakenBy, Fills
  <2>2. \/ o.sent = <<>>
        \/ \E a : o.sent = <<a>> /\ Answer(a, {"ACK"}, s.cseq + s.nxt, t.ack)
    BY <1>12 DEF TakenBy
  <2>3. s.caux = 1
    BY <2>1 DEF Fits, Begun
  <2>4. /\ m.ack \in 1 .. 1 + s.nxt /\ Has(p, m.ack - 1)
        /\ AcksWell(p, s) /\ AcksWell(s, p) /\ m.seq <= 1 + p.nxt
    BY <2>1 DEF Carries
  <2>5. t.una \in 0 .. t.nxt /\ Has(p, t.una)
    BY <1>1, <1>4, <2>1, <2>3, <2>4
  <2>6. ~ (m.byte = NoByte /\ s.buf /\ m.seq = s.rcv + Window)
    <3>1. p.nxt <= Available /\ Available \in Nat /\ Window \in Nat
      BY ConnectionAssumption, SocketAssumption DEF Proper
    <3>2. s.buf => s.rcv >= 1 /\ s.rcv \in Nat
      BY <1>4 DEF Proper, Typed
    <3>3. CASE Available < Window
      BY <1>4, <2>4, <3>1, <3>2, <3>3
    <3>4. CASE p.passive
      <4>1. p.nxt = 0
        BY <3>4 DEF Proper
      <4> QED BY <1>4, <2>4, <3>2, <4>1, SocketAssumption
    <3>5. CASE s.passive
      <4>1. m.byte = NoByte /\ s.buf => m.seq <= 1
        BY <2>1, <3>5 DEF Carries, Hears
      <4> QED BY <1>4, <3>2, <4>1, SocketAssumption
    <3> QED BY <3>3, <3>4, <3>5
  <2>7. Streams(t, p) /\ Gains(s, t, p)
    <3>1. CASE Keeps(s, t) /\ t.ack = s.ack
      BY <1>1, <1>4, <1>h, <2>1, <2>5, <3>1, KeepsStreams
    <3>2. CASE m.byte # NoByte /\ Fills(s, t, {m.seq}, m.byte)
      <4> PICK byte : byte = m.byte
        OBVIOUS
      <4>1. byte \in 0 .. p.nxt - 1 /\ m.seq = 1 + byte
        BY <3>2 DEF Fits
      <4>2. t.ack = t.rcv
        BY <2>1, <3>2 DEF Fills, Acks
      <4>3. Fills(s, t, {1 + byte}, byte)
        BY <3>2, <4>1
      <4> QED BY <1>1, <1>4, <1>h, <2>1, <2>5, <4>1, <4>2, <4>3, FillsStreams
    <3> QED BY <2>1, <2>6, <3>1, <3>2
  <2>8. AcksWell(t, p) /\ AcksWell(p, t)
    BY <1>1, <1>4, <2>4, <2>7, GainsFrom DEF Gains
  <2>9. ASSUME NEW a, o.sent = <<a>>, Answer(a, {"ACK"}, s.cseq + s.nxt, t.ack)
        PROVE  Carries(p, t, a)
    <3>1. a.flags = {"ACK"} /\ a.seq = s.cseq + s.nxt /\ a.ack = t.ack
      BY <2>9 DEF Answer
    <3>2. s.cseq \in Nat /\ s.cseq <= 1
      BY <1>4, <2>3 DEF Proper, Typed
    <3>3. a.seq <= 1 + t.nxt
      BY <1>1, <1>4, <3>1, <3>2
    <3>4. p.caux = 1 /\ t.caux = 1
      BY <1>h, <2>1, <2>3 DEF Fits, Begun, HearsOn
    <3>5. ASSUME a.seq = 0 PROVE ~ Hears(t)
      <4>1. s.cseq = 0
        BY <1>4, <3>1, <3>2, <3>5
      <4>2. ~ s.buf
        BY <4>1 DEF Proper
      <4>3. ~ t.buf /\ t.state # "SYN_RECEIVED"
        BY <1>12, <2>1, <4>2 DEF TakenBy, Keeps, Fills
      <4> QED BY <4>3 DEF Hears
    <3>6. ~ Hears(p)
      <4> SUFFICES ASSUME Hears(p) PROVE FALSE
        OBVIOUS
      <4>1. p.nxt = 0
        BY DEF Hears, Proper
      <4>2. m.byte = NoByte
        BY <4>1 DEF Fits
      <4>3. m.seq <= 1 /\ m.seq # 0 /\ m.seq \in Nat
        BY <2>1, <2>4, <4>1 DEF Carries, Fits, IsSegment
      <4>4. s.ack = 1
        BY <2>4, <4>1 DEF AcksWell
      <4>5. ~ Prompts(s, m)
        BY <1>4, <4>2, <4>3, <4>4 DEF Prompts
      <4>6. o.sent = <<>>
        BY <1>12, <4>5 DEF TakenBy
      <4>7. <<a>> # <<>>
        OBVIOUS
      <4> QED BY ONLY <2>9, <4>6, <4>7
    <3> QED BY <2>8, <3>1, <3>3, <3>4, <3>5, <3>6 DEF Carries, AcksWell
  <2> QED BY <1>5, <1>6, <2>2, <2>7, <2>9 DEF Streamed
<1> QED BY <1>2, <1>8, <1>9, <1>10, <1>11, <1>12 DEF Handled

LEMMA TickedStreams ==
    ASSUME NEW s, NEW p, Proper(s), Proper(p), Knows(s, p), s.state # "NONE",
           Streams(s, p), NEW o \in Ticked(s, Available)
    PROVE  Streamed(s, p, o)
<1> PICK t : t = o.sock
  OBVIOUS
<1>0. Available \in Nat
  BY ConnectionAssumption
<1>1. /\ Typed(t) /\ InStep(t) /\ t.state = s.state
      /\ t.cseq = s.cseq /\ t.rcv = s.rcv /\ t.buf = s.buf
      /\ t.caux = s.caux /\ t.passive = s.passive
      /\ t.una = s.una /\ t.got = s.got /\ t.held = s.held
      /\ (~ s.buf => t.ack = s.ack)
      /\ t.nxt = s.nxt \/ t.nxt = s.nxt + 1
      /\ \A i \in DOMAIN o.sent :
            \E k \in s.timers \cup {s.nxt} :
               /\ k < t.nxt /\ AckFits(t, o.sent[i])
               /\ o.sent[i].flags = {"ACK"} /\ o.sent[i].seq = s.cseq + k
               /\ o.sent[i].byte = k
  BY <1>0, TickedSound DEF Proper
<1>2. Proper(t)
  BY TickedServes DEF Served
<1>3. /\ Typed(s) /\ Typed(p) /\ s.nxt \in Nat /\ t.nxt \in Nat /\ t.nxt >= s.nxt
      /\ p.nxt \in Nat /\ t.ack = s.ack
  BY <1>1, <1>2, AcksIs DEF Proper, Typed
<1>4. (AcksWell(s, p) => AcksWell(t, p)) /\ (Has(s, s.rcv - 1) => Has(t, t.rcv - 1))
  BY <1>1, <1>3 DEF AcksWell, Has
<1>5. Gains(s, t, p)
  BY <1>1, <1>3, <1>4 DEF Gains, HearsOn, Hears
<1>6. AcksWell(p, s) => AcksWell(p, t)
  BY <1>1, <1>3, <1>5, GainsFrom
<1>7. t.una \in 0 .. t.nxt
  BY <1>1, <1>3 DEF Streams
<1>8. Streams(t, p)
  BY <1>1, <1>3, <1>4, <1>6, <1>7 DEF Streams
<1>9. ASSUME NEW i \in DOMAIN o.sent PROVE Carries(p, t, o.sent[i])
  <2> PICK a : a = o.sent[i]
    OBVIOUS
  <2> PICK k \in s.timers \cup {s.nxt} :
               /\ k < t.nxt /\ AckFits(t, a)
               /\ a.flags = {"ACK"} /\ a.seq = s.cseq + k /\ a.byte = k
    BY <1>1
  <2>1. k \in Nat /\ t.nxt > 0
    BY <1>3 DEF Typed
  <2>2. t.buf /\ t.state # "SYN_RECEIVED" /\ t.state \notin Halves /\ t.cseq = 1
    BY <1>2, <2>1 DEF Proper, Early, Halves, Connected
  <2>3. a.ack = t.ack
    BY <1>2, <2>2, AcksIs DEF AckFits
  <2>4. AcksWell(t, p) /\ AcksWell(p, t)
    BY <1>8, <2>2 DEF Streams
  <2>5. a.seq <= 1 + t.nxt
    BY <1>1, <1>3, <2>1, <2>2
  <2>6. s.caux = 1 /\ p.caux = 1
    BY <1>1, <2>2 DEF Knows, Begun
  <2>7. a.seq # 0 /\ a.byte # NoByte
    BY <1>1, <2>1, <2>2 DEF NoByte
  <2>8. t.caux = 1
    BY <1>1, <2>6
  <2> QED BY <2>3, <2>4, <2>5, <2>6, <2>7, <2>8 DEF Carries, AcksWell
<1> QED BY <1>5, <1>8, <1>9 DEF Streamed

Flows == \A h \in Hosts : Flow(sock[h], sock[Peer(h)], net[h])

LEMMA FlowsInit == Init => Flows
<1> SUFFICES ASSUME Init, NEW h \in Hosts PROVE Flow(sock[h], sock[Peer(h)], net[h])
  BY DEF Flows
<1>1. sock[h] = NoSocket /\ sock[Peer(h)] = NoSocket /\ net[h] = <<>>
  BY TwoHosts DEF Init
<1>2. Streams(NoSocket, NoSocket)
  BY NoSocketIs, HasNone DEF Streams
<1> QED BY <1>1, <1>2 DEF Flow

(* The side of the host that moves, and that of its peer.                  *)
LEMMA FlowKept ==
    ASSUME NEW s, NEW p, NEW q, Flow(s, p, q), Typed(s), Typed(p),
           NEW t, Typed(t), Streams(t, p), Gains(s, t, p), NEW r, Thins(q, r)
    PROVE  Flow(t, p, r)
<1>1. ASSUME NEW i \in DOMAIN r PROVE Carries(t, p, r[i])
  <2> PICK j \in DOMAIN q : r[i] = q[j]
    BY DEF Thins
  <2>1. Carries(s, p, r[i])
    BY DEF Flow
  <2> QED BY <2>1, GainsFrom
<1> QED BY <1>1 DEF Flow

LEMMA FlowSent ==
    ASSUME NEW s, NEW p, NEW w, Flow(p, s, w), IsQueue(w), Typed(s), Typed(p),
           \A i \in DOMAIN w : IsSegment(w[i]),
           NEW t, Typed(t), Gains(s, t, p), NEW sent, IsQueue(sent),
           \A i \in DOMAIN sent : Carries(p, t, sent[i])
    PROVE  Flow(p, t, w \o sent)
<1> PICK r : r = w \o sent
  OBVIOUS
<1>1. \A i \in DOMAIN r :
         \/ i \in DOMAIN w /\ r[i] = w[i]
         \/ i - Len(w) \in DOMAIN sent /\ r[i] = sent[i - Len(w)]
  BY JoinIs
<1>2. ASSUME NEW i \in DOMAIN r PROVE Carries(p, t, r[i])
  <2>1. CASE i \in DOMAIN w /\ r[i] = w[i]
    <3>1. IsSegment(r[i]) /\ Carries(p, s, r[i])
      BY <2>1 DEF Flow
    <3> QED BY <3>1, GainsFrom
  <2>2. CASE i - Len(w) \in DOMAIN sent /\ r[i] = sent[i - Len(w)]
    BY <2>2
  <2> QED BY <1>1, <2>1, <2>2
<1>3. Streams(p, t)
  BY GainsFrom DEF Flow
<1> QED BY <1>2, <1>3 DEF Flow

(* Who has called has called for good.                                     *)
Runs(s) == s.state # "NONE" /\ ~ s.passive

LEMMA RunsOn ==
    ASSUME NEW s, NEW p, Proper(s), Runs(s), NEW o, Served(s, p, o)
    PROVE  Runs(o.sock)
<1>1. s.caux = 1
  BY DEF Proper, Runs
<1> QED BY <1>1 DEF Served, Goes, Runs

LEMMA BothCalled ==
    ASSUME Tables, Sides, Simultaneous, Next
    PROVE  Simultaneous'
<1> PICK h \in Hosts : \/ Connect(h) \/ Listen(h)
                       \/ Deliver(h) \/ Unknown(h) \/ Tick(h) \/ Lose(h)
  BY DEF Next
<1> PICK s, p : s = sock[h] /\ p = sock[Peer(h)]
  OBVIOUS
<1> PICK q : q = net[h]
  OBVIOUS
<1>0. /\ Side(s, p, q) /\ Proper(p) /\ Knows(p, s)
      /\ Peer(h) \in Hosts /\ Peer(Peer(h)) = h
      /\ \A g \in Hosts : g = h \/ g = Peer(h)
  BY TwoHosts DEF Sides, Side
<1>1. Proper(s) /\ Knows(s, p) /\ Runs(s) /\ Runs(p) /\ IsQueue(q)
  BY <1>0 DEF Side, Simultaneous, Active, Runs
<1>2. SUFFICES Runs(sock'[h]) /\ Runs(sock'[Peer(h)])
  BY <1>0 DEF Simultaneous, Active, Runs
<1>3. ~ Connect(h) /\ ~ Listen(h)
  BY <1>1 DEF Connect, Listen, Idle, Runs
<1>4. CASE Deliver(h)
  <2>m. PICK m : m = Head(q)
    OBVIOUS
  <2>o. PICK o \in Received(s, m) : Receives(h, o)
    BY <1>4, <2>m DEF Deliver
  <2>1. q # <<>> /\ Accepts(s, m)
    BY <1>4, <2>m DEF Deliver
  <2>2. Fits(s, p, m)
    BY <1>0, <1>1, <2>1, <2>m, QueueIs DEF Side
  <2>3. Served(s, p, o)
    BY <1>0, <1>1, <2>o, <2>1, <2>2, ReceivedServes
  <2> QED BY <1>1, <2>o, <2>3, RunsOn, ReceivesIs
<1>5. CASE Tick(h)
  <2>o. PICK o \in Ticked(s, Available) : Becomes(h, o)
    BY <1>5 DEF Tick
  <2>3. Served(s, p, o)
    BY <1>1, <2>o, TickedServes DEF Runs
  <2> QED BY <1>1, <2>o, <2>3, RunsOn, BecomesIs
<1>6. CASE Unknown(h) \/ Lose(h)
  BY <1>1, <1>6, DropsIs DEF Drops
<1> QED BY <1>3, <1>4, <1>5, <1>6

(* What the stream needs: one of the two did not call, or a host's units   *)
(* fit in a window.                                                        *)
OneWay == Available < Window \/ ~ Simultaneous

LEMMA FlowsNext ==
    ASSUME OneWay, Tables, Sides, Flows, Next
    PROVE  Flows'
<1> PICK h \in Hosts : \/ Connect(h) \/ Listen(h)
                       \/ Deliver(h) \/ Unknown(h) \/ Tick(h) \/ Lose(h)
  BY DEF Next
<1> PICK s, p : s = sock[h] /\ p = sock[Peer(h)]
  OBVIOUS
<1> PICK q, w : q = net[h] /\ w = net[Peer(h)]
  OBVIOUS
<1>0. /\ Flow(s, p, q) /\ Flow(p, s, w) /\ Side(s, p, q) /\ Side(p, s, w)
      /\ Peer(h) \in Hosts /\ Peer(Peer(h)) = h
      /\ \A g \in Hosts : g = h \/ g = Peer(h)
  BY TwoHosts DEF Sides, Flows
<1>1. ASSUME NEW t, NEW r, NEW x, sock'[h] = t, sock'[Peer(h)] = p,
             net'[h] = r, net'[Peer(h)] = x, Flow(t, p, r), Flow(p, t, x)
      PROVE  Flows'
  <2>1. ASSUME NEW g \in Hosts PROVE Flow(sock'[g], sock'[Peer(g)], net'[g])
    BY <1>0, <1>1
  <2> QED BY <2>1 DEF Flows
<1>2. /\ Proper(s) /\ Proper(p) /\ Knows(s, p) /\ Knows(p, s) /\ IsQueue(q) /\ IsQueue(w)
      /\ \A i \in DOMAIN w : IsSegment(w[i])
      /\ Streams(s, p) /\ Streams(p, s) /\ Typed(s) /\ Typed(p)
  BY <1>0 DEF Side, Fits, Flow, Proper
<1>3. Thins(q, q)
  <2>1. IsQueue(q) /\ \A i \in DOMAIN q : i \in Nat /\ i >= i
    BY <1>2, QueueIs
  <2> QED BY <2>1 DEF Thins
<1>4. ASSUME NEW o, Streamed(s, p, o), Proper(o.sock), IsQueue(o.sent),
             NEW r, Thins(q, r)
      PROVE  Flow(o.sock, p, r) /\ Flow(p, o.sock, w \o o.sent)
  <2>1. /\ Typed(o.sock) /\ Streams(o.sock, p) /\ Gains(s, o.sock, p)
        /\ \A i \in DOMAIN o.sent : Carries(p, o.sock, o.sent[i])
    BY <1>4 DEF Streamed, Proper
  <2>2. Flow(o.sock, p, r)
    BY <1>0, <1>2, <1>4, <2>1, FlowKept
  <2>3. Flow(p, o.sock, w \o o.sent)
    BY <1>0, <1>2, <1>4, <2>1, FlowSent
  <2> QED BY <2>2, <2>3
<1>5. ASSUME NEW o, s.state = "NONE", o.sock.got = {}, o.sock.una = 0, o.sock.buf = FALSE,
             o.sock.state \in {"SYN_SENT", "LISTEN"}, Proper(o.sock),
             \A i \in DOMAIN o.sent : o.sent[i].flags = {"SYN"}
      PROVE  Streamed(s, p, o)
  <2>1. s.got = {} /\ s.nxt = 0 /\ s.ack = 0
    BY <1>2, <1>5, NoSocketIs DEF Proper, NoSocket, NewSocket
  <2>2. ~ AcksWell(s, p)
    BY <2>1 DEF AcksWell
  <2>3. Gains(s, o.sock, p)
    <3>1. s.caux = 0
      BY <1>2, <1>5, NoSocketIs DEF Proper
    <3> QED BY <1>5, <2>1, <2>2, <3>1 DEF Gains, HearsOn, Proper, Typed
  <2>4. Streams(o.sock, p)
    <3>1. o.sock.nxt \in Nat
      BY <1>5 DEF Proper, Typed
    <3> QED BY <1>5, <3>1, HasNone DEF Streams
  <2>5. \A i \in DOMAIN o.sent : Carries(p, o.sock, o.sent[i])
    BY <1>5, FlagsDiffer DEF Carries
  <2> QED BY <2>3, <2>4, <2>5 DEF Streamed
<1>6. CASE Connect(h)
  <2>o. PICK o \in Connecting : Becomes(h, o)
    BY <1>6 DEF Connect
  <2>1. s.state = "NONE"
    BY <1>6 DEF Connect, Idle
  <2>2. /\ Proper(o.sock) /\ o.sock.state = "SYN_SENT"
        /\ o.sock.got = {} /\ o.sock.buf = FALSE /\ o.sock.una = 0
    BY ONLY <1>2, <2>o, <2>1, ConnectServes
  <2>3. IsQueue(o.sent)
    BY ONLY <1>2, <2>o, <2>1, ConnectServes
  <2>4. DOMAIN o.sent = {1}
    BY ONLY <1>2, <2>o, <2>1, ConnectServes
  <2>5. o.sent[1].flags = {"SYN"}
    BY ONLY <1>2, <2>o, <2>1, ConnectServes
  <2>6. Streamed(s, p, o)
    BY <1>5, <2>1, <2>2, <2>4, <2>5
  <2>7. Flow(o.sock, p, q) /\ Flow(p, o.sock, w \o o.sent)
    BY <1>3, <1>4, <2>2, <2>3, <2>6
  <2> QED BY <1>1, <2>o, <2>7, BecomesIs
<1>7. CASE Listen(h)
  <2>o. PICK o \in Listening : Becomes(h, o)
    BY <1>7 DEF Listen
  <2>1. s.state = "NONE"
    BY <1>7 DEF Listen, Idle
  <2>2. /\ Proper(o.sock) /\ o.sock.state = "LISTEN" /\ o.sent = <<>>
        /\ o.sock.got = {} /\ o.sock.buf = FALSE /\ o.sock.una = 0
    BY ONLY <1>2, <2>o, <2>1, ListenServes
  <2>3. IsQueue(o.sent) /\ DOMAIN o.sent = {}
    BY <2>2, ShortQueues
  <2>6. Streamed(s, p, o)
    BY <1>5, <2>1, <2>2, <2>3
  <2>7. Flow(o.sock, p, q) /\ Flow(p, o.sock, w \o o.sent)
    BY <1>3, <1>4, <2>2, <2>3, <2>6
  <2> QED BY <1>1, <2>o, <2>7, BecomesIs
<1>8. CASE Deliver(h)
  <2>m. PICK m : m = Head(q)
    OBVIOUS
  <2>o. PICK o \in Received(s, m) : Receives(h, o)
    BY <1>8, <2>m DEF Deliver
  <2>1. q # <<>> /\ Accepts(s, m)
    BY <1>8, <2>m DEF Deliver
  <2>2. Fits(s, p, m) /\ Carries(s, p, m)
    BY <1>0, <1>2, <2>1, <2>m, QueueIs DEF Side, Flow
  <2>3. Proper(o.sock) /\ IsQueue(o.sent)
    BY <1>2, <2>o, <2>1, <2>2, ReceivedServes DEF Served
  <2>7. Available < Window \/ s.passive \/ p.passive
    <3>1. s.state # "NONE"
      BY <1>2, <2>1, NoSocketIs DEF Proper, Accepts
    <3>2. p.state # "NONE"
      BY <1>0, <2>1 DEF Side
    <3> QED BY <1>0, <3>1, <3>2 DEF OneWay, Simultaneous, Active
  <2>4. Streamed(s, p, o)
    BY <1>2, <2>o, <2>1, <2>2, <2>7, ReceivedStreams
  <2>5. Thins(q, Tail(q))
    BY <1>2, <2>1, TailThins
  <2>6. Flow(o.sock, p, Tail(q)) /\ Flow(p, o.sock, w \o o.sent)
    BY <1>4, <2>3, <2>4, <2>5
  <2> QED BY <1>1, <2>o, <2>6, ReceivesIs
<1>9. CASE Tick(h)
  <2>o. PICK o \in Ticked(s, Available) : Becomes(h, o)
    BY <1>9 DEF Tick
  <2>1. s.state # "NONE"
    BY <1>9 DEF Tick, Idle
  <2>2. Proper(o.sock) /\ IsQueue(o.sent)
    BY <1>2, <2>o, <2>1, TickedServes DEF Served
  <2>3. Streamed(s, p, o)
    BY <1>2, <2>o, <2>1, TickedStreams
  <2>4. Flow(o.sock, p, q) /\ Flow(p, o.sock, w \o o.sent)
    BY <1>3, <1>4, <2>2, <2>3
  <2> QED BY <1>1, <2>o, <2>4, BecomesIs
<1>10. CASE Unknown(h) \/ Lose(h)
  <2>1. Drops(h)
    BY <1>10, DropsIs
  <2>2. Thins(q, net'[h])
    BY <1>2, <2>1, TailThins, RemoveThins DEF Drops
  <2>3. Gains(s, s, p)
    BY <1>2 DEF Gains, HearsOn, Typed
  <2>4. Flow(s, p, net'[h])
    BY <1>0, <1>2, <2>2, <2>3, FlowKept
  <2> QED BY <1>0, <1>1, <2>1, <2>4 DEF Drops
<1> QED BY <1>6, <1>7, <1>8, <1>9, <1>10

LEMMA FlowsAlways == Spec => [](Tables /\ Sides /\ (OneWay => Flows))
<1>1. Tables /\ Sides /\ (OneWay => Flows) /\ [Next]_vars => (OneWay => Flows)'
  <2> SUFFICES ASSUME Tables, Sides, OneWay => Flows, [Next]_vars, OneWay'
               PROVE  Flows'
    OBVIOUS
  <2>1. CASE Next
    <3>1. OneWay
      BY <2>1, BothCalled DEF OneWay
    <3> QED BY <2>1, <3>1, FlowsNext
  <2>2. CASE UNCHANGED vars
    BY <2>2 DEF vars, Flows, OneWay, Simultaneous, Active
  <2> QED BY <2>1, <2>2
<1>2. Init => (OneWay => Flows)
  BY FlowsInit
<1> QED BY <1>1, <1>2, SidesAlways, PTL DEF Spec

(* A unit is stored where its sender put it, and nothing else is, in every *)
(* opening where only one host called, for any number of units.  Two that  *)
(* both called and send may break it: an empty segment of a host that has  *)
(* a whole window on its way starts where the window ends, and tcp.cpp 456 *)
(* to 467 stores a whole window of what it does not contain.  They do not  *)
(* if all that each sends is less than a window.                           *)
THEOREM UnitsAreStoredInPlace ==
    Spec => []((Available < Window \/ ~ Simultaneous) => StoredInPlace)
<1>1. Tables /\ Sides /\ (OneWay => Flows)
         => ((Available < Window \/ ~ Simultaneous) => StoredInPlace)
  <2> SUFFICES ASSUME Tables, Sides, Flows PROVE StoredInPlace
    BY DEF OneWay
  <2>1. ASSUME NEW h \in Hosts, NEW g \in sock[h].got PROVE g[1] = 1 + g[2]
    <3> PICK o \in 0 .. sock[Peer(h)].nxt - 1 : g = <<1 + o, o>>
      BY DEF Flows, Flow, Streams
    <3> QED OBVIOUS
  <2> QED BY <2>1, SidesTypes DEF StoredInPlace
<1> QED BY <1>1, FlowsAlways, PTL

(* What a host takes for acknowledged its peer has stored: no unit is      *)
(* forgotten that may still be needed (CheckTimers), whatever is lost and  *)
(* in the same cases.                                                      *)
THEOREM AcknowledgedUnitsAreStored ==
    Spec => []((Available < Window \/ ~ Simultaneous) => AcknowledgedIsStored)
<1>1. Tables /\ Sides /\ (OneWay => Flows)
         => ((Available < Window \/ ~ Simultaneous) => AcknowledgedIsStored)
  <2> SUFFICES ASSUME Sides, Flows, NEW h \in Hosts
               PROVE  /\ sock[h].una <= sock[h].nxt
                      /\ \A o \in 0 .. sock[h].una - 1 : <<1 + o, o>> \in sock[Peer(h)].got
    BY DEF AcknowledgedIsStored, OneWay
  <2>1. Streams(sock[h], sock[Peer(h)]) /\ Typed(sock[h])
    BY DEF Flows, Flow, Sides, Side, Proper
  <2> QED BY <2>1 DEF Streams, Has, Typed
<1> QED BY <1>1, FlowsAlways, PTL

-----------------------------------------------------------------------------
(* An opening that goes well                                               *)

All(q, flags) == \A i \in DOMAIN q : q[i].flags = flags

SynAck1(m) == m.flags = {"SYN", "ACK"} /\ m.ack = 1

Ack1(m) == m.flags = {"ACK"} /\ m.ack = 1

(* One segment is sent.                                                    *)
Sends(o, flags) ==
    /\ IsQueue(o.sent) /\ Len(o.sent) = 1
    /\ o.sent[1].flags = flags /\ o.sent[1].ack = 1

SendsNone(o) == IsQueue(o.sent) /\ Len(o.sent) = 0

Same(s, t) == t.passive = s.passive /\ t.simultaneous_open = s.simultaneous_open

(* What becomes of a socket that gets what it waits for.                   *)
LEMMA ExpectedIs ==
    ASSUME ~ MallocFails,
           NEW s, NEW p, NEW m, Proper(s), Proper(p), Knows(s, p), Knows(p, s),
           Fits(s, p, m), Accepts(s, m), NEW o \in Received(s, m)
    PROVE  /\ s.state = "LISTEN" /\ m.flags = {"SYN"} =>
                 o.sock.state = "SYN_RECEIVED" /\ Same(s, o.sock) /\ Sends(o, {"SYN", "ACK"})
           /\ s.state = "SYN_SENT" /\ m.flags = {"SYN"} =>
                 /\ o.sock.state = "SYN_RECEIVED" /\ o.sock.passive = s.passive
                 /\ o.sock.simultaneous_open /\ Sends(o, {"SYN", "ACK"})
           /\ s.state = "SYN_SENT" /\ SynAck1(m) =>
                 /\ o.sock.state = "ESTABLISHED" /\ Same(s, o.sock) /\ o.sock.rcv = 1
                 /\ Sends(o, {"ACK"})
           /\ /\ s.state = "SYN_RECEIVED"
              /\ s.simultaneous_open => SynAck1(m)
              /\ ~ s.simultaneous_open => Ack1(m)
              => o.sock.state = "ESTABLISHED" /\ Same(s, o.sock) /\ SendsNone(o)
           /\ s.state = "ESTABLISHED" /\ m.flags = {"ACK"} =>
                 /\ o.sock.state = "ESTABLISHED" /\ Same(s, o.sock)
                 /\ IsQueue(o.sent) /\ All(o.sent, {"ACK"})
<1> PICK t : t = o.sock
  OBVIOUS
<1>1. t.passive = s.passive
  BY ReceivedMoves DEF Proper, Moves, Typed
<1>2. Handled(s, m, o)
  BY ReceivedPlain DEF Proper, Fits
<1>3. IsQueue(o.sent)
  BY ReceivedServes DEF Served
<1>4. Acks(s) = s.ack
  BY AcksIs
<1>5. ASSUME NEW a, o.sent = <<a>> PROVE Len(o.sent) = 1 /\ o.sent[1] = a /\ DOMAIN o.sent = {1}
  BY <1>5
<1>6. ASSUME o.sent = <<>> PROVE SendsNone(o) /\ DOMAIN o.sent = {}
  BY <1>3, <1>6 DEF SendsNone
<1>7. ASSUME s.state \in {"LISTEN", "SYN_SENT"}, m.flags = {"SYN"}
      PROVE  /\ t.state = "SYN_RECEIVED" /\ Sends(o, {"SYN", "ACK"})
             /\ s.state = "LISTEN" => Same(s, t)
             /\ s.state = "SYN_SENT" => t.simultaneous_open
  <2>1. OpenedBy(s, m, o)
    BY <1>2, <1>7, FlagsDiffer DEF Handled, EstablishedBy, ResetBy, Refuses, EndedBy, TakenBy
  <2> PICK a : o.sent = <<a>> /\ Answer(a, {"SYN", "ACK"}, s.cseq, m.seq + 1)
    BY <2>1 DEF OpenedBy
  <2>2. a.ack = 1 /\ a.flags = {"SYN", "ACK"}
    BY <1>7 DEF Fits, Answer
  <2>3. Sends(o, {"SYN", "ACK"})
    BY <1>3, <1>5, <2>2 DEF Sends
  <2> QED BY <1>1, <2>1, <2>3 DEF OpenedBy, Same
<1>8. ASSUME s.state = "SYN_SENT", SynAck1(m)
      PROVE  /\ t.state = "ESTABLISHED" /\ Same(s, t) /\ t.rcv = 1
             /\ Sends(o, {"ACK"})
  <2>1. s.cseq = 0 /\ m.seq = 0 /\ m.ack = s.cseq + 1
    BY <1>8 DEF Proper, Fits, SynAck1
  <2>2. EstablishedBy(s, m, o)
    BY <1>2, <1>8, <2>1, FlagsDiffer
       DEF Handled, OpenedBy, ResetBy, Refuses, EndedBy, TakenBy, SynAck1
  <2>3. t.state = "ESTABLISHED" /\ t.rcv = 1 /\ Same(s, t)
    BY <1>1, <1>8, <2>1, <2>2 DEF EstablishedBy, Stays, Same
  <2> PICK a : o.sent = <<a>> /\ Answer(a, {"ACK"}, s.cseq + 1, m.seq + 1)
    BY <1>8, <2>2 DEF EstablishedBy
  <2>4. Sends(o, {"ACK"})
    BY <1>3, <1>5, <2>1 DEF Sends, Answer
  <2> QED BY <2>3, <2>4
<1>9. ASSUME s.state = "SYN_RECEIVED",
             s.simultaneous_open => SynAck1(m),
             ~ s.simultaneous_open => Ack1(m)
      PROVE  t.state = "ESTABLISHED" /\ Same(s, t) /\ SendsNone(o)
  <2>1. s.cseq = 0 /\ m.ack = s.cseq + 1 /\ m.flags \in {{"SYN", "ACK"}, {"ACK"}}
    BY <1>9 DEF Proper, SynAck1, Ack1
  <2>2. ~ Refuses(s, m)
    BY <1>9, <2>1, FlagsDiffer DEF Refuses, SynAck1, Ack1
  <2>3. EstablishedBy(s, m, o)
    BY <1>2, <1>9, <2>1, <2>2, FlagsDiffer DEF Handled, OpenedBy, ResetBy, EndedBy, TakenBy
  <2> QED BY <1>1, <1>6, <1>9, <2>3 DEF EstablishedBy, Stays, Same
<1>10. ASSUME s.state = "ESTABLISHED", m.flags = {"ACK"}
       PROVE  t.state = "ESTABLISHED" /\ Same(s, t) /\ All(o.sent, {"ACK"})
  <2>1. s.buf
    BY <1>10 DEF Proper
  <2>2. ~ Refuses(s, m)
    BY <1>10, <2>1, FlagsDiffer DEF Refuses
  <2>3. TakenBy(s, m, o)
    BY <1>2, <1>10, <2>2, FlagsDiffer DEF Handled, OpenedBy, ResetBy, EndedBy, EstablishedBy
  <2>4. \/ o.sent = <<>>
        \/ \E a : o.sent = <<a>> /\ a.flags = {"ACK"}
    BY <2>3 DEF TakenBy, Answer
  <2>5. All(o.sent, {"ACK"})
    BY <1>5, <1>6, <2>4 DEF All
  <2> QED BY <1>1, <1>10, <2>3, <2>5 DEF TakenBy, Stays, Same
<1> QED BY <1>1, <1>3, <1>7, <1>8, <1>9, <1>10

(* What a tick sends: nothing before the socket is ESTABLISHED, data then. *)
LEMMA TickedSends ==
    ASSUME NEW s, NEW p, Proper(s), Knows(s, p), s.state # "NONE",
           NEW o \in Ticked(s, Available)
    PROVE  /\ o.sock.state = s.state /\ Same(s, o.sock) /\ IsQueue(o.sent)
           /\ o.sock.caux = s.caux
           /\ s.state \in {"LISTEN", "SYN_SENT", "SYN_RECEIVED"} => Len(o.sent) = 0
           /\ All(o.sent, {"ACK"})
           /\ s.state = "ESTABLISHED" =>
                 /\ o.sock.rcv = s.rcv
                 /\ \A i \in DOMAIN o.sent : o.sent[i].ack = s.rcv
<1>0. Available \in Nat
  BY ConnectionAssumption
<1> PICK t : t = o.sock
  OBVIOUS
<1>1. /\ t.state = s.state /\ t.passive = s.passive /\ t.rcv = s.rcv /\ t.caux = s.caux
      /\ t.buf = s.buf /\ t.simultaneous_open = s.simultaneous_open /\ IsQueue(o.sent)
      /\ t.nxt = s.nxt \/ (Sending(s, Available) /\ t.nxt = s.nxt + 1)
      /\ \A i \in DOMAIN o.sent :
            \E k \in s.timers \cup {s.nxt} :
               /\ k < t.nxt /\ AckFits(t, o.sent[i]) /\ o.sent[i].flags = {"ACK"}
  BY <1>0, TickedSound DEF Proper
<1>2. ASSUME s.state \in {"LISTEN", "SYN_SENT", "SYN_RECEIVED"}
      PROVE  Len(o.sent) = 0
  <2>0. s.nxt = 0
    BY <1>2 DEF Proper, Typed
  <2>1. t.nxt = 0
    BY <1>1, <1>2, <2>0 DEF Sending
  <2>2. DOMAIN o.sent = {}
    <3> SUFFICES ASSUME NEW i \in DOMAIN o.sent PROVE FALSE
      OBVIOUS
    <3> PICK k \in s.timers \cup {s.nxt} : k < t.nxt
      BY <1>1
    <3>1. k \in Nat
      BY <2>0 DEF Proper, Typed
    <3> QED BY <2>1, <3>1
  <2>3. Len(o.sent) \in Nat /\ DOMAIN o.sent = 1 .. Len(o.sent)
    BY <1>1, QueueIs
  <2>4. Len(o.sent) > 0 => 1 \in 1 .. Len(o.sent)
    BY <2>3
  <2> QED BY <2>2, <2>3, <2>4
<1>3. ASSUME s.state = "ESTABLISHED", NEW i \in DOMAIN o.sent PROVE o.sent[i].ack = s.rcv
  <2>1. AckFits(t, o.sent[i]) /\ t.buf /\ t.state = "ESTABLISHED" /\ t.rcv = s.rcv
    BY <1>1, <1>3 DEF Proper
  <2> QED BY <2>1 DEF AckFits, Halves
<1>4. All(o.sent, {"ACK"})
  BY <1>1 DEF All
<1> QED BY <1>1, <1>2, <1>3, <1>4 DEF Same

(* x is put at the end of w.                                               *)
Joins(w, x, v) ==
    /\ Len(w) \in Nat /\ Len(x) \in Nat /\ Len(v) = Len(w) + Len(x)
    /\ DOMAIN w = 1 .. Len(w) /\ DOMAIN x = 1 .. Len(x) /\ DOMAIN v = 1 .. Len(v)
    /\ \A i \in DOMAIN v : \/ i \in DOMAIN w /\ v[i] = w[i]
                           \/ i - Len(w) \in DOMAIN x /\ v[i] = x[i - Len(w)]

LEMMA JoinJoins ==
    ASSUME NEW w, IsQueue(w), NEW x, IsQueue(x)
    PROVE  Joins(w, x, w \o x)
<1>1. /\ Len(w) \in Nat /\ DOMAIN w = 1 .. Len(w)
      /\ Len(x) \in Nat /\ DOMAIN x = 1 .. Len(x)
  BY QueueIs
<1>2. IsQueue(w \o x) /\ Len(w \o x) = Len(w) + Len(x)
  BY JoinIs
<1>3. DOMAIN (w \o x) = 1 .. Len(w \o x)
  BY <1>2, QueueIs
<1>4. \A i \in DOMAIN (w \o x) :
         \/ i \in DOMAIN w /\ (w \o x)[i] = w[i]
         \/ i - Len(w) \in DOMAIN x /\ (w \o x)[i] = x[i - Len(w)]
  BY JoinIs
<1> QED BY <1>1, <1>2, <1>3, <1>4 DEF Joins

(* r is what is left of q once its first segment is taken.                 *)
Rests(q, r) ==
    /\ Len(q) \in Nat /\ Len(r) = Len(q) - 1 /\ Len(r) \in Nat
    /\ DOMAIN q = 1 .. Len(q) /\ DOMAIN r = 1 .. Len(r)
    /\ \A i \in DOMAIN r : i + 1 \in DOMAIN q /\ r[i] = q[i + 1]

LEMMA TailRests ==
    ASSUME NEW q, IsQueue(q), q # <<>>
    PROVE  Rests(q, Tail(q)) /\ Head(q) = q[1]
<1>1. Len(q) \in Nat /\ DOMAIN q = 1 .. Len(q) /\ Head(q) = q[1]
  BY QueueIs
<1>2. /\ IsQueue(Tail(q)) /\ Len(Tail(q)) = Len(q) - 1
      /\ \A i \in DOMAIN Tail(q) : i + 1 \in DOMAIN q /\ Tail(q)[i] = q[i + 1]
  BY TailThins
<1>3. Len(Tail(q)) \in Nat /\ DOMAIN Tail(q) = 1 .. Len(Tail(q))
  BY <1>2, QueueIs
<1> QED BY <1>1, <1>2, <1>3 DEF Rests

LEMMA JoinsAll ==
    ASSUME NEW w, NEW x, NEW v, Joins(w, x, v)
    PROVE  /\ \A flags : All(w, flags) /\ All(x, flags) => All(v, flags)
           /\ Len(x) = 0 => Len(v) = Len(w) /\ DOMAIN v = DOMAIN w
                            /\ \A i \in DOMAIN v : v[i] = w[i]
           /\ \A i \in DOMAIN w : i \in DOMAIN v /\ v[i] = w[i]
           /\ Len(x) = 1 => v[Len(w) + 1] = x[1]
<1>1. ASSUME NEW flags, All(w, flags), All(x, flags) PROVE All(v, flags)
  BY <1>1 DEF Joins, All
<1>2. ASSUME NEW i \in DOMAIN w PROVE i \in DOMAIN v /\ v[i] = w[i]
  <2>1. i \in DOMAIN v
    BY DEF Joins
  <2>2. i - Len(w) \notin DOMAIN x
    BY DEF Joins
  <2> QED BY <2>1, <2>2 DEF Joins
<1>3. ASSUME Len(x) = 0
      PROVE  Len(v) = Len(w) /\ DOMAIN v = DOMAIN w /\ \A i \in DOMAIN v : v[i] = w[i]
  BY <1>2, <1>3 DEF Joins
<1>4. ASSUME Len(x) = 1 PROVE v[Len(w) + 1] = x[1]
  <2>1. Len(w) + 1 \in DOMAIN v /\ Len(w) + 1 \notin DOMAIN w /\ Len(w) + 1 - Len(w) = 1
    BY <1>4 DEF Joins
  <2> QED BY <2>1 DEF Joins
<1> QED BY <1>1, <1>2, <1>3, <1>4

-----------------------------------------------------------------------------
(* One calls and the other does not: s calls p, q and w are what is on its *)
(* way to s and to p.                                                      *)
Asking(s, p, q, w, l) ==
    /\ s.state = "SYN_SENT" /\ p.state \in {"NONE", "LISTEN"} /\ p.caux = 0
    /\ Len(q) = 0 /\ All(w, {"SYN"})
    /\ (l = 0 /\ p.state = "NONE") => Len(w) = 1

Answering(s, p, q, w) ==
    /\ s.state = "SYN_SENT" /\ p.state = "SYN_RECEIVED"
    /\ Len(q) <= 1 /\ \A i \in DOMAIN q : SynAck1(q[i])
    /\ Len(w) = 0

Confirming(s, p, q, w) ==
    /\ s.state = "ESTABLISHED" /\ p.state = "SYN_RECEIVED" /\ s.rcv = 1
    /\ Len(q) = 0 /\ \A i \in DOMAIN w : Ack1(w[i])

Talking(s, p, q, w) ==
    /\ s.state = "ESTABLISHED" /\ p.state = "ESTABLISHED"
    /\ All(q, {"ACK"}) /\ All(w, {"ACK"})

Calls(s, p, q, w, l) ==
    /\ ~ s.passive /\ (p.passive \/ p.state = "NONE") /\ ~ p.simultaneous_open
    /\ \/ Asking(s, p, q, w, l) \/ Answering(s, p, q, w)
       \/ Confirming(s, p, q, w) \/ Talking(s, p, q, w)

LEMMA CallerReceives ==
    ASSUME ~ MallocFails,
           NEW s, NEW p, NEW q, NEW w, NEW l, Side(s, p, q), Side(p, s, w),
           Calls(s, p, q, w, l), NEW r, Rests(q, r), Accepts(s, q[1]),
           NEW o \in Received(s, q[1]), NEW v, Joins(w, o.sent, v)
    PROVE  Calls(o.sock, p, r, v, l)
<1>1. Proper(s) /\ Proper(p) /\ Knows(s, p) /\ Knows(p, s)
  BY DEF Side
<1>2. 1 \in DOMAIN q /\ Len(q) >= 1
  BY DEF Rests
<1>3. Fits(s, p, q[1])
  BY <1>2 DEF Side
<1>4. s.state = "SYN_SENT" /\ SynAck1(q[1]) =>
         /\ o.sock.state = "ESTABLISHED" /\ Same(s, o.sock) /\ o.sock.rcv = 1
         /\ Sends(o, {"ACK"})
  BY <1>1, <1>3, ExpectedIs
<1>5. s.state = "ESTABLISHED" /\ q[1].flags = {"ACK"} =>
         o.sock.state = "ESTABLISHED" /\ Same(s, o.sock) /\ All(o.sent, {"ACK"})
  BY <1>1, <1>3, ExpectedIs
<1>6. CASE Answering(s, p, q, w)
  <2>1. /\ o.sock.state = "ESTABLISHED" /\ Same(s, o.sock) /\ o.sock.rcv = 1
        /\ Sends(o, {"ACK"}) /\ Len(r) = 0
    BY <1>2, <1>4, <1>6 DEF Answering, Rests
  <2>2. \A i \in DOMAIN v : Ack1(v[i])
    BY <1>6, <2>1 DEF Joins, Answering, Sends, Ack1
  <2> QED BY <1>6, <2>1, <2>2 DEF Answering, Calls, Confirming, Same
<1>7. CASE Talking(s, p, q, w)
  <2>1. o.sock.state = "ESTABLISHED" /\ Same(s, o.sock) /\ All(o.sent, {"ACK"})
    BY <1>2, <1>5, <1>7 DEF Talking, All
  <2>2. All(v, {"ACK"})
    BY <1>7, <2>1, JoinsAll DEF Talking
  <2>3. All(r, {"ACK"})
    BY <1>7 DEF Talking, All, Rests
  <2> QED BY <1>7, <2>1, <2>2, <2>3 DEF Talking, Calls, Same
<1> QED BY <1>2, <1>6, <1>7 DEF Calls, Asking, Confirming

LEMMA CalleeReceives ==
    ASSUME ~ MallocFails,
           NEW s, NEW p, NEW q, NEW w, NEW l, Side(s, p, q), Side(p, s, w),
           Calls(s, p, q, w, l), NEW r, Rests(w, r), Accepts(p, w[1]),
           NEW o \in Received(p, w[1]), NEW v, Joins(q, o.sent, v)
    PROVE  Calls(s, o.sock, v, r, l)
<1>1. Proper(s) /\ Proper(p) /\ Knows(s, p) /\ Knows(p, s)
  BY DEF Side
<1>2. 1 \in DOMAIN w /\ Len(w) >= 1
  BY DEF Rests
<1>3. Fits(p, s, w[1])
  BY <1>2 DEF Side
<1>4. p.state = "LISTEN" /\ w[1].flags = {"SYN"} =>
         /\ o.sock.state = "SYN_RECEIVED" /\ Same(p, o.sock) /\ Sends(o, {"SYN", "ACK"})
  BY <1>1, <1>3, ExpectedIs
<1>5. p.state = "ESTABLISHED" /\ w[1].flags = {"ACK"} =>
         o.sock.state = "ESTABLISHED" /\ Same(p, o.sock) /\ All(o.sent, {"ACK"})
  BY <1>1, <1>3, ExpectedIs
<1>6. p.state = "SYN_RECEIVED" /\ ~ p.simultaneous_open /\ Ack1(w[1]) =>
         o.sock.state = "ESTABLISHED" /\ Same(p, o.sock) /\ SendsNone(o)
  BY <1>1, <1>3, ExpectedIs
<1>7. CASE Asking(s, p, q, w, l)
  <2>1. w[1].flags = {"SYN"}
    BY <1>2, <1>7 DEF Asking, All
  <2>2. p.state = "LISTEN"
    BY <1>1, <1>7, NoSocketIs DEF Asking, Accepts, Proper
  <2>3. Len(r) = 0
    <3> SUFFICES ASSUME Len(r) # 0 PROVE FALSE
      OBVIOUS
    <3>1. 2 \in DOMAIN w
      BY DEF Rests
    <3> QED BY <1>7, <3>1 DEF Asking, All, Side
  <2>4. o.sock.state = "SYN_RECEIVED" /\ Same(p, o.sock) /\ Sends(o, {"SYN", "ACK"})
    BY <1>4, <2>1, <2>2
  <2>5. Len(v) <= 1 /\ \A i \in DOMAIN v : SynAck1(v[i])
    BY <1>7, <2>4 DEF Asking, Joins, Sends, SynAck1
  <2>6. p.passive
    BY <1>1, <2>2 DEF Proper
  <2> QED BY <1>7, <2>3, <2>4, <2>5, <2>6 DEF Asking, Calls, Answering, Same
<1>8. CASE Confirming(s, p, q, w)
  <2>1. o.sock.state = "ESTABLISHED" /\ Same(p, o.sock) /\ SendsNone(o)
    BY <1>2, <1>6, <1>8 DEF Confirming, Calls
  <2>2. All(r, {"ACK"})
    BY <1>8 DEF Confirming, All, Rests, Ack1
  <2>3. All(v, {"ACK"})
    BY <1>8, <2>1 DEF Confirming, All, Joins, SendsNone
  <2> QED BY <1>8, <2>1, <2>2, <2>3 DEF Confirming, Calls, Talking, Same
<1>9. CASE Talking(s, p, q, w)
  <2>1. o.sock.state = "ESTABLISHED" /\ Same(p, o.sock) /\ All(o.sent, {"ACK"})
    BY <1>2, <1>5, <1>9 DEF Talking, All
  <2>2. All(v, {"ACK"})
    BY <1>9, <2>1, JoinsAll DEF Talking
  <2>3. All(r, {"ACK"})
    BY <1>9 DEF Talking, All, Rests
  <2> QED BY <1>9, <2>1, <2>2, <2>3 DEF Talking, Calls, Same
<1> QED BY <1>2, <1>7, <1>8, <1>9 DEF Calls, Answering

LEMMA CallerTicks ==
    ASSUME NEW s, NEW p, NEW q, NEW w, NEW l, Side(s, p, q),
           Calls(s, p, q, w, l),
           NEW o \in Ticked(s, Available), NEW v, Joins(w, o.sent, v)
    PROVE  Calls(o.sock, p, q, v, l)
<1>1. Proper(s) /\ Knows(s, p)
  BY DEF Side
<1>2. s.state # "NONE"
  BY DEF Calls, Asking, Answering, Confirming, Talking
<1>3. /\ o.sock.state = s.state /\ Same(s, o.sock)
      /\ s.state \in {"LISTEN", "SYN_SENT", "SYN_RECEIVED"} => Len(o.sent) = 0
      /\ All(o.sent, {"ACK"})
      /\ s.state = "ESTABLISHED" =>
            o.sock.rcv = s.rcv /\ \A i \in DOMAIN o.sent : o.sent[i].ack = s.rcv
  BY <1>1, <1>2, TickedSends
<1>4. CASE Asking(s, p, q, w, l)
  <2>1. Len(v) = Len(w) /\ DOMAIN v = DOMAIN w /\ \A i \in DOMAIN v : v[i] = w[i]
    BY <1>3, <1>4, JoinsAll DEF Asking
  <2> QED BY <1>3, <1>4, <2>1 DEF Asking, Calls, Same, All
<1>5. CASE Answering(s, p, q, w)
  <2>1. Len(v) = Len(w)
    BY <1>3, <1>5, JoinsAll DEF Answering
  <2> QED BY <1>3, <1>5, <2>1 DEF Answering, Calls, Same
<1>6. CASE Confirming(s, p, q, w)
  <2>1. \A i \in DOMAIN v : Ack1(v[i])
    BY <1>3, <1>6 DEF Confirming, Joins, Ack1, All
  <2> QED BY <1>3, <1>6, <2>1 DEF Confirming, Calls, Same
<1>7. CASE Talking(s, p, q, w)
  <2>1. All(v, {"ACK"})
    BY <1>3, <1>7, JoinsAll DEF Talking
  <2> QED BY <1>3, <1>7, <2>1 DEF Talking, Calls, Same
<1> QED BY <1>4, <1>5, <1>6, <1>7 DEF Calls

LEMMA CalleeTicks ==
    ASSUME NEW s, NEW p, NEW q, NEW w, NEW l, Side(p, s, w),
           Calls(s, p, q, w, l), p.state # "NONE",
           NEW o \in Ticked(p, Available), NEW v, Joins(q, o.sent, v)
    PROVE  Calls(s, o.sock, v, w, l)
<1>1. Proper(p) /\ Knows(p, s)
  BY DEF Side
<1>3. /\ o.sock.state = p.state /\ Same(p, o.sock) /\ o.sock.caux = p.caux
      /\ p.state \in {"LISTEN", "SYN_SENT", "SYN_RECEIVED"} => Len(o.sent) = 0
      /\ All(o.sent, {"ACK"})
  BY <1>1, TickedSends
<1>4. CASE Asking(s, p, q, w, l)
  <2>1. Len(v) = Len(q)
    BY <1>3, <1>4, JoinsAll DEF Asking
  <2> QED BY <1>3, <1>4, <2>1 DEF Asking, Calls, Same
<1>5. CASE Answering(s, p, q, w)
  <2>1. Len(v) = Len(q) /\ DOMAIN v = DOMAIN q /\ \A i \in DOMAIN v : v[i] = q[i]
    BY <1>3, <1>5, JoinsAll DEF Answering
  <2> QED BY <1>3, <1>5, <2>1 DEF Answering, Calls, Same
<1>6. CASE Confirming(s, p, q, w)
  <2>1. Len(v) = Len(q)
    BY <1>3, <1>6, JoinsAll DEF Confirming
  <2> QED BY <1>3, <1>6, <2>1 DEF Confirming, Calls, Same
<1>7. CASE Talking(s, p, q, w)
  <2>1. All(v, {"ACK"})
    BY <1>3, <1>7, JoinsAll DEF Talking
  <2> QED BY <1>3, <1>7, <2>1 DEF Talking, Calls, Same
<1> QED BY <1>4, <1>5, <1>6, <1>7 DEF Calls

(* A segment to the caller, or to the other, is lost.                      *)
LEMMA CallsLess ==
    ASSUME NEW s, NEW p, NEW q, NEW w, NEW l, NEW n, Calls(s, p, q, w, l), n # 0,
           NEW r, IsQueue(r)
    PROVE  /\ Thins(q, r) /\ Len(r) < Len(q) /\ Len(q) \in Nat => Calls(s, p, r, w, n)
           /\ Thins(w, r) /\ Len(r) < Len(w) /\ Len(w) \in Nat => Calls(s, p, q, r, n)
<1>0. Len(r) \in Nat
  BY QueueIs
<1>1. ASSUME Thins(q, r), Len(r) < Len(q), Len(q) \in Nat
      PROVE  Calls(s, p, r, w, n)
  <2>1. Len(q) # 0
    BY <1>0, <1>1
  <2>2. CASE Answering(s, p, q, w)
    <3>1. Len(r) <= 1
      BY <1>0, <1>1, <2>2 DEF Answering
    <3>2. \A i \in DOMAIN r : SynAck1(r[i])
      BY <1>1, <2>2 DEF Answering, Thins
    <3> QED BY <2>2, <3>1, <3>2 DEF Answering, Calls
  <2>3. CASE Talking(s, p, q, w)
    BY <1>1, <2>3 DEF Talking, Calls, Thins, All
  <2> QED BY <2>1, <2>2, <2>3 DEF Calls, Asking, Confirming
<1>2. ASSUME Thins(w, r), Len(r) < Len(w), Len(w) \in Nat
      PROVE  Calls(s, p, q, r, n)
  <2>1. Len(w) # 0
    BY <1>0, <1>2
  <2>2. CASE Asking(s, p, q, w, l)
    BY <1>2, <2>2 DEF Asking, Calls, Thins, All
  <2>3. CASE Confirming(s, p, q, w)
    BY <1>2, <2>3 DEF Confirming, Calls, Thins
  <2>4. CASE Talking(s, p, q, w)
    BY <1>2, <2>4 DEF Talking, Calls, Thins, All
  <2> QED BY <2>1, <2>2, <2>3, <2>4 DEF Calls, Answering
<1> QED BY <1>1, <1>2

-----------------------------------------------------------------------------
(* Both call, and nothing is lost: q is what is on its way to s.           *)
Meets(s, p, q) ==
    /\ s.state = "SYN_RECEIVED" => s.simultaneous_open
    /\ \/ /\ s.state = "SYN_SENT" /\ p.state = "SYN_SENT"
          /\ Len(q) = 1 /\ q[1].flags = {"SYN"}
       \/ /\ s.state = "SYN_SENT" /\ p.state = "SYN_RECEIVED"
          /\ Len(q) = 2 /\ q[1].flags = {"SYN"} /\ SynAck1(q[2])
       \/ s.state = "SYN_RECEIVED" /\ p.state = "SYN_SENT" /\ Len(q) = 0
       \/ /\ s.state = "SYN_RECEIVED" /\ p.state = "SYN_RECEIVED"
          /\ Len(q) = 1 /\ SynAck1(q[1])
       \/ /\ s.state = "SYN_RECEIVED" /\ p.state = "ESTABLISHED"
          /\ Len(q) > 0 /\ SynAck1(q[1])
          /\ \A i \in DOMAIN q : i > 1 => q[i].flags = {"ACK"}
       \/ s.state = "ESTABLISHED" /\ p.state = "SYN_RECEIVED" /\ Len(q) = 0
       \/ s.state = "ESTABLISHED" /\ p.state = "ESTABLISHED" /\ All(q, {"ACK"})

LEMMA MeetsReceives ==
    ASSUME ~ MallocFails,
           NEW s, NEW p, NEW q, NEW w, Side(s, p, q), Side(p, s, w),
           Meets(s, p, q), Meets(p, s, w), NEW r, Rests(q, r), Accepts(s, q[1]),
           NEW o \in Received(s, q[1]), NEW v, Joins(w, o.sent, v)
    PROVE  Meets(o.sock, p, r) /\ Meets(p, o.sock, v) /\ o.sock.passive = s.passive
<1>1. Proper(s) /\ Proper(p) /\ Knows(s, p) /\ Knows(p, s)
  BY DEF Side
<1>2. 1 \in DOMAIN q /\ Len(q) >= 1
  BY DEF Rests
<1>3. Fits(s, p, q[1])
  BY <1>2 DEF Side
<1>4. s.state = "SYN_SENT" /\ q[1].flags = {"SYN"} =>
         /\ o.sock.state = "SYN_RECEIVED" /\ o.sock.passive = s.passive
         /\ o.sock.simultaneous_open /\ Sends(o, {"SYN", "ACK"})
  BY <1>1, <1>3, ExpectedIs
<1>5. s.state = "SYN_RECEIVED" /\ s.simultaneous_open /\ SynAck1(q[1]) =>
         o.sock.state = "ESTABLISHED" /\ Same(s, o.sock) /\ SendsNone(o)
  BY <1>1, <1>3, ExpectedIs
<1>6. s.state = "ESTABLISHED" /\ q[1].flags = {"ACK"} =>
         o.sock.state = "ESTABLISHED" /\ Same(s, o.sock) /\ All(o.sent, {"ACK"})
  BY <1>1, <1>3, ExpectedIs
<1>7. \A i \in DOMAIN w : v[i] = w[i]
  BY JoinsAll
<1>8. CASE s.state = "SYN_SENT"
  <2>1. q[1].flags = {"SYN"}
    BY <1>8 DEF Meets
  <2>2. /\ o.sock.state = "SYN_RECEIVED" /\ o.sock.passive = s.passive
        /\ o.sock.simultaneous_open /\ Sends(o, {"SYN", "ACK"})
    BY <1>4, <1>8, <2>1
  <2>3. Len(v) = Len(w) + 1 /\ SynAck1(v[Len(w) + 1])
    <3>1. Len(o.sent) = 1 /\ SynAck1(o.sent[1])
      BY <2>2 DEF Sends, SynAck1
    <3>2. v[Len(w) + 1] = o.sent[1]
      BY <3>1, JoinsAll
    <3> QED BY <3>1, <3>2 DEF Joins
  <2>4. CASE p.state = "SYN_SENT"
    <3>1. Len(r) = 0
      BY <1>8, <2>4 DEF Meets, Rests
    <3>2. Len(w) = 1 /\ w[1].flags = {"SYN"} /\ 1 \in DOMAIN w
      BY <1>8, <2>4 DEF Meets, Joins
    <3>3. Len(v) = 2 /\ v[1].flags = {"SYN"} /\ SynAck1(v[2])
      BY <1>7, <2>3, <3>2
    <3> QED BY <2>2, <2>4, <3>1, <3>3 DEF Meets
  <2>5. CASE p.state = "SYN_RECEIVED"
    <3>1. Len(r) = 1 /\ 1 \in DOMAIN r /\ r[1] = q[2] /\ SynAck1(q[2])
      BY <1>8, <2>5 DEF Meets, Rests
    <3>2. Len(w) = 0
      BY <1>8, <2>5 DEF Meets
    <3>3. Len(v) = 1 /\ SynAck1(v[1])
      BY <2>3, <3>2
    <3>4. p.simultaneous_open
      BY <2>5 DEF Meets
    <3> QED BY <2>2, <2>5, <3>1, <3>3, <3>4 DEF Meets
  <2> QED BY <1>8, <2>4, <2>5 DEF Meets
<1>9. CASE s.state = "SYN_RECEIVED"
  <2>1. s.simultaneous_open /\ SynAck1(q[1])
    BY <1>2, <1>9 DEF Meets
  <2>2. o.sock.state = "ESTABLISHED" /\ Same(s, o.sock) /\ SendsNone(o)
    BY <1>5, <1>9, <2>1
  <2>3. Len(v) = Len(w) /\ DOMAIN v = DOMAIN w /\ \A i \in DOMAIN v : v[i] = w[i]
    BY <2>2, JoinsAll DEF SendsNone
  <2>4. CASE p.state = "SYN_RECEIVED"
    <3>1. Len(r) = 0
      BY <1>9, <2>4 DEF Meets, Rests
    <3>2. Len(w) = 1 /\ SynAck1(w[1]) /\ p.simultaneous_open
      BY <1>9, <2>4 DEF Meets
    <3>3. DOMAIN w = 1 .. 1
      BY <3>2 DEF Joins
    <3>4. Len(v) > 0 /\ SynAck1(v[1]) /\ \A i \in DOMAIN v : ~ i > 1
      BY <2>3, <3>2, <3>3
    <3> QED BY <2>2, <2>4, <3>1, <3>2, <3>4 DEF Meets, Same
  <2>5. CASE p.state = "ESTABLISHED"
    <3>1. All(r, {"ACK"})
      BY <1>9, <2>5 DEF Meets, Rests, All
    <3>2. Len(w) = 0
      BY <1>9, <2>5 DEF Meets
    <3>3. All(v, {"ACK"})
      BY <2>3, <3>2 DEF Joins, All
    <3> QED BY <2>2, <2>5, <3>1, <3>3 DEF Meets, Same
  <2> QED BY <1>2, <1>9, <2>4, <2>5 DEF Meets
<1>10. CASE s.state = "ESTABLISHED"
  <2>1. p.state = "ESTABLISHED" /\ All(q, {"ACK"}) /\ All(w, {"ACK"})
    BY <1>2, <1>10 DEF Meets
  <2>2. o.sock.state = "ESTABLISHED" /\ Same(s, o.sock) /\ All(o.sent, {"ACK"})
    BY <1>2, <1>6, <1>10, <2>1 DEF All
  <2>3. All(v, {"ACK"})
    BY <2>1, <2>2, JoinsAll
  <2>4. All(r, {"ACK"})
    BY <2>1 DEF All, Rests
  <2> QED BY <2>1, <2>2, <2>3, <2>4 DEF Meets, Same
<1> QED BY <1>8, <1>9, <1>10 DEF Meets

LEMMA MeetsTicks ==
    ASSUME NEW s, NEW p, NEW q, NEW w, Side(s, p, q),
           Meets(s, p, q), Meets(p, s, w),
           NEW o \in Ticked(s, Available), NEW v, Joins(w, o.sent, v)
    PROVE  Meets(o.sock, p, q) /\ Meets(p, o.sock, v) /\ o.sock.passive = s.passive
<1>1. Proper(s) /\ Knows(s, p)
  BY DEF Side
<1>2. s.state \in {"SYN_SENT", "SYN_RECEIVED", "ESTABLISHED"}
  BY DEF Meets
<1>3. /\ o.sock.state = s.state /\ Same(s, o.sock)
      /\ s.state \in {"LISTEN", "SYN_SENT", "SYN_RECEIVED"} => Len(o.sent) = 0
      /\ All(o.sent, {"ACK"})
  BY <1>1, <1>2, TickedSends
<1>4. Meets(o.sock, p, q) /\ o.sock.passive = s.passive
  BY <1>3 DEF Meets, Same
<1>5. CASE s.state # "ESTABLISHED"
  <2>1. Len(v) = Len(w) /\ DOMAIN v = DOMAIN w /\ \A i \in DOMAIN v : v[i] = w[i]
    BY <1>2, <1>3, <1>5, JoinsAll
  <2>2. Len(w) \in Nat /\ DOMAIN w = 1 .. Len(w)
    BY DEF Joins
  <2>3. Len(w) > 0 => v[1] = w[1]
    BY <2>1, <2>2
  <2>4. Len(w) = 2 => v[2] = w[2]
    BY <2>1, <2>2
  <2>5. Meets(p, o.sock, v)
    BY <1>2, <1>3, <1>5, <2>1, <2>3, <2>4 DEF Meets
  <2> QED BY <1>4, <2>5
<1>6. CASE s.state = "ESTABLISHED"
  <2>1. CASE p.state = "SYN_RECEIVED"
    <3>1. /\ Len(w) > 0 /\ SynAck1(w[1]) /\ p.simultaneous_open
          /\ \A i \in DOMAIN w : i > 1 => w[i].flags = {"ACK"}
      BY <1>6, <2>1 DEF Meets
    <3>2. Len(v) > 0 /\ v[1] = w[1]
      <4>1. 1 \in DOMAIN w
        BY <3>1 DEF Joins
      <4>2. v[1] = w[1]
        BY <4>1, JoinsAll
      <4> QED BY <3>1, <4>2 DEF Joins
    <3>3. ASSUME NEW i \in DOMAIN v, i > 1 PROVE v[i].flags = {"ACK"}
      BY <1>3, <3>1, <3>3 DEF Joins, All
    <3>4. Meets(p, o.sock, v)
      BY <1>3, <1>6, <2>1, <3>1, <3>2, <3>3 DEF Meets
    <3> QED BY <1>4, <3>4
  <2>2. CASE p.state = "ESTABLISHED"
    <3>1. All(w, {"ACK"})
      BY <1>6, <2>2 DEF Meets
    <3>2. All(v, {"ACK"})
      BY <1>3, <3>1, JoinsAll
    <3>3. Meets(p, o.sock, v)
      BY <1>3, <1>6, <2>2, <3>2 DEF Meets
    <3> QED BY <1>4, <3>3
  <2> QED BY <1>6, <2>1, <2>2 DEF Meets
<1> QED BY <1>5, <1>6

-----------------------------------------------------------------------------
(* Nobody has called yet.                                                  *)
Waits(s, q) ==
    /\ s.state \in {"NONE", "LISTEN"} /\ s.caux = 0 /\ ~ s.simultaneous_open
    /\ Len(q) = 0

(* The course of an opening.                                               *)
Course(s, p, q, w, l) ==
    \/ Runs(s) /\ Runs(p) /\ (l > 0 \/ (Meets(s, p, q) /\ Meets(p, s, w)))
    \/ Calls(s, p, q, w, l) \/ Calls(p, s, w, q, l)
    \/ Waits(s, q) /\ Waits(p, w)

LEMMA CourseReceives ==
    ASSUME ~ MallocFails,
           NEW s, NEW p, NEW q, NEW w, NEW l, Side(s, p, q), Side(p, s, w),
           Course(s, p, q, w, l), NEW r, Rests(q, r), Accepts(s, q[1]),
           NEW o \in Received(s, q[1]), NEW v, Joins(w, o.sent, v)
    PROVE  Course(o.sock, p, r, v, l)
<1>1. Proper(s) /\ Proper(p) /\ Knows(s, p) /\ Knows(p, s)
  BY DEF Side
<1>2. Fits(s, p, q[1])
  BY DEF Rests, Side
<1>3. Served(s, p, o)
  BY <1>1, <1>2, ReceivedServes
<1>4. ASSUME Runs(s), Runs(p), l > 0 PROVE Course(o.sock, p, r, v, l)
  BY <1>1, <1>3, <1>4, RunsOn DEF Course
<1>5. ASSUME Runs(s), Runs(p), Meets(s, p, q), Meets(p, s, w)
      PROVE  Course(o.sock, p, r, v, l)
  <2>1. Meets(o.sock, p, r) /\ Meets(p, o.sock, v)
    BY <1>5, MeetsReceives
  <2> QED BY <1>1, <1>3, <1>5, <2>1, RunsOn DEF Course
<1>6. ASSUME Calls(s, p, q, w, l) PROVE Course(o.sock, p, r, v, l)
  <2>1. Calls(o.sock, p, r, v, l)
    BY <1>6, CallerReceives
  <2> QED BY <2>1 DEF Course
<1>7. ASSUME Calls(p, s, w, q, l) PROVE Course(o.sock, p, r, v, l)
  <2>1. Calls(p, o.sock, v, r, l)
    BY <1>7, CalleeReceives
  <2> QED BY <2>1 DEF Course
<1>8. ~ Waits(s, q)
  BY DEF Waits, Rests
<1> QED BY <1>4, <1>5, <1>6, <1>7, <1>8 DEF Course

LEMMA CourseTicks ==
    ASSUME NEW s, NEW p, NEW q, NEW w, NEW l, Side(s, p, q), Side(p, s, w),
           Course(s, p, q, w, l), s.state # "NONE",
           NEW o \in Ticked(s, Available), NEW v, Joins(w, o.sent, v)
    PROVE  Course(o.sock, p, q, v, l)
<1>1. Proper(s) /\ Knows(s, p)
  BY DEF Side
<1>3. Served(s, p, o)
  BY <1>1, TickedServes
<1>4. ASSUME Runs(s), Runs(p), l > 0 PROVE Course(o.sock, p, q, v, l)
  BY <1>1, <1>3, <1>4, RunsOn DEF Course
<1>5. ASSUME Runs(s), Runs(p), Meets(s, p, q), Meets(p, s, w)
      PROVE  Course(o.sock, p, q, v, l)
  <2>1. Meets(o.sock, p, q) /\ Meets(p, o.sock, v)
    BY <1>5, MeetsTicks
  <2> QED BY <1>1, <1>3, <1>5, <2>1, RunsOn DEF Course
<1>6. ASSUME Calls(s, p, q, w, l) PROVE Course(o.sock, p, q, v, l)
  <2>1. Calls(o.sock, p, q, v, l)
    BY <1>6, CallerTicks
  <2> QED BY <2>1 DEF Course
<1>7. ASSUME Calls(p, s, w, q, l) PROVE Course(o.sock, p, q, v, l)
  <2>1. Calls(p, o.sock, v, q, l)
    BY <1>7, CalleeTicks
  <2> QED BY <2>1 DEF Course
<1>8. ASSUME Waits(s, q), Waits(p, w) PROVE Course(o.sock, p, q, v, l)
  <2>1. s.state = "LISTEN"
    BY <1>8 DEF Waits
  <2>2. /\ o.sock.state = s.state /\ Same(s, o.sock) /\ o.sock.caux = s.caux
        /\ Len(o.sent) = 0
    BY <1>1, <2>1, TickedSends
  <2>3. Len(v) = Len(w)
    BY <2>2, JoinsAll
  <2> QED BY <1>8, <2>2, <2>3 DEF Waits, Course, Same
<1> QED BY <1>4, <1>5, <1>6, <1>7, <1>8 DEF Course

LEMMA CourseConnects ==
    ASSUME NEW s, NEW p, NEW q, NEW w, NEW l \in Nat, Side(s, p, q), Side(p, s, w),
           Course(s, p, q, w, l), s.state = "NONE",
           NEW o \in Connecting, NEW v, Joins(w, o.sent, v)
    PROVE  Course(o.sock, p, q, v, l)
<1>1. Proper(s) /\ Proper(p) /\ Knows(p, s)
  BY DEF Side
<1>2. o.sock.state = "SYN_SENT"
  BY <1>1, ConnectServes
<1>3. o.sock.passive = FALSE
  BY <1>1, ConnectServes
<1>4. DOMAIN o.sent = {1} /\ o.sent[1].flags = {"SYN"}
  BY <1>1, ConnectServes
<1>5. Len(o.sent) = 1
  <2>1. Len(o.sent) \in Nat /\ 1 .. Len(o.sent) = {1}
    BY <1>4 DEF Joins
  <2>2. Len(o.sent) \in 1 .. Len(o.sent) \/ Len(o.sent) = 0
    BY <2>1
  <2>3. 1 \in 1 .. Len(o.sent)
    BY <2>1
  <2>4. Len(o.sent) # 0
    BY <2>1, <2>3
  <2> QED BY <2>1, <2>2, <2>4
<1>6. Runs(o.sock)
  BY <1>2, <1>3 DEF Runs
<1>7. CASE Calls(p, s, w, q, l)
  <2>1. Asking(p, s, w, q, l)
    BY <1>7 DEF Calls, Answering, Confirming, Talking
  <2>2. Runs(p)
    BY <1>7, <2>1 DEF Asking, Calls, Runs
  <2>3. CASE l > 0
    BY <1>6, <2>2, <2>3 DEF Course
  <2>4. CASE l = 0
    <3>1. Len(q) = 1 /\ All(q, {"SYN"}) /\ 1 \in DOMAIN q
      <4>1. Len(q) = 1 /\ All(q, {"SYN"}) /\ IsQueue(q)
        BY <2>1, <2>4 DEF Asking, Side
      <4> QED BY <4>1, QueueIs
    <3>2. Meets(o.sock, p, q)
      BY <1>2, <2>1, <3>1 DEF Meets, Asking, All
    <3>3. Len(v) = 1 /\ v[1] = o.sent[1]
      <4>1. Len(w) = 0
        BY <2>1 DEF Asking
      <4>2. v[Len(w) + 1] = o.sent[1]
        BY <1>5, JoinsAll
      <4> QED BY <1>5, <4>1, <4>2 DEF Joins
    <3>4. Meets(p, o.sock, v)
      BY <1>2, <1>4, <2>1, <3>3 DEF Meets, Asking
    <3> QED BY <1>6, <2>2, <3>2, <3>4 DEF Course
  <2> QED BY <2>3, <2>4
<1>8. CASE Waits(s, q) /\ Waits(p, w)
  <2>1. Len(w) = 0 /\ Len(q) = 0
    BY <1>8 DEF Waits
  <2>2. Len(v) = 1 /\ All(v, {"SYN"})
    <3>1. Len(v) = 1
      BY <1>5, <2>1 DEF Joins
    <3>2. \A i \in DOMAIN v : v[i] = o.sent[1]
      BY <1>4, <1>5, <2>1 DEF Joins
    <3> QED BY <1>4, <3>1, <3>2 DEF All
  <2>3. p.passive \/ p.state = "NONE"
    BY <1>1, <1>8 DEF Waits, Proper
  <2>4. Asking(o.sock, p, q, v, l)
    BY <1>2, <1>8, <2>1, <2>2 DEF Asking, Waits
  <2> QED BY <1>3, <1>8, <2>3, <2>4 DEF Calls, Waits, Course
<1> QED BY <1>7, <1>8 DEF Course, Runs, Calls, Asking, Answering, Confirming, Talking

LEMMA CourseListens ==
    ASSUME NEW s, NEW p, NEW q, NEW w, NEW l \in Nat, Side(s, p, q),
           Course(s, p, q, w, l), s.state = "NONE", NEW o \in Listening
    PROVE  Course(o.sock, p, q, w, l)
<1>1. Proper(s)
  BY DEF Side
<1>2. o.sock.state = "LISTEN"
  BY <1>1, ListenServes
<1>3. o.sock.passive = TRUE
  BY <1>1, ListenServes
<1>4. o.sock.caux = 0
  BY <1>1, ListenServes
<1>5. o.sock.simultaneous_open = FALSE
  BY <1>1, ListenServes
<1>7. CASE Calls(p, s, w, q, l)
  <2>1. Asking(p, s, w, q, l)
    BY <1>7 DEF Calls, Answering, Confirming, Talking
  <2>2. Asking(p, o.sock, w, q, l)
    BY <1>2, <1>4, <2>1 DEF Asking
  <2> QED BY <1>3, <1>5, <1>7, <2>2 DEF Calls, Course
<1>8. CASE Waits(s, q) /\ Waits(p, w)
  BY <1>2, <1>4, <1>5, <1>8 DEF Waits, Course
<1> QED BY <1>7, <1>8 DEF Course, Runs, Calls, Asking, Answering, Confirming, Talking

LEMMA CourseDrops ==
    ASSUME NEW s, NEW p, NEW q, NEW w, NEW l \in Nat, NEW n \in Nat,
           Course(s, p, q, w, l), n > 0,
           NEW r, Thins(q, r), Len(q) \in Nat, Len(r) < Len(q)
    PROVE  Course(s, p, r, w, n)
<1>1. IsQueue(r) /\ Len(r) \in Nat
  BY QueueIs DEF Thins
<1>2. CASE Runs(s) /\ Runs(p)
  BY <1>2 DEF Course
<1>0. n # 0
  OBVIOUS
<1>3. CASE Calls(s, p, q, w, l)
  <2>1. Calls(s, p, r, w, n)
    BY <1>0, <1>1, <1>3, CallsLess
  <2> QED BY <2>1 DEF Course
<1>4. CASE Calls(p, s, w, q, l)
  <2>1. Calls(p, s, w, r, n)
    BY <1>0, <1>1, <1>4, CallsLess
  <2> QED BY <2>1 DEF Course
<1>5. ~ Waits(s, q)
  BY <1>1 DEF Waits
<1> QED BY <1>2, <1>3, <1>4, <1>5 DEF Course

LEMMA CourseTurns ==
    ASSUME NEW s, NEW p, NEW q, NEW w, NEW l, Course(s, p, q, w, l)
    PROVE  Course(p, s, w, q, l)
BY DEF Course

Courses == \A h \in Hosts : Course(sock[h], sock[Peer(h)], net[h], net[Peer(h)], losses)

LEMMA CoursesInit == Init => Courses
<1> SUFFICES ASSUME Init, NEW h \in Hosts
             PROVE  Course(sock[h], sock[Peer(h)], net[h], net[Peer(h)], losses)
  BY DEF Courses
<1>1. Peer(h) \in Hosts
  BY TwoHosts
<1>2. sock[h] = NoSocket /\ sock[Peer(h)] = NoSocket /\ net[h] = <<>> /\ net[Peer(h)] = <<>>
  BY <1>1 DEF Init
<1>3. Waits(NoSocket, <<>>)
  BY DEF Waits, NoSocket, NewSocket
<1> QED BY <1>2, <1>3 DEF Course

(* Whatever moves, the opening stays on its course.                        *)
LEMMA CoursesNext ==
    ASSUME ~ MallocFails, MaxLosses > 0, Tables, Sides, Courses, Next
    PROVE  Courses'
<1> PICK h \in Hosts : \/ Connect(h) \/ Listen(h)
                       \/ Deliver(h) \/ Unknown(h) \/ Tick(h) \/ Lose(h)
  BY DEF Next
<1>1. /\ Peer(h) \in Hosts /\ Peer(Peer(h)) = h
      /\ \A g \in Hosts : g = h \/ g = Peer(h)
  BY TwoHosts
<1> PICK s : s = sock[h]
  OBVIOUS
<1> PICK p : p = sock[Peer(h)]
  OBVIOUS
<1> PICK q : q = net[h]
  OBVIOUS
<1> PICK w : w = net[Peer(h)]
  OBVIOUS
<1>2. Side(s, p, q) /\ Side(p, s, w) /\ Course(s, p, q, w, losses)
  BY <1>1 DEF Sides, Courses
<1>3. IsQueue(q) /\ IsQueue(w) /\ Proper(s) /\ Proper(p) /\ Knows(s, p) /\ Knows(p, s)
  BY <1>2 DEF Side
<1>4. losses \in Nat
  BY DEF Tables
<1>5. SUFFICES Course(sock'[h], sock'[Peer(h)], net'[h], net'[Peer(h)], losses')
  BY <1>1, CourseTurns DEF Courses
<1>6. ASSUME NEW o, Becomes(h, o), UNCHANGED losses, IsQueue(o.sent),
             \A v : Joins(w, o.sent, v) => Course(o.sock, p, q, v, losses)
      PROVE  Course(sock'[h], sock'[Peer(h)], net'[h], net'[Peer(h)], losses')
  <2>1. /\ sock'[h] = o.sock /\ sock'[Peer(h)] = p
        /\ net'[h] = q /\ net'[Peer(h)] = w \o o.sent
    BY <1>6, BecomesIs
  <2>2. Joins(w, o.sent, w \o o.sent)
    BY <1>3, <1>6, JoinJoins
  <2> QED BY <1>6, <2>1, <2>2
<1>7. CASE Connect(h)
  <2>1. s.state = "NONE" /\ UNCHANGED losses
    BY <1>7 DEF Connect, Idle
  <2>o. PICK o \in Connecting : Becomes(h, o)
    BY <1>7 DEF Connect
  <2>2. IsQueue(o.sent)
    BY <1>3, <2>1, ConnectServes
  <2>3. ASSUME NEW v, Joins(w, o.sent, v) PROVE Course(o.sock, p, q, v, losses)
    BY ONLY <1>2, <1>4, <2>1, <2>3, <2>o, CourseConnects
  <2> QED BY <1>6, <2>1, <2>2, <2>3, <2>o
<1>8. CASE Listen(h)
  <2>1. s.state = "NONE" /\ UNCHANGED losses
    BY <1>8 DEF Listen, Idle
  <2>o. PICK o \in Listening : Becomes(h, o)
    BY <1>8 DEF Listen
  <2>2. o.sent = <<>>
    BY <1>3, <2>1, ListenServes
  <2>3. /\ sock'[h] = o.sock /\ sock'[Peer(h)] = p
        /\ net'[h] = q /\ net'[Peer(h)] = w \o o.sent
    BY <2>o, BecomesIs
  <2>4. w \o o.sent = w
    BY <1>3, <2>2 DEF IsQueue
  <2>5. Course(o.sock, p, q, w, losses)
    BY ONLY <1>2, <1>4, <2>1, <2>o, CourseListens
  <2> QED BY <2>1, <2>3, <2>4, <2>5
<1>9. CASE Deliver(h)
  <2>1. q # <<>> /\ Accepts(s, Head(q)) /\ UNCHANGED losses
    BY <1>9 DEF Deliver
  <2>2. Rests(q, Tail(q)) /\ Head(q) = q[1]
    BY <1>3, <2>1, TailRests
  <2>o. PICK o \in Received(s, q[1]) : Receives(h, o)
    BY <1>9, <2>2 DEF Deliver
  <2>3. /\ sock'[h] = o.sock /\ sock'[Peer(h)] = p
        /\ net'[h] = Tail(q) /\ net'[Peer(h)] = w \o o.sent
    BY <2>o, ReceivesIs
  <2>4. Fits(s, p, q[1])
    BY <1>2, <2>2 DEF Side, Rests
  <2>5. IsQueue(o.sent)
    BY <1>3, <2>1, <2>2, <2>4, <2>o, ReceivedServes DEF Served
  <2>6. Joins(w, o.sent, w \o o.sent)
    BY <1>3, <2>5, JoinJoins
  <2>7. Accepts(s, q[1])
    BY <2>1, <2>2
  <2>8. Course(o.sock, p, Tail(q), w \o o.sent, losses)
    BY ONLY ~ MallocFails, <1>2, <2>2, <2>6, <2>7, <2>o, CourseReceives
  <2> QED BY <2>1, <2>3, <2>8
<1>10. CASE Tick(h)
  <2>1. s.state # "NONE" /\ UNCHANGED losses
    BY <1>10 DEF Tick, Idle
  <2>o. PICK o \in Ticked(s, Available) : Becomes(h, o)
    BY <1>10 DEF Tick
  <2>2. IsQueue(o.sent)
    BY <1>3, <2>1, TickedServes DEF Served
  <2>3. ASSUME NEW v, Joins(w, o.sent, v) PROVE Course(o.sock, p, q, v, losses)
    BY ONLY <1>2, <2>1, <2>3, <2>o, CourseTicks
  <2> QED BY <1>6, <2>1, <2>2, <2>3, <2>o
<1>11. CASE Unknown(h) \/ Lose(h)
  <2>1. Drops(h)
    BY <1>11, DropsIs
  <2>2. losses' \in Nat /\ losses' > 0 /\ sock'[h] = s /\ sock'[Peer(h)] = p
        /\ net'[Peer(h)] = w
    BY <1>4, <2>1 DEF Drops
  <2>3. Thins(q, net'[h]) /\ Len(q) \in Nat /\ Len(net'[h]) < Len(q)
    <3>1. Len(q) \in Nat
      BY <1>3, QueueIs
    <3>2. CASE q # <<>> /\ net'[h] = Tail(q)
      <4>1. Thins(q, Tail(q)) /\ Len(Tail(q)) = Len(q) - 1
        BY <1>3, <3>2, TailThins
      <4> QED BY <3>1, <3>2, <4>1
    <3>3. ASSUME NEW i \in DOMAIN q, net'[h] = RemoveAt(q, i)
          PROVE  Thins(q, net'[h]) /\ Len(q) \in Nat /\ Len(net'[h]) < Len(q)
      <4>1. Thins(q, RemoveAt(q, i)) /\ Len(RemoveAt(q, i)) = Len(q) - 1
        BY <1>3, RemoveThins
      <4> QED BY <3>1, <3>3, <4>1
    <3> QED BY <2>1, <3>2, <3>3 DEF Drops
  <2>4. Course(s, p, net'[h], w, losses')
    BY ONLY <1>2, <1>4, <2>2, <2>3, CourseDrops
  <2> QED BY <2>2, <2>4
<1> QED BY <1>7, <1>8, <1>9, <1>10, <1>11

(* While nothing is lost, or one alone calls, no socket is CLOSED and no   *)
(* reset is on its way.                                                    *)
LEMMA CoursesTell ==
    ASSUME Tables, Sides, Courses
    PROVE  NoNeedlessReset
<1> SUFFICES ASSUME NEW h \in Hosts,
                    \/ sock[h].state = "CLOSED"
                    \/ \E i \in DOMAIN net[h] : "RST" \in net[h][i].flags
             PROVE  Simultaneous /\ losses > 0
  BY DEF NoNeedlessReset
<1>1. /\ Peer(h) \in Hosts /\ Peer(Peer(h)) = h
      /\ \A g \in Hosts : g = h \/ g = Peer(h)
  BY TwoHosts
<1> PICK s : s = sock[h]
  OBVIOUS
<1> PICK p : p = sock[Peer(h)]
  OBVIOUS
<1> PICK q : q = net[h]
  OBVIOUS
<1> PICK w : w = net[Peer(h)]
  OBVIOUS
<1>2. Course(s, p, q, w, losses)
  BY DEF Courses
<1>3. Len(q) \in Nat /\ DOMAIN q = 1 .. Len(q)
  BY QueueIs DEF Sides, Side
<1>4. ASSUME Len(q) = 0 PROVE s.state = "CLOSED"
  BY <1>3, <1>4
<1>5. ASSUME All(q, {"ACK"}) \/ All(q, {"SYN"}) PROVE s.state = "CLOSED"
  BY <1>5 DEF All
<1>6. ~ Meets(s, p, q)
  <2> SUFFICES ASSUME Meets(s, p, q) PROVE FALSE
    OBVIOUS
  <2>1. s.state # "CLOSED"
    BY DEF Meets
  <2>2. PICK i \in DOMAIN q : "RST" \in q[i].flags
    BY <2>1
  <2>3. q[i].flags \in {{"SYN"}, {"SYN", "ACK"}, {"ACK"}}
    <3>1. i = 1 \/ i = 2 \/ i > 2
      BY <1>3
    <3>2. CASE Len(q) = 1 \/ Len(q) = 2
      BY <1>3, <1>4, <1>5, <2>1, <3>1, <3>2 DEF Meets, SynAck1, All
    <3>3. CASE Len(q) # 1 /\ Len(q) # 2
      BY <1>3, <1>4, <1>5, <2>1, <3>3 DEF Meets, SynAck1
    <3> QED BY <3>2, <3>3
  <2> QED BY <2>2, <2>3
<1>7. ~ Calls(s, p, q, w, losses)
  BY <1>4, <1>5 DEF Calls, Asking, Answering, Confirming, Talking, SynAck1
<1>8. ~ Calls(p, s, w, q, losses)
  BY <1>4, <1>5 DEF Calls, Asking, Answering, Confirming, Talking, Ack1
<1>9. ~ Waits(s, q)
  BY <1>4 DEF Waits
<1>10. Runs(s) /\ Runs(p) /\ losses > 0
  BY <1>2, <1>6, <1>7, <1>8, <1>9 DEF Course
<1> QED BY <1>1, <1>10 DEF Simultaneous, Active, Runs

(* Over a network that keeps the order an opening ends in a reset only if  *)
(* both hosts called and a segment got lost (tcp.cpp 376): one caller is   *)
(* never reset, whatever is lost, and neither are two, unless something    *)
(* is.  Assumed is that StartBuffer finds memory, since a socket without   *)
(* it has to reset, and that losses are counted at all.                    *)
THEOREM NoOpeningIsResetNeedlessly ==
    ASSUME ~ MallocFails, MaxLosses > 0
    PROVE  Spec => []NoNeedlessReset
<1>1. Init => Tables /\ Sides /\ Courses
  BY SidesInit, CoursesInit
<1>2. Tables /\ Sides /\ Courses /\ [Next]_vars => (Tables /\ Sides /\ Courses)'
  <2> SUFFICES ASSUME Tables, Sides, Courses, [Next]_vars
               PROVE  (Tables /\ Sides /\ Courses)'
    OBVIOUS
  <2>1. CASE Next
    BY <2>1, SidesNext, CoursesNext
  <2>2. CASE UNCHANGED vars
    BY <2>2 DEF vars, Tables, Sides, Courses
  <2> QED BY <2>1, <2>2
<1>3. Tables /\ Sides /\ Courses => NoNeedlessReset
  BY CoursesTell
<1> QED BY <1>1, <1>2, <1>3, PTL DEF Spec

=============================================================================
