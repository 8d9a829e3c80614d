---------------------------- MODULE TcpSocketProofs ----------------------------
(***************************************************************************)
(* What holds of TcpSocket's operations whoever uses them: how a segment   *)
(* moves a socket's state and counters, and what its buffer and its        *)
(* acknowledgements keep.  The proofs about one socket and any peer, about *)
(* two hosts and about the provider's table all rest on these lemmas.      *)
(***************************************************************************)
EXTENDS TcpSocket, TLAPS, WellFoundedInduction, SequenceTheorems

IsSocket(s) ==
    {"state", "passive", "bound", "simultaneous_open", "cseq", "caux", "ack",
     "una", "nxt", "timers", "buf", "rcv", "held", "got"} \subseteq DOMAIN s

-----------------------------------------------------------------------------
(* How a segment moves a socket                                            *)

Stood(s, t) == t.cseq = s.cseq /\ t.caux = s.caux

Connected == {"ESTABLISHED", "FIN_WAIT1", "FIN_WAIT2", "CLOSING", "TIME_WAIT",
              "CLOSE_WAIT", "LAST_ACK"}

Halves == Connected \ {"ESTABLISHED"}

(* t is what became of s when it got m.                                    *)
Turns(s, m, t) ==
    \/ t.state = s.state /\ Stood(s, t) /\ t.simultaneous_open = s.simultaneous_open
    \/ t.state = "CLOSED" /\ Stood(s, t)
    \/ s.state = "SYN_RECEIVED" /\ t.state = "CLOSED"
          /\ t.cseq = s.cseq + 1 /\ t.caux = s.caux
    \/ s.passive /\ t.state = "LISTEN" /\ Stood(s, t)
    \/ s.state = "LISTEN" /\ t.state = "SYN_RECEIVED"
          /\ t.cseq = s.cseq /\ t.caux = s.caux + 1
    \/ s.state = "SYN_SENT" /\ t.state = "SYN_RECEIVED"
          /\ Stood(s, t) /\ t.simultaneous_open
    \/ /\ \/ {"SYN", "ACK"} \subseteq m.flags
          \/ s.state = "SYN_RECEIVED" /\ ~ s.simultaneous_open
       /\ s.state = "SYN_SENT" \/ s.state = "SYN_RECEIVED"
       /\ t.state = "ESTABLISHED" /\ t.cseq = s.cseq + 1 /\ t.caux = s.caux
       /\ t.una = m.ack - t.caux
    \/ /\ s.state \in Connected /\ t.state \in Halves
       /\ t.cseq = s.cseq /\ t.caux \in {s.caux, s.caux + 1}

Moves(s, m, t) ==
    /\ IsSocket(t)
    /\ t.passive = s.passive /\ t.nxt = s.nxt /\ t.timers = s.timers
    /\ t.una \in {s.una, m.ack - s.caux, m.ack - t.caux}
    /\ Turns(s, m, t)

(* Two sockets that Moves cannot tell apart.                               *)
Alike(s, t) ==
    /\ IsSocket(t)
    /\ t.passive = s.passive /\ t.nxt = s.nxt /\ t.timers = s.timers
    /\ t.simultaneous_open = s.simultaneous_open
    /\ t.state = s.state /\ t.cseq = s.cseq /\ t.caux = s.caux

LEMMA RefreshAlike ==
    ASSUME NEW s, IsSocket(s)
    PROVE  Alike(s, Refresh(s)) /\ Refresh(s).una = s.una
BY DEF Alike, Refresh, IsSocket

LEMMA UpdateAlike ==
    ASSUME NEW s, IsSocket(s), NEW m
    PROVE  Alike(s, Update(s, m)) /\ Update(s, m).una = m.ack - s.caux
<1> DEFINE t == [s EXCEPT !.una = m.ack - s.caux]
<1>1. Alike(s, t) /\ t.una = m.ack - s.caux
  BY DEF Alike, IsSocket
<1>2. Update(s, m) = Refresh(t)
  BY DEF Update
<1> HIDE DEF t
<1>3. Alike(t, Refresh(t)) /\ Refresh(t).una = t.una
  BY <1>1, RefreshAlike DEF Alike
<1> QED BY <1>1, <1>2, <1>3 DEF Alike

LEMMA AlikeMoves ==
    ASSUME NEW s, NEW r, NEW m, NEW t, Alike(s, r), r.una \in {s.una, m.ack - s.caux},
           Moves(r, m, t)
    PROVE  Moves(s, m, t)
BY DEF Moves, Alike, Turns, Stood

LEMMA ResetMoves ==
    ASSUME NEW s, IsSocket(s), NEW m, NEW o \in Reset(s)
    PROVE  Moves(s, m, o.sock)
BY DEF Reset, Outcome, Moves, Turns, Stood, IsSocket

LEMMA NoMemoryMoves ==
    ASSUME NEW s, IsSocket(s), NEW m, NEW o \in NoMemory(s)
    PROVE  Moves(s, m, o.sock)
BY ResetMoves DEF NoMemory

LEMMA EstablishMoves ==
    ASSUME NEW s, IsSocket(s), s.state \in {"SYN_SENT", "SYN_RECEIVED"},
           NEW m, \/ {"SYN", "ACK"} \subseteq m.flags
                  \/ s.state = "SYN_RECEIVED" /\ ~ s.simultaneous_open,
           NEW answer, NEW o \in Establish(s, m, answer)
    PROVE  Moves(s, m, o.sock)
<1> DEFINE t == Opened(s)
<1>1. /\ IsSocket(t) /\ t.passive = s.passive /\ t.nxt = s.nxt /\ t.timers = s.timers
      /\ t.state = "ESTABLISHED" /\ t.cseq = s.cseq + 1 /\ t.caux = s.caux
  BY DEF Opened, Started, IsSocket
<1>2. o.sock = Update(t, m)
  BY DEF Establish, Outcome
<1> HIDE DEF t
<1>3. Alike(t, Update(t, m)) /\ Update(t, m).una = m.ack - t.caux
  BY <1>1, UpdateAlike
<1> QED BY <1>1, <1>2, <1>3 DEF Moves, Turns, Alike

LEMMA OnSynMoves ==
    ASSUME NEW s, IsSocket(s), NEW m, NEW o \in OnSyn(s, m)
    PROVE  Moves(s, m, o.sock)
<1>1. CASE s.state = "LISTEN"
  <2>1. o.sock = [[s EXCEPT !.state = "SYN_RECEIVED", !.ack = m.seq + 1]
                     EXCEPT !.bound = TRUE, !.caux = s.caux + 1]
    BY <1>1 DEF OnSyn, Outcome
  <2> QED BY <1>1, <2>1 DEF Moves, Turns, IsSocket
<1>2. CASE s.state = "SYN_SENT"
  <2>1. o.sock = [[s EXCEPT !.state = "SYN_RECEIVED", !.ack = m.seq + 1]
                     EXCEPT !.simultaneous_open = TRUE]
    BY <1>2 DEF OnSyn, Outcome
  <2> QED BY <1>2, <2>1 DEF Moves, Turns, IsSocket, Stood
<1>3. CASE s.state \notin {"LISTEN", "SYN_SENT"}
  BY <1>3, ResetMoves DEF OnSyn
<1> QED BY <1>1, <1>2, <1>3

LEMMA OnSynAckMoves ==
    ASSUME NEW s, IsSocket(s), NEW m, {"SYN", "ACK"} \subseteq m.flags,
           NEW o \in OnSynAck(s, m)
    PROVE  Moves(s, m, o.sock)
<1> DEFINE answered == [s EXCEPT !.ack = m.seq + 1]
           counted  == [s EXCEPT !.cseq = s.cseq + 1]
<1>1. CASE s.cseq + 1 = m.ack /\ s.state = "SYN_SENT"
  <2>1. OnSynAck(s, m) = Establish(answered, m, JustAck(Opened(answered)))
                            \cup NoMemory(answered)
    BY <1>1 DEF OnSynAck
  <2>2. Alike(s, answered) /\ answered.una = s.una
    BY DEF Alike, IsSocket
  <2> HIDE DEF answered
  <2>3. Moves(answered, m, o.sock)
    BY <1>1, <2>1, <2>2, EstablishMoves, NoMemoryMoves DEF Alike
  <2> QED BY <2>2, <2>3, AlikeMoves
<1>2. CASE /\ s.cseq + 1 = m.ack /\ s.state = "SYN_RECEIVED"
           /\ s.simultaneous_open
  <2>1. OnSynAck(s, m) = Establish(s, m, <<>>) \cup NoMemory(counted)
    BY <1>2 DEF OnSynAck
  <2>2. ASSUME o \in NoMemory(counted) PROVE Moves(s, m, o.sock)
    <3>1. o.sock = [counted EXCEPT !.state = "CLOSED"]
      BY <2>2 DEF NoMemory, Reset, Outcome
    <3>2. /\ IsSocket(o.sock) /\ o.sock.passive = s.passive
          /\ o.sock.nxt = s.nxt /\ o.sock.timers = s.timers
          /\ o.sock.una = s.una /\ o.sock.state = "CLOSED"
          /\ o.sock.cseq = s.cseq + 1 /\ o.sock.caux = s.caux
      BY <3>1 DEF IsSocket
    <3> QED BY <1>2, <3>2 DEF Moves, Turns
  <2>3. ASSUME o \in Establish(s, m, <<>>) PROVE Moves(s, m, o.sock)
    BY <1>2, <2>3, EstablishMoves
  <2> QED BY <2>1, <2>2, <2>3
<1>3. CASE /\ ~ (s.cseq + 1 = m.ack /\ s.state = "SYN_SENT")
           /\ ~ (/\ s.cseq + 1 = m.ack /\ s.state = "SYN_RECEIVED"
                 /\ s.simultaneous_open)
  BY <1>3, ResetMoves DEF OnSynAck
<1> QED BY <1>1, <1>2, <1>3

LEMMA GoMoves ==
    ASSUME NEW s, IsSocket(s), NEW m, NEW n, IsSocket(n), NEW st, NEW k,
           n.passive = s.passive, n.nxt = s.nxt, n.timers = s.timers,
           n.cseq = s.cseq, n.caux = k, n.state = st,
           \/ st = "CLOSED" /\ k = s.caux
           \/ /\ s.state \in Connected /\ st \in Halves
              /\ k \in {s.caux, s.caux + 1}
    PROVE  Moves(s, m, Update(n, m))
<1> DEFINE t == Update(n, m)
<1>1. Alike(n, t) /\ t.una = m.ack - n.caux
  BY UpdateAlike
<1> HIDE DEF t
<1>2. Turns(s, m, t)
  BY <1>1 DEF Alike, Turns, Stood
<1>3. t.una = m.ack - t.caux
  BY <1>1 DEF Alike
<1>4. /\ IsSocket(t) /\ t.passive = s.passive /\ t.nxt = s.nxt
      /\ t.timers = s.timers
  BY <1>1 DEF Alike
<1>5. t.una \in {s.una, m.ack - s.caux, m.ack - t.caux}
  BY <1>3
<1>6. Moves(s, m, t)
  BY <1>2, <1>4, <1>5, Zenon DEF Moves
<1> QED BY <1>6 DEF t

LEMMA OnFinMoves ==
    ASSUME NEW s, IsSocket(s), NEW m, NEW o \in OnFin(s, m)
    PROVE  Moves(s, m, o.sock)
<1> DEFINE more == [s EXCEPT !.ack = s.ack + 1]
<1>1. CASE s.state = "ESTABLISHED"
  <2> DEFINE n == [more EXCEPT !.state = "CLOSE_WAIT", !.caux = s.caux + 1]
  <2>1. o.sock = Update(n, m)
    BY <1>1 DEF OnFin, Outcome
  <2>2. /\ IsSocket(n) /\ n.passive = s.passive /\ n.nxt = s.nxt /\ n.timers = s.timers
        /\ n.cseq = s.cseq /\ n.caux = s.caux + 1 /\ n.state = "CLOSE_WAIT"
    BY DEF IsSocket
  <2> HIDE DEF n
  <2>3. s.state \in Connected /\ "CLOSE_WAIT" \in Halves
    BY <1>1 DEF Connected, Halves
  <2> QED BY <2>1, <2>2, <2>3, GoMoves
<1>2. CASE s.state = "CLOSE_WAIT"
  <2> DEFINE n == [s EXCEPT !.state = "CLOSED"]
  <2>1. o.sock = Update(n, m)
    BY <1>2 DEF OnFin, Outcome, Quietly
  <2>2. /\ IsSocket(n) /\ n.passive = s.passive /\ n.nxt = s.nxt /\ n.timers = s.timers
        /\ n.cseq = s.cseq /\ n.caux = s.caux /\ n.state = "CLOSED"
    BY DEF IsSocket
  <2> HIDE DEF n
  <2> QED BY <2>1, <2>2, GoMoves
<1>3. CASE s.state = "FIN_WAIT1" \/ (s.state = "FIN_WAIT2" /\ AcksFin(s, m))
  <2> PICK st \in {"CLOSING", "TIME_WAIT"} :
         o.sock = Update([more EXCEPT !.state = st], m)
    BY <1>3 DEF OnFin, Outcome
  <2> DEFINE n == [more EXCEPT !.state = st]
  <2>2. /\ IsSocket(n) /\ n.passive = s.passive /\ n.nxt = s.nxt /\ n.timers = s.timers
        /\ n.cseq = s.cseq /\ n.caux = s.caux /\ n.state = st
    BY DEF IsSocket
  <2>3. s.state \in Connected /\ st \in Halves
    BY <1>3 DEF Connected, Halves
  <2>4. o.sock = Update(n, m)
    OBVIOUS
  <2> HIDE DEF n
  <2> QED BY <2>2, <2>3, <2>4, GoMoves
<1>4. CASE /\ s.state \notin {"ESTABLISHED", "CLOSE_WAIT", "FIN_WAIT1"}
           /\ ~ (s.state = "FIN_WAIT2" /\ AcksFin(s, m))
  BY <1>4, ResetMoves DEF OnFin
<1> QED BY <1>1, <1>2, <1>3, <1>4

LEMMA OnFinAckMoves ==
    ASSUME NEW s, IsSocket(s), NEW m, NEW o \in OnFinAck(s, m)
    PROVE  Moves(s, m, o.sock)
<1> DEFINE more == [s EXCEPT !.ack = s.ack + 1]
<1>1. CASE \/ s.state = "ESTABLISHED"
           \/ s.state \in {"FIN_WAIT1", "FIN_WAIT2"} /\ AcksFin(s, m)
  <2> PICK st \in {"LAST_ACK", "TIME_WAIT"} :
         o.sock = Update([more EXCEPT !.state = st], m)
    BY <1>1 DEF OnFinAck, Outcome
  <2> DEFINE n == [more EXCEPT !.state = st]
  <2>2. /\ IsSocket(n) /\ n.passive = s.passive /\ n.nxt = s.nxt /\ n.timers = s.timers
        /\ n.cseq = s.cseq /\ n.caux = s.caux /\ n.state = st
    BY DEF IsSocket
  <2>3. s.state \in Connected /\ st \in Halves
    BY <1>1 DEF Connected, Halves
  <2>4. o.sock = Update(n, m)
    OBVIOUS
  <2> HIDE DEF n
  <2> QED BY <2>2, <2>3, <2>4, GoMoves
<1>2. CASE s.state = "CLOSE_WAIT"
  <2> DEFINE n == [s EXCEPT !.state = "CLOSED"]
  <2>1. o.sock = Update(n, m)
    BY <1>2 DEF OnFinAck, Outcome, Quietly
  <2>2. /\ IsSocket(n) /\ n.passive = s.passive /\ n.nxt = s.nxt /\ n.timers = s.timers
        /\ n.cseq = s.cseq /\ n.caux = s.caux /\ n.state = "CLOSED"
    BY DEF IsSocket
  <2> HIDE DEF n
  <2> QED BY <2>1, <2>2, GoMoves
<1>3. CASE /\ s.state \notin {"ESTABLISHED", "CLOSE_WAIT"}
           /\ ~ (s.state \in {"FIN_WAIT1", "FIN_WAIT2"} /\ AcksFin(s, m))
  BY <1>3, ResetMoves DEF OnFinAck
<1> QED BY <1>1, <1>2, <1>3

LEMMA StoreMoves ==
    ASSUME NEW s, IsSocket(s), NEW m, s.una = m.ack - s.caux, NEW places,
           NEW o \in Store(s, m, places)
    PROVE  Moves(s, m, o.sock)
<1> DEFINE n == Stored(s, places, m.byte)
<1>1. Alike(s, n)
  BY DEF Stored, Alike, IsSocket
<1> HIDE DEF n
<1>2. ASSUME o \in Acknowledged(Update(n, m)) PROVE Moves(s, m, o.sock)
  <2>1. o.sock = Update(n, m)
    BY <1>2 DEF Acknowledged, Outcome
  <2>2. Alike(n, o.sock) /\ o.sock.una = m.ack - n.caux
    BY <1>1, <2>1, UpdateAlike DEF Alike
  <2> QED BY <1>1, <2>2 DEF Moves, Alike, Turns, Stood
<1>3. ASSUME o \in Reset(Update(s, m)) PROVE Moves(s, m, o.sock)
  <2> DEFINE u == Update(s, m)
  <2>1. Alike(s, u) /\ u.una = s.una
    BY UpdateAlike
  <2> HIDE DEF u
  <2>2. Moves(u, m, o.sock)
    BY <1>3, <2>1, ResetMoves DEF Alike, u
  <2> QED BY <2>1, <2>2, AlikeMoves
<1> QED BY <1>2, <1>3, NoMemoryMoves DEF Store, n

LEMMA OnDataMoves ==
    ASSUME NEW s, IsSocket(s), NEW m, NEW o \in OnData(s, m)
    PROVE  Moves(s, m, o.sock)
<1> DEFINE t == Update(s, m)
<1>1. Alike(s, t) /\ t.una = m.ack - s.caux
  BY UpdateAlike
<1>2. \/ OnData(s, m) \in {Quietly(t), Acknowledged(t)}
      \/ \E places : OnData(s, m) = Store(t, m, places)
  BY DEF OnData
<1> HIDE DEF t
<1>3. Moves(t, m, o.sock)
  <2>1. ASSUME NEW places, o \in Store(t, m, places) PROVE Moves(t, m, o.sock)
    BY <1>1, <2>1, StoreMoves DEF Alike
  <2>2. ASSUME o \in Quietly(t) \cup Acknowledged(t) PROVE Moves(t, m, o.sock)
    BY <1>1, <2>2 DEF Quietly, Acknowledged, Outcome, Moves, Turns, Stood, Alike
  <2> QED BY <1>2, <2>1, <2>2
<1> QED BY <1>1, <1>3, AlikeMoves

LEMMA OnAckMoves ==
    ASSUME NEW s, IsSocket(s), NEW m, NEW o \in OnAck(s, m)
    PROVE  Moves(s, m, o.sock)
<1>1. CASE s.state = "SYN_RECEIVED"
  BY <1>1, EstablishMoves, NoMemoryMoves, ResetMoves DEF OnAck
<1>2. CASE s.state = "FIN_WAIT1"
  BY <1>2 DEF OnAck, Quietly, Outcome, Moves, Turns, Connected, Halves, IsSocket
<1>3. CASE \/ s.state = "CLOSE_WAIT"
           \/ s.state \in {"CLOSING", "LAST_ACK"} /\ AcksFin(s, m)
  <2>1. o.sock = [s EXCEPT !.state = "CLOSED"]
    BY <1>3 DEF OnAck, Quietly, Outcome
  <2> QED BY <2>1 DEF Moves, Turns, Stood, IsSocket
<1>4. CASE /\ s.state \notin {"SYN_RECEIVED", "FIN_WAIT1", "CLOSE_WAIT"}
           /\ ~ (s.state \in {"CLOSING", "LAST_ACK"} /\ AcksFin(s, m))
  BY <1>4, OnDataMoves DEF OnAck
<1> QED BY <1>1, <1>2, <1>3, <1>4

(* The whole handler.                                                      *)
LEMMA ReceivedMoves ==
    ASSUME NEW s, IsSocket(s), NEW m, NEW o \in Received(s, m)
    PROVE  Moves(s, m, o.sock)
<1> DEFINE r == Refresh(s)
           control == m.flags \cap {"SYN", "ACK", "FIN"}
<1>1. Alike(s, r) /\ r.una = s.una
  BY RefreshAlike
<1>2. CASE s.state = "TIME_WAIT"
  <2>1. o.sock = s
    BY <1>2 DEF Received, Quietly, Outcome
  <2> QED BY <2>1 DEF Moves, Turns, Stood
<1>3. CASE s.state # "TIME_WAIT" /\ "RST" \in m.flags
  <2>1. o.sock = [r EXCEPT !.state = IF r.passive THEN "LISTEN" ELSE "CLOSED"]
    BY <1>3 DEF Received, Quietly, Outcome
  <2> HIDE DEF r
  <2> QED BY <1>1, <2>1 DEF Moves, Turns, Stood, Alike, IsSocket
<1>4. CASE s.state # "TIME_WAIT" /\ "RST" \notin m.flags
  <2>1. \/ o \in OnSyn(r, m)
        \/ control = {"SYN", "ACK"} /\ o \in OnSynAck(r, m)
        \/ o \in Reset(r) \cup OnFin(r, m) \cup OnFinAck(r, m)
        \/ o \in OnAck(r, m) \cup OnData(r, m)
    BY <1>4 DEF Received
  <2>2. control = {"SYN", "ACK"} => {"SYN", "ACK"} \subseteq m.flags
    OBVIOUS
  <2> HIDE DEF r, control
  <2>3. Moves(r, m, o.sock)
    BY <1>1, <2>1, <2>2, OnSynMoves, OnSynAckMoves, OnFinMoves, OnFinAckMoves,
       OnAckMoves, OnDataMoves, ResetMoves DEF Alike
  <2> QED BY <1>1, <2>3, AlikeMoves
<1> QED BY <1>2, <1>3, <1>4

-----------------------------------------------------------------------------
(* The buffer, and what is acknowledged                                    *)

(* A set of natural numbers has a least element.                           *)
Below == OpToRel(<, Nat)

LEMMA BelowIsWellFounded == IsWellFoundedOn(Below, Nat)
BY NatLessThanWellFounded, Zenon DEF Below

LEMMA BelowIsLess == \A m, n \in Nat : n < m => <<n, m>> \in Below
BY Zenon DEF Below, OpToRel

LEMMA LeastIn ==
    ASSUME NEW S \in SUBSET Nat, S # {}
    PROVE  \E m \in S : \A n \in S : m <= n
<1>1. \E m \in S : \A n \in S : ~ (<<n, m>> \in Below)
  <2>1. S \subseteq Nat
    OBVIOUS
  <2> QED BY <2>1, BelowIsWellFounded, WFMin, Zenon
<1> PICK m \in S : \A n \in S : ~ (<<n, m>> \in Below)
  BY <1>1
<1>2. ASSUME NEW n \in S PROVE m <= n
  <2>1. m \in Nat /\ n \in Nat
    OBVIOUS
  <2>2. ~ (n < m)
    BY <2>1, BelowIsLess
  <2> QED BY <2>1, <2>2
<1> QED BY <1>2

(* Where rcv_nxt comes to stand: behind all that is held in a row.         *)
LEMMA NextExpected ==
    ASSUME NEW rcv \in Nat, NEW have \in SUBSET (rcv .. rcv + Window - 1)
    PROVE  \E n \in rcv .. rcv + Window : n \notin have /\ rcv .. n - 1 \subseteq have
<1> DEFINE Free == {n \in rcv .. rcv + Window : n \notin have}
<1>0. Window \in Nat /\ Window # 0
  BY SocketAssumption
<1>1. Free \in SUBSET Nat /\ rcv + Window \in Free
  BY <1>0
<1>2. PICK n \in Free : \A k \in Free : n <= k
  <2> HIDE DEF Free
  <2> QED BY <1>1, LeastIn
<1>3. ASSUME NEW k \in rcv .. n - 1 PROVE k \in have
  <2>1. k \in rcv .. rcv + Window /\ ~ (n <= k)
    BY <1>0
  <2> QED BY <1>2, <2>1
<1> QED BY <1>2, <1>3

Typed(s) ==
    /\ IsSocket(s)
    /\ s.state \in States \cup {"NONE"}
    /\ s.passive \in BOOLEAN /\ s.bound \in BOOLEAN
    /\ s.simultaneous_open \in BOOLEAN /\ s.buf \in BOOLEAN
    /\ s.cseq \in Nat /\ s.caux \in Nat /\ s.ack \in Nat /\ s.una \in Int
    /\ s.nxt \in Nat /\ s.timers \subseteq 0 .. s.nxt - 1
    /\ s.rcv \in Nat /\ s.held \subseteq s.rcv + 1 .. s.rcv + Window - 1

(* What is acknowledged is what the buffer has in a row.                   *)
Fresh(s) ==
    /\ s.buf => s.ack = s.rcv
    /\ s.state = "SYN_SENT" => ~ s.buf

(* A listening socket that is opened again still has its old buffer.       *)
InStep(s) ==
    /\ s.buf /\ s.state # "SYN_RECEIVED" => s.ack = s.rcv
    /\ s.state = "SYN_SENT" => ~ s.buf

IsSegment(m) ==
    /\ m.flags \subseteq Flags /\ m.seq \in Nat /\ m.ack \in Nat
    /\ m.byte \in Nat \cup {NoByte}

AckFits(s, a) ==
    (s.buf /\ s.state # "SYN_RECEIVED") =>
        a.ack = s.rcv \/ (a.ack = s.rcv + 1 /\ s.state \in Halves)

Answers(s, a) == IsSegment(a) /\ a.byte = NoByte /\ AckFits(s, a)

Sound(o) ==
    /\ Typed(o.sock) /\ InStep(o.sock)
    /\ \A i \in DOMAIN o.sent : Answers(o.sock, o.sent[i])

LEMMA RefreshTyped ==
    ASSUME NEW s, Typed(s), s.state = "SYN_SENT" => ~ s.buf
    PROVE  Typed(Refresh(s)) /\ Fresh(Refresh(s)) /\ Alike(s, Refresh(s))
<1>1. Alike(s, Refresh(s))
  BY RefreshAlike DEF Typed
<1>2. CASE s.buf
  <2> DEFINE t == [s EXCEPT !.ack = s.rcv]
  <2>1. Refresh(s) = t
    BY <1>2 DEF Refresh
  <2>2. Typed(t) /\ Fresh(t)
    BY DEF Typed, Fresh, IsSocket
  <2> QED BY <1>1, <2>1, <2>2
<1>3. CASE ~ s.buf
  BY <1>1, <1>3 DEF Refresh, Fresh
<1> QED BY <1>2, <1>3 DEF Typed

LEMMA UpdateTyped ==
    ASSUME NEW s, Typed(s), s.state = "SYN_SENT" => ~ s.buf, NEW m, IsSegment(m)
    PROVE  /\ Typed(Update(s, m)) /\ Fresh(Update(s, m)) /\ Alike(s, Update(s, m))
           /\ Update(s, m).rcv = s.rcv /\ Update(s, m).buf = s.buf
           /\ Update(s, m).got = s.got
<1> DEFINE t == [s EXCEPT !.una = m.ack - s.caux]
<1>1. /\ Typed(t) /\ Alike(s, t) /\ (t.state = "SYN_SENT" => ~ t.buf)
      /\ t.rcv = s.rcv /\ t.buf = s.buf /\ t.got = s.got
  BY DEF Typed, Alike, IsSocket, IsSegment
<1>2. Update(s, m) = Refresh(t)
  BY DEF Update
<1> HIDE DEF t
<1>3. Typed(Refresh(t)) /\ Fresh(Refresh(t)) /\ Alike(t, Refresh(t))
  BY <1>1, RefreshTyped
<1>4. Refresh(t).rcv = t.rcv /\ Refresh(t).buf = t.buf /\ Refresh(t).got = t.got
  BY <1>1 DEF Refresh, Typed, IsSocket
<1> QED BY <1>1, <1>2, <1>3, <1>4 DEF Alike

LEMMA StoredTyped ==
    ASSUME NEW s, Typed(s), NEW byte,
           NEW places \in SUBSET (s.rcv .. s.rcv + Window - 1)
    PROVE  /\ Typed(Stored(s, places, byte)) /\ Alike(s, Stored(s, places, byte))
           /\ Stored(s, places, byte).buf = s.buf
           /\ Stored(s, places, byte).rcv >= s.rcv
           /\ Stored(s, places, byte).got = s.got \cup {<<p, byte>> : p \in places}
<1> DEFINE have == s.held \cup places
           P(n) == n \notin have /\ s.rcv .. n - 1 \subseteq have
           next == CHOOSE n \in s.rcv .. s.rcv + Window : P(n)
           t == [s EXCEPT !.rcv = next, !.held = {p \in have : p > next},
                          !.got = s.got \cup {<<p, byte>> : p \in places}]
<1>0. Window \in Nat /\ s.rcv \in Nat
  BY SocketAssumption DEF Typed
<1>1. Stored(s, places, byte) = t
  BY DEF Stored
<1>2. have \in SUBSET (s.rcv .. s.rcv + Window - 1)
  <2>1. s.held \subseteq s.rcv + 1 .. s.rcv + Window - 1
    BY DEF Typed
  <2>2. s.held \subseteq s.rcv .. s.rcv + Window - 1
    BY <1>0, <2>1
  <2> QED BY <2>2
<1>3. next \in s.rcv .. s.rcv + Window
  <2>1. \E n \in s.rcv .. s.rcv + Window : P(n)
    <3> HIDE DEF have
    <3> QED BY <1>0, <1>2, NextExpected
  <2> QED BY <2>1
<1> HIDE DEF next
<1>4. {p \in have : p > next} \subseteq next + 1 .. next + Window - 1
  BY <1>0, <1>2, <1>3
<1> HIDE DEF have
<1>5. Typed(t) /\ Alike(s, t) /\ t.buf = s.buf /\ t.rcv >= s.rcv
      /\ t.got = s.got \cup {<<p, byte>> : p \in places}
  BY <1>0, <1>3, <1>4 DEF Typed, Alike, IsSocket
<1> QED BY <1>1, <1>5

LEMMA SegmentAnswers ==
    ASSUME NEW s, Typed(s), NEW flags \in SUBSET Flags, NEW k \in Nat
    PROVE  /\ IsSegment(Segment(s, flags, k))
           /\ Segment(s, flags, k).ack = s.ack
           /\ Segment(s, flags, k).byte = NoByte
BY DEF Segment, IsSegment, Typed, NoByte

LEMMA QuietlySound ==
    ASSUME NEW s, Typed(s), InStep(s), NEW o \in Quietly(s)
    PROVE  Sound(o) /\ o.sock = s
BY DEF Quietly, Outcome, Sound

LEMMA ResetSound ==
    ASSUME NEW s, Typed(s), Fresh(s), NEW o \in Reset(s)
    PROVE  Sound(o) /\ o.sock.got = s.got
<1> DEFINE t == [s EXCEPT !.state = "CLOSED"]
           a == Segment(s, {"RST"}, s.nxt)
<1>1. o.sock = t /\ o.sent = <<a>>
  BY DEF Reset, Outcome
<1>2. Typed(t) /\ InStep(t) /\ t.got = s.got /\ t.ack = s.ack /\ t.rcv = s.rcv /\ t.buf = s.buf
  BY DEF Typed, IsSocket, States, Fresh, InStep
<1>3. IsSegment(a) /\ a.ack = s.ack /\ a.byte = NoByte
  BY SegmentAnswers DEF Flags, Typed
<1> HIDE DEF t, a
<1>4. Answers(t, a)
  BY <1>2, <1>3 DEF Answers, AckFits, Fresh
<1> QED BY <1>1, <1>2, <1>4 DEF Sound

LEMMA AcknowledgedSound ==
    ASSUME NEW s, Typed(s), Fresh(s), NEW o \in Acknowledged(s)
    PROVE  Sound(o) /\ o.sock = s
<1> DEFINE a == Segment(s, {"ACK"}, s.nxt)
<1>1. o.sock = s /\ o.sent = <<a>>
  BY DEF Acknowledged, AckSegment, Outcome
<1>2. IsSegment(a) /\ a.ack = s.ack /\ a.byte = NoByte
  BY SegmentAnswers DEF Flags, Typed
<1> HIDE DEF a
<1> QED BY <1>1, <1>2 DEF Sound, Answers, AckFits, Fresh, InStep

LEMMA NoMemorySound ==
    ASSUME NEW s, Typed(s), Fresh(s), NEW o \in NoMemory(s)
    PROVE  Sound(o) /\ o.sock.got = s.got
BY ResetSound DEF NoMemory

(* What a segment adds to the bytes stored: its own byte where it belongs, *)
(* or, if it is empty and starts where the window ends, what is no byte.   *)
Adds(r, m, t) ==
    \/ t.got = r.got
    \/ m.byte # NoByte /\ t.got = r.got \cup {<<m.seq, m.byte>>}
    \/ /\ m.byte = NoByte /\ r.buf /\ m.seq = r.rcv + Window
       /\ t.got = r.got \cup {<<p, NoByte>> : p \in r.rcv .. r.rcv + Window - 1}

LEMMA StoreSound ==
    ASSUME NEW s, Typed(s), Fresh(s), NEW m, IsSegment(m),
           NEW places \in SUBSET (s.ack .. s.ack + Window - 1),
           NEW o \in Store(s, m, places)
    PROVE  /\ Sound(o)
           /\ \/ o.sock.got = s.got
              \/ s.buf /\ o.sock.got = s.got \cup {<<p, m.byte>> : p \in places}
<1> DEFINE n == Stored(s, places, m.byte)
           u == Update(n, m)
<1>1. ASSUME s.buf, o \in Acknowledged(u)
      PROVE  Sound(o) /\ o.sock.got = s.got \cup {<<p, m.byte>> : p \in places}
  <2>1. places \in SUBSET (s.rcv .. s.rcv + Window - 1)
    BY <1>1 DEF Fresh
  <2>2. Typed(n) /\ Alike(s, n) /\ n.got = s.got \cup {<<p, m.byte>> : p \in places}
    BY <2>1, StoredTyped
  <2> HIDE DEF n
  <2>3. n.state = "SYN_SENT" => ~ n.buf
    BY <1>1, <2>2 DEF Alike, Fresh
  <2>4. Typed(u) /\ Fresh(u) /\ u.got = n.got
    BY <2>2, <2>3, UpdateTyped
  <2> HIDE DEF u
  <2>5. Sound(o) /\ o.sock = u
    BY <1>1, <2>4, AcknowledgedSound
  <2> QED BY <2>2, <2>4, <2>5
<1>2. ASSUME o \in Reset(Update(s, m)) PROVE Sound(o) /\ o.sock.got = s.got
  <2> DEFINE r == Update(s, m)
  <2>1. Typed(r) /\ Fresh(r) /\ r.got = s.got
    BY UpdateTyped DEF Fresh
  <2> HIDE DEF r
  <2> QED BY <1>2, <2>1, ResetSound DEF r
<1>3. ASSUME o \in NoMemory(s) PROVE Sound(o) /\ o.sock.got = s.got
  BY <1>3, NoMemorySound
<1>4. \/ s.buf /\ o \in Acknowledged(u)
      \/ o \in NoMemory(s)
      \/ o \in Reset(Update(s, m))
  BY DEF Store
<1> HIDE DEF u
<1> QED BY <1>1, <1>2, <1>3, <1>4

(* The cases of the default case.                                          *)
LEMMA OnDataCases ==
    ASSUME NEW s, Typed(s), Fresh(s), NEW m, IsSegment(m), NEW r, r = Update(s, m),
           NEW o \in OnData(s, m)
    PROVE  \/ o \in Quietly(r) \cup Acknowledged(r)
           \/ /\ m.byte # NoByte /\ m.seq \in r.ack .. r.ack + Window - 1
              /\ o \in Store(r, m, {m.seq})
           \/ /\ m.byte = NoByte /\ m.seq = r.ack + Window
              /\ o \in Store(r, m, r.ack .. r.ack + Window - 1)
<1> DEFINE end    == m.seq + Size(m)
           ahead  == m.seq > r.ack /\ r.ack + Window > m.seq
           covers == end >= r.ack /\ end > 0 /\ r.ack + Window > end - 1
           left   == Size(m) - (r.ack - m.seq)
<1>1. /\ Window \in Nat /\ m.seq \in Nat /\ r.ack \in Nat
      /\ Size(m) = IF m.byte = NoByte THEN 0 ELSE 1
  <2>1. Typed(r)
    BY UpdateTyped DEF Fresh
  <2> QED BY <2>1, SocketAssumption DEF Typed, IsSegment, Size
<1>2. \/ o \in Quietly(r) \cup Acknowledged(r)
      \/ ahead /\ Size(m) = 1 /\ o \in Store(r, m, {m.seq})
      \/ ~ ahead /\ covers /\ left > 0 /\ o \in Store(r, m, r.ack .. r.ack + left - 1)
  BY DEF OnData
<1>3. ASSUME ahead, Size(m) = 1
      PROVE  m.byte # NoByte /\ m.seq \in r.ack .. r.ack + Window - 1
  BY <1>1, <1>3
<1>4. ASSUME ~ ahead, covers, left > 0, Size(m) = 1
      PROVE  m.byte # NoByte /\ m.seq = r.ack /\ left = 1
  BY <1>1, <1>4
<1>5. ASSUME ~ ahead, covers, left > 0, Size(m) = 0
      PROVE  m.byte = NoByte /\ m.seq = r.ack + Window /\ left = Window
  BY <1>1, <1>5
<1>6. Size(m) \in {0, 1}
  BY <1>1
<1>7. r.ack .. r.ack + 1 - 1 = {r.ack} /\ r.ack \in r.ack .. r.ack + Window - 1
  BY <1>1, SocketAssumption
<1> HIDE DEF ahead, covers, left
<1>8. ASSUME ~ ahead, covers, left > 0, o \in Store(r, m, r.ack .. r.ack + left - 1)
      PROVE  \/ /\ m.byte # NoByte /\ m.seq \in r.ack .. r.ack + Window - 1
                /\ o \in Store(r, m, {m.seq})
             \/ /\ m.byte = NoByte /\ m.seq = r.ack + Window
                /\ o \in Store(r, m, r.ack .. r.ack + Window - 1)
  <2>1. CASE Size(m) = 1
    BY <1>4, <1>7, <1>8, <2>1
  <2>2. CASE Size(m) = 0
    BY <1>5, <1>8, <2>2
  <2> QED BY <1>6, <2>1, <2>2
<1> QED BY <1>2, <1>3, <1>8

LEMMA OnDataSound ==
    ASSUME NEW s, Typed(s), Fresh(s), NEW m, IsSegment(m), NEW o \in OnData(s, m)
    PROVE  Sound(o) /\ Adds(s, m, o.sock)
<1> DEFINE r == Update(s, m)
<1>1. /\ Typed(r) /\ Fresh(r) /\ r.got = s.got /\ r.rcv = s.rcv /\ r.buf = s.buf
      /\ InStep(r)
  BY UpdateTyped DEF Fresh, InStep
<1>2. \/ o \in Quietly(r) \cup Acknowledged(r)
      \/ /\ m.byte # NoByte /\ m.seq \in r.ack .. r.ack + Window - 1
         /\ o \in Store(r, m, {m.seq})
      \/ /\ m.byte = NoByte /\ m.seq = r.ack + Window
         /\ o \in Store(r, m, r.ack .. r.ack + Window - 1)
  BY OnDataCases
<1> HIDE DEF r
<1>3. ASSUME o \in Quietly(r) \cup Acknowledged(r) PROVE Sound(o) /\ Adds(s, m, o.sock)
  BY <1>1, <1>3, QuietlySound, AcknowledgedSound DEF Adds
<1>4. ASSUME m.byte # NoByte, m.seq \in r.ack .. r.ack + Window - 1,
             o \in Store(r, m, {m.seq})
      PROVE  Sound(o) /\ Adds(s, m, o.sock)
  <2>1. {m.seq} \in SUBSET (r.ack .. r.ack + Window - 1)
    BY <1>4
  <2>2. /\ Sound(o)
        /\ \/ o.sock.got = r.got
           \/ r.buf /\ o.sock.got = r.got \cup {<<p, m.byte>> : p \in {m.seq}}
    BY <1>1, <1>4, <2>1, StoreSound
  <2>3. {<<p, m.byte>> : p \in {m.seq}} = {<<m.seq, m.byte>>}
    OBVIOUS
  <2> QED BY <1>1, <1>4, <2>2, <2>3 DEF Adds
<1>5. ASSUME m.byte = NoByte, m.seq = r.ack + Window,
             o \in Store(r, m, r.ack .. r.ack + Window - 1)
      PROVE  Sound(o) /\ Adds(s, m, o.sock)
  <2>1. /\ Sound(o)
        /\ \/ o.sock.got = r.got
           \/ /\ r.buf
              /\ o.sock.got = r.got \cup {<<p, m.byte>> : p \in r.ack .. r.ack + Window - 1}
    <3> DEFINE places == r.ack .. r.ack + Window - 1
    <3>1. places \in SUBSET (r.ack .. r.ack + Window - 1) /\ o \in Store(r, m, places)
      BY <1>5
    <3> HIDE DEF places
    <3>2. /\ Sound(o)
          /\ \/ o.sock.got = r.got
             \/ r.buf /\ o.sock.got = r.got \cup {<<p, m.byte>> : p \in places}
      BY <1>1, <3>1, StoreSound
    <3> QED BY <3>2 DEF places
  <2>2. r.buf => r.ack = s.rcv
    BY <1>1 DEF Fresh
  <2> QED BY <1>1, <1>5, <2>1, <2>2 DEF Adds
<1> QED BY <1>2, <1>3, <1>4, <1>5

LEMMA EstablishSound ==
    ASSUME NEW s, Typed(s), NEW m, IsSegment(m), NEW answer,
           \A i \in DOMAIN answer :
              IsSegment(answer[i]) /\ answer[i].byte = NoByte /\ answer[i].ack = s.ack,
           NEW o \in Establish(s, m, answer)
    PROVE  Sound(o) /\ o.sock.got = s.got /\ o.sock.rcv = s.ack /\ o.sock.buf
<1> DEFINE t == Opened(s)
           u == Update(t, m)
<1>1. /\ Typed(t) /\ t.state = "ESTABLISHED" /\ t.buf /\ t.rcv = s.ack /\ t.got = s.got
  BY DEF Opened, Started, Typed, IsSocket, States
<1> HIDE DEF t
<1>2. /\ Typed(u) /\ Fresh(u) /\ u.rcv = t.rcv /\ u.buf = t.buf /\ u.got = t.got
  BY <1>1, UpdateTyped
<1>3. o.sock = u /\ o.sent = answer
  BY DEF Establish, Outcome, t
<1> HIDE DEF u
<1> QED BY <1>1, <1>2, <1>3 DEF Sound, Answers, AckFits, Fresh, InStep

LEMMA OnSynSound ==
    ASSUME NEW s, Typed(s), Fresh(s), NEW m, IsSegment(m), NEW o \in OnSyn(s, m)
    PROVE  Sound(o) /\ o.sock.got = s.got
<1> DEFINE opened == [s EXCEPT !.state = "SYN_RECEIVED", !.ack = m.seq + 1]
           a == Segment(opened, {"SYN", "ACK"}, 0)
<1>1. /\ Typed(opened) /\ opened.state = "SYN_RECEIVED" /\ opened.got = s.got
  BY DEF Typed, IsSocket, IsSegment, States
<1>2. IsSegment(a) /\ a.byte = NoByte
  BY <1>1, SegmentAnswers DEF Flags
<1>3. \/ o = Outcome([opened EXCEPT !.bound = TRUE, !.caux = s.caux + 1], <<a>>)
      \/ o = Outcome([opened EXCEPT !.simultaneous_open = TRUE], <<a>>)
      \/ o \in Reset(s)
  BY DEF OnSyn
<1> HIDE DEF opened, a
<1>4. ASSUME o = Outcome([opened EXCEPT !.bound = TRUE, !.caux = s.caux + 1], <<a>>)
      PROVE  Sound(o) /\ o.sock.got = s.got
  <2> DEFINE t == [opened EXCEPT !.bound = TRUE, !.caux = s.caux + 1]
  <2>1. Typed(t) /\ t.state = "SYN_RECEIVED" /\ t.got = s.got
    BY <1>1 DEF Typed, IsSocket
  <2>2. o.sock = t /\ o.sent = <<a>>
    BY <1>4 DEF Outcome
  <2> HIDE DEF t
  <2> QED BY <1>2, <2>1, <2>2 DEF Sound, InStep, Answers, AckFits
<1>5. ASSUME o = Outcome([opened EXCEPT !.simultaneous_open = TRUE], <<a>>)
      PROVE  Sound(o) /\ o.sock.got = s.got
  <2> DEFINE t == [opened EXCEPT !.simultaneous_open = TRUE]
  <2>1. Typed(t) /\ t.state = "SYN_RECEIVED" /\ t.got = s.got
    BY <1>1 DEF Typed, IsSocket
  <2>2. o.sock = t /\ o.sent = <<a>>
    BY <1>5 DEF Outcome
  <2> HIDE DEF t
  <2> QED BY <1>2, <2>1, <2>2 DEF Sound, InStep, Answers, AckFits
<1> QED BY <1>3, <1>4, <1>5, ResetSound

LEMMA OnSynAckSound ==
    ASSUME NEW s, Typed(s), Fresh(s), NEW m, IsSegment(m), NEW o \in OnSynAck(s, m)
    PROVE  Sound(o) /\ o.sock.got = s.got
<1> DEFINE answered == [s EXCEPT !.ack = m.seq + 1]
           counted  == [s EXCEPT !.cseq = s.cseq + 1]
           a == Segment(Opened(answered), {"ACK"}, 0)
<1>1. /\ Typed(answered) /\ answered.got = s.got /\ answered.ack = m.seq + 1
      /\ answered.buf = s.buf /\ answered.state = s.state
  BY DEF Typed, IsSocket, IsSegment
<1>2. /\ Typed(counted) /\ counted.got = s.got /\ Fresh(counted)
  BY DEF Typed, IsSocket, Fresh
<1>3. IsSegment(a) /\ a.byte = NoByte /\ a.ack = answered.ack
  <2> DEFINE t == Opened(answered)
  <2>1. Typed(t) /\ t.ack = answered.ack
    BY <1>1 DEF Opened, Started, Typed, IsSocket, States
  <2> HIDE DEF t
  <2> QED BY <2>1, SegmentAnswers DEF Flags, t
<1>4. \/ s.state = "SYN_SENT" /\ o \in Establish(answered, m, <<a>>)
      \/ s.state = "SYN_SENT" /\ o \in NoMemory(answered)
      \/ o \in Establish(s, m, <<>>)
      \/ o \in NoMemory(counted)
      \/ o \in Reset(s)
  BY DEF OnSynAck, JustAck
<1> HIDE DEF answered, counted, a
<1>5. ASSUME s.state = "SYN_SENT" PROVE Fresh(answered)
  BY <1>1, <1>5 DEF Fresh
<1>6. ASSUME o \in Establish(answered, m, <<a>>) PROVE Sound(o) /\ o.sock.got = s.got
  BY <1>1, <1>3, <1>6, EstablishSound
<1>7. ASSUME o \in Establish(s, m, <<>>) PROVE Sound(o) /\ o.sock.got = s.got
  BY <1>7, EstablishSound
<1> QED BY <1>1, <1>2, <1>4, <1>5, <1>6, <1>7, NoMemorySound, ResetSound
LEMMA FinAckSegmentsSound ==
    ASSUME NEW s, Typed(s), Fresh(s), NEW m, IsSegment(m),
           NEW more, Typed(more), more.ack = s.ack + 1,
           NEW n, Typed(n), n.state \in Halves,
           n.rcv = s.rcv, n.buf = s.buf, n.got = s.got,
           NEW o, o.sock = Update(n, m), NEW a, a = AckSegment(more),
           NEW f, f = Segment(more, {"FIN", "ACK"}, more.nxt),
           o.sent = <<a>> \/ o.sent = <<a, f>>
    PROVE  Sound(o) /\ o.sock.got = s.got
<1> DEFINE u == Update(n, m)
<1>0. n.state # "SYN_SENT" /\ n.state # "SYN_RECEIVED"
  BY DEF Halves, Connected
<1>1. /\ IsSegment(a) /\ a.byte = NoByte /\ a.ack = s.ack + 1
      /\ IsSegment(f) /\ f.byte = NoByte /\ f.ack = s.ack + 1
  <2>1. {"ACK"} \in SUBSET Flags /\ {"FIN", "ACK"} \in SUBSET Flags /\ more.nxt \in Nat
    BY DEF Flags, Typed
  <2> QED BY <2>1, SegmentAnswers DEF AckSegment
<1>2. /\ Typed(u) /\ Fresh(u) /\ u.rcv = s.rcv /\ u.buf = s.buf /\ u.got = s.got
      /\ u.state = n.state
  BY <1>0, UpdateTyped DEF Alike
<1>3. o.sock = u
  OBVIOUS
<1> HIDE DEF u
<1>4. Answers(u, a) /\ Answers(u, f)
  BY <1>1, <1>2 DEF Answers, AckFits, Fresh
<1>5. \A i \in DOMAIN o.sent : Answers(u, o.sent[i])
  BY <1>4
<1> QED BY <1>2, <1>3, <1>5 DEF Sound, Fresh, InStep

LEMMA ClosedQuietlySound ==
    ASSUME NEW s, Typed(s), Fresh(s), NEW m, IsSegment(m),
           NEW o \in Quietly(Update([s EXCEPT !.state = "CLOSED"], m))
    PROVE  Sound(o) /\ o.sock.got = s.got
<1> DEFINE n == [s EXCEPT !.state = "CLOSED"]
           u == Update(n, m)
<1>1. Typed(n) /\ n.state = "CLOSED" /\ n.got = s.got
  BY DEF Typed, IsSocket, States
<1> HIDE DEF n
<1>2. Typed(u) /\ Fresh(u) /\ u.got = s.got
  BY <1>1, UpdateTyped
<1>3. o \in Quietly(u)
  BY DEF n
<1> HIDE DEF u
<1> QED BY <1>2, <1>3, QuietlySound DEF Fresh, InStep

LEMMA OnFinSound ==
    ASSUME NEW s, Typed(s), Fresh(s), NEW m, IsSegment(m), NEW o \in OnFin(s, m)
    PROVE  Sound(o) /\ o.sock.got = s.got
<1> PICK more : more = [s EXCEPT !.ack = s.ack + 1]
  OBVIOUS
<1> PICK a, f : a = AckSegment(more) /\ f = Segment(more, {"FIN", "ACK"}, s.nxt)
  OBVIOUS
<1>1. ASSUME s.state = "ESTABLISHED" PROVE Sound(o) /\ o.sock.got = s.got
  <2> PICK n : n = [more EXCEPT !.state = "CLOSE_WAIT", !.caux = s.caux + 1]
    OBVIOUS
  <2>1. o.sock = Update(n, m) /\ o.sent = <<a, f>>
    BY <1>1 DEF OnFin, Outcome
  <2>2. "CLOSE_WAIT" \in Halves
    BY DEF Halves, Connected
  <2>3. /\ Typed(more) /\ more.ack = s.ack + 1 /\ more.nxt = s.nxt
        /\ Typed(n) /\ n.state \in Halves
        /\ n.rcv = s.rcv /\ n.buf = s.buf /\ n.got = s.got
    <3>1. Typed(more) /\ more.ack = s.ack + 1 /\ more.nxt = s.nxt
      BY DEF Typed, IsSocket
    <3>2. Typed(n) /\ n.rcv = s.rcv /\ n.buf = s.buf /\ n.got = s.got
      BY DEF Typed, IsSocket, States
    <3>3. n.state \in Halves
      BY <2>2, <3>1 DEF Typed, IsSocket
    <3> QED BY <3>1, <3>2, <3>3
  <2>4. f = Segment(more, {"FIN", "ACK"}, more.nxt) /\ a = AckSegment(more)
    BY <2>3
  <2> QED BY ONLY Typed(s), Fresh(s), IsSegment(m), <2>1, <2>3, <2>4, FinAckSegmentsSound
<1>2. ASSUME s.state = "CLOSE_WAIT" PROVE Sound(o) /\ o.sock.got = s.got
  <2>1. o \in Quietly(Update([s EXCEPT !.state = "CLOSED"], m))
    BY <1>2 DEF OnFin
  <2> QED BY <2>1, ClosedQuietlySound
<1>3. ASSUME s.state = "FIN_WAIT1" \/ (s.state = "FIN_WAIT2" /\ AcksFin(s, m))
      PROVE  Sound(o) /\ o.sock.got = s.got
  <2> PICK st \in {"CLOSING", "TIME_WAIT"} :
         o.sock = Update([more EXCEPT !.state = st], m) /\ o.sent = <<a>>
    BY <1>3 DEF OnFin, Outcome
  <2> PICK n : n = [more EXCEPT !.state = st]
    OBVIOUS
  <2>1. o.sock = Update(n, m) /\ o.sent = <<a>>
    OBVIOUS
  <2>2. st \in Halves
    BY DEF Halves, Connected
  <2>3. /\ Typed(more) /\ more.ack = s.ack + 1 /\ more.nxt = s.nxt
        /\ Typed(n) /\ n.state \in Halves
        /\ n.rcv = s.rcv /\ n.buf = s.buf /\ n.got = s.got
    <3>1. Typed(more) /\ more.ack = s.ack + 1 /\ more.nxt = s.nxt
      BY DEF Typed, IsSocket
    <3>2. Typed(n) /\ n.rcv = s.rcv /\ n.buf = s.buf /\ n.got = s.got
      BY DEF Typed, IsSocket, States
    <3>3. n.state \in Halves
      BY <2>2, <3>1 DEF Typed, IsSocket
    <3> QED BY <3>1, <3>2, <3>3
  <2>4. f = Segment(more, {"FIN", "ACK"}, more.nxt) /\ a = AckSegment(more)
    BY <2>3
  <2> QED BY ONLY Typed(s), Fresh(s), IsSegment(m), <2>1, <2>3, <2>4, FinAckSegmentsSound
<1>4. ASSUME s.state \notin {"ESTABLISHED", "CLOSE_WAIT", "FIN_WAIT1"},
             ~ (s.state = "FIN_WAIT2" /\ AcksFin(s, m))
      PROVE  Sound(o) /\ o.sock.got = s.got
  BY <1>4, ResetSound DEF OnFin
<1> QED BY <1>1, <1>2, <1>3, <1>4

LEMMA OnFinAckSound ==
    ASSUME NEW s, Typed(s), Fresh(s), NEW m, IsSegment(m), NEW o \in OnFinAck(s, m)
    PROVE  Sound(o) /\ o.sock.got = s.got
<1> PICK more : more = [s EXCEPT !.ack = s.ack + 1]
  OBVIOUS
<1> PICK a, f : a = AckSegment(more) /\ f = Segment(more, {"FIN", "ACK"}, s.nxt)
  OBVIOUS
<1>1. ASSUME \/ s.state = "ESTABLISHED"
             \/ s.state \in {"FIN_WAIT1", "FIN_WAIT2"} /\ AcksFin(s, m)
      PROVE  Sound(o) /\ o.sock.got = s.got
  <2> PICK st \in {"LAST_ACK", "TIME_WAIT"} :
         /\ o.sock = Update([more EXCEPT !.state = st], m)
         /\ o.sent = <<a>> \/ o.sent = <<a, f>>
    BY <1>1 DEF OnFinAck, Outcome
  <2> PICK n : n = [more EXCEPT !.state = st]
    OBVIOUS
  <2>1. o.sock = Update(n, m) /\ (o.sent = <<a>> \/ o.sent = <<a, f>>)
    OBVIOUS
  <2>2. st \in Halves
    BY DEF Halves, Connected
  <2>3. /\ Typed(more) /\ more.ack = s.ack + 1 /\ more.nxt = s.nxt
        /\ Typed(n) /\ n.state \in Halves
        /\ n.rcv = s.rcv /\ n.buf = s.buf /\ n.got = s.got
    <3>1. Typed(more) /\ more.ack = s.ack + 1 /\ more.nxt = s.nxt
      BY DEF Typed, IsSocket
    <3>2. Typed(n) /\ n.rcv = s.rcv /\ n.buf = s.buf /\ n.got = s.got
      BY DEF Typed, IsSocket, States
    <3>3. n.state \in Halves
      BY <2>2, <3>1 DEF Typed, IsSocket
    <3> QED BY <3>1, <3>2, <3>3
  <2>4. f = Segment(more, {"FIN", "ACK"}, more.nxt) /\ a = AckSegment(more)
    BY <2>3
  <2> QED BY ONLY Typed(s), Fresh(s), IsSegment(m), <2>1, <2>3, <2>4, FinAckSegmentsSound
<1>2. ASSUME s.state = "CLOSE_WAIT" PROVE Sound(o) /\ o.sock.got = s.got
  <2>1. o \in Quietly(Update([s EXCEPT !.state = "CLOSED"], m))
    BY <1>2 DEF OnFinAck
  <2> QED BY <2>1, ClosedQuietlySound
<1>3. ASSUME s.state \notin {"ESTABLISHED", "CLOSE_WAIT"},
             ~ (s.state \in {"FIN_WAIT1", "FIN_WAIT2"} /\ AcksFin(s, m))
      PROVE  Sound(o) /\ o.sock.got = s.got
  BY <1>3, ResetSound DEF OnFinAck
<1> QED BY <1>1, <1>2, <1>3

LEMMA TurnedQuietlySound ==
    ASSUME NEW s, Typed(s), Fresh(s), NEW st \in States \ {"SYN_SENT"},
           NEW o \in Quietly([s EXCEPT !.state = st])
    PROVE  Sound(o) /\ o.sock.got = s.got
<1> DEFINE n == [s EXCEPT !.state = st]
<1>1. Typed(n) /\ InStep(n) /\ n.got = s.got
  BY DEF Typed, IsSocket, Fresh, InStep
<1> HIDE DEF n
<1> QED BY <1>1, QuietlySound DEF n

LEMMA OnAckSound ==
    ASSUME NEW s, Typed(s), Fresh(s), NEW m, IsSegment(m), NEW o \in OnAck(s, m)
    PROVE  Sound(o) /\ Adds(s, m, o.sock)
<1>1. \/ o \in Establish(s, m, <<>>) \cup NoMemory(s)
      \/ o \in Reset(s) \cup OnData(s, m)
      \/ o \in Quietly([s EXCEPT !.state = "FIN_WAIT2"])
      \/ o \in Quietly([s EXCEPT !.state = "CLOSED"])
  BY DEF OnAck
<1>2. {"FIN_WAIT2", "CLOSED"} \subseteq States \ {"SYN_SENT"}
  BY DEF States
<1>3. ASSUME o \in Establish(s, m, <<>>) PROVE Sound(o) /\ o.sock.got = s.got
  BY <1>3, EstablishSound
<1> QED BY <1>1, <1>2, <1>3, NoMemorySound, ResetSound, OnDataSound,
       TurnedQuietlySound DEF Adds

(* The whole handler, for the buffer.                                      *)
LEMMA ReceivedSound ==
    ASSUME NEW s, Typed(s), InStep(s), NEW m, IsSegment(m), NEW o \in Received(s, m)
    PROVE  Sound(o) /\ Adds(s, m, o.sock)
<1> DEFINE r == Refresh(s)
<1>1. /\ Typed(r) /\ Fresh(r) /\ Alike(s, r)
      /\ r.got = s.got /\ r.rcv = s.rcv /\ r.buf = s.buf
  BY RefreshTyped DEF InStep, Refresh, Typed, IsSocket
<1>2. CASE s.state = "TIME_WAIT"
  <2>1. o \in Quietly(s)
    BY <1>2 DEF Received
  <2> QED BY <2>1, QuietlySound DEF Adds
<1>3. CASE s.state # "TIME_WAIT" /\ "RST" \in m.flags
  <2>1. \/ o \in Quietly([r EXCEPT !.state = "LISTEN"])
        \/ o \in Quietly([r EXCEPT !.state = "CLOSED"])
    BY <1>3 DEF Received
  <2>2. {"LISTEN", "CLOSED"} \subseteq States \ {"SYN_SENT"}
    BY DEF States
  <2> HIDE DEF r
  <2> QED BY <1>1, <2>1, <2>2, TurnedQuietlySound DEF Adds
<1>4. CASE s.state # "TIME_WAIT" /\ "RST" \notin m.flags
  <2>1. \/ o \in OnSyn(r, m) \cup OnSynAck(r, m)
        \/ o \in Reset(r) \cup OnFin(r, m) \cup OnFinAck(r, m)
        \/ o \in OnAck(r, m) \cup OnData(r, m)
    BY <1>4 DEF Received
  <2> HIDE DEF r
  <2>2. ASSUME o \in OnSyn(r, m) \cup OnSynAck(r, m) \cup Reset(r) \cup OnFin(r, m)
                       \cup OnFinAck(r, m)
        PROVE  Sound(o) /\ o.sock.got = s.got
    BY <1>1, <2>2, OnSynSound, OnSynAckSound, OnFinSound, OnFinAckSound, ResetSound
  <2>3. ASSUME o \in OnAck(r, m) \cup OnData(r, m)
        PROVE  Sound(o) /\ Adds(r, m, o.sock)
    BY <1>1, <2>3, OnAckSound, OnDataSound
  <2>4. Adds(r, m, o.sock) => Adds(s, m, o.sock)
    BY <1>1 DEF Adds
  <2> QED BY <2>1, <2>2, <2>3, <2>4 DEF Adds
<1> QED BY <1>2, <1>3, <1>4

-----------------------------------------------------------------------------
(* The timer tick                                                          *)

LEMMA OneAndOne ==
    ASSUME NEW a, NEW b
    PROVE  <<a>> \o <<b>> = <<a, b>>
<1> DEFINE S == {a, b}
<1>1. <<a>> \in Seq(S) /\ b \in S
  OBVIOUS
<1>2. Append(<<a>>, b) = <<a>> \o <<b>>
  BY <1>1, AppendIsConcat
<1>3. Append(<<a>>, b) = <<a, b>>
  <2> DEFINE s == Append(<<a>>, b)
             t == <<a, b>>
  <2>1. s \in Seq(S) /\ Len(s) = 2 /\ s[1] = a /\ s[2] = b
    BY <1>1, AppendProperties
  <2>2. t \in Seq(S) /\ Len(t) = 2 /\ t[1] = a /\ t[2] = b
    OBVIOUS
  <2> HIDE DEF s, t
  <2>3. \A i \in 1 .. Len(s) : s[i] = t[i]
    BY <2>1, <2>2
  <2>4. s = t
    BY ONLY <2>1, <2>2, <2>3, SeqEqual
  <2> QED BY <2>4 DEF s, t
<1> QED BY <1>2, <1>3

(* A queue of segments.                                                    *)
IsQueue(q) == \E S : q \in Seq(S)

LEMMA TickedSound ==
    ASSUME NEW s, Typed(s), InStep(s), NEW available \in Nat,
           NEW o \in Ticked(s, available)
    PROVE  /\ Typed(o.sock) /\ InStep(o.sock)
           /\ o.sock.state = s.state /\ o.sock.passive = s.passive
           /\ o.sock.bound = s.bound
           /\ o.sock.simultaneous_open = s.simultaneous_open
           /\ o.sock.cseq = s.cseq /\ o.sock.caux = s.caux /\ o.sock.una = s.una
           /\ o.sock.rcv = s.rcv /\ o.sock.buf = s.buf /\ o.sock.got = s.got
           /\ o.sock.held = s.held /\ (~ s.buf => o.sock.ack = s.ack)
           /\ \/ o.sock.nxt = s.nxt /\ o.sock.timers \subseteq s.timers
              \/ /\ Sending(s, available) /\ o.sock.nxt = s.nxt + 1
                 /\ o.sock.timers \subseteq s.timers \cup {s.nxt}
           /\ IsQueue(o.sent)
           /\ \A i \in DOMAIN o.sent :
                 \E k \in s.timers \cup {s.nxt} :
                    /\ k < o.sock.nxt
                    /\ k = s.nxt => Sending(s, available)
                    /\ IsSegment(o.sent[i]) /\ AckFits(o.sock, o.sent[i])
                    /\ o.sent[i].flags = {"ACK"}
                    /\ o.sent[i].byte = k /\ o.sent[i].seq = s.cseq + k
<1> DEFINE new  == SentNew(s, available)
           t    == new.sock
           kept == {k \in t.timers : ~ IsAcked(t, k)}
           u    == [t EXCEPT !.timers = kept]
<1>1. \/ /\ ~ Sending(s, available) /\ t = s /\ new.sent = <<>>
      \/ /\ Sending(s, available)
         /\ \E r : /\ r = Refresh(s)
                   /\ t = [r EXCEPT !.nxt = r.nxt + 1, !.timers = r.timers \cup {r.nxt}]
                   /\ new.sent = <<DataSegment(r, r.nxt)>>
  BY DEF SentNew, Outcome
<1> DEFINE Kept(v) ==
             /\ Typed(v) /\ InStep(v)
             /\ v.state = s.state /\ v.passive = s.passive /\ v.bound = s.bound
             /\ v.simultaneous_open = s.simultaneous_open
             /\ v.cseq = s.cseq /\ v.caux = s.caux /\ v.una = s.una
             /\ v.rcv = s.rcv /\ v.buf = s.buf /\ v.got = s.got
             /\ v.held = s.held /\ (~ s.buf => v.ack = s.ack)
             /\ \/ v.nxt = s.nxt /\ v.timers \subseteq s.timers
                \/ /\ Sending(s, available) /\ v.nxt = s.nxt + 1
                   /\ v.timers \subseteq s.timers \cup {s.nxt}
           Good(v, a) ==
             \E k \in s.timers \cup {s.nxt} :
                /\ k < v.nxt
                /\ k = s.nxt => Sending(s, available)
                /\ IsSegment(a) /\ AckFits(v, a) /\ a.flags = {"ACK"}
                /\ a.byte = k /\ a.seq = s.cseq + k
<1>2. Kept(t) /\ (\A i \in DOMAIN new.sent : Good(t, new.sent[i]))
  <2>1. CASE ~ Sending(s, available)
    <3> HIDE DEF new
    <3>1. t = s /\ new.sent = <<>>
      BY <1>1, <2>1
    <3>2. Kept(s)
      OBVIOUS
    <3> QED BY <3>1, <3>2
  <2>2. CASE Sending(s, available)
    <3> PICK r : /\ r = Refresh(s)
                 /\ t = [r EXCEPT !.nxt = r.nxt + 1, !.timers = r.timers \cup {r.nxt}]
                 /\ new.sent = <<DataSegment(r, r.nxt)>>
      BY <1>1, <2>2
    <3>1. /\ Typed(r) /\ Fresh(r) /\ Alike(s, r) /\ r.una = s.una /\ r.bound = s.bound
          /\ r.rcv = s.rcv /\ r.buf = s.buf /\ r.got = s.got
          /\ r.held = s.held /\ (~ s.buf => r.ack = s.ack)
      BY RefreshTyped DEF InStep, Refresh, Typed, IsSocket
    <3>2. t = [r EXCEPT !.nxt = r.nxt + 1, !.timers = r.timers \cup {r.nxt}]
      OBVIOUS
    <3>3. new.sent = <<DataSegment(r, s.nxt)>>
      BY <3>1 DEF Alike
    <3> HIDE DEF new, t
    <3>4. /\ Typed(t) /\ InStep(t)
          /\ t.state = r.state /\ t.passive = r.passive /\ t.bound = r.bound
          /\ t.simultaneous_open = r.simultaneous_open
          /\ t.cseq = r.cseq /\ t.caux = r.caux /\ t.una = r.una
          /\ t.rcv = r.rcv /\ t.buf = r.buf /\ t.got = r.got /\ t.ack = r.ack
          /\ t.held = r.held
          /\ t.nxt = r.nxt + 1 /\ t.timers = r.timers \cup {r.nxt}
      BY <3>1, <3>2 DEF Typed, IsSocket, Fresh, InStep
    <3>5. Kept(t)
      BY <2>2, <3>1, <3>4 DEF Alike
    <3>6. Good(t, DataSegment(r, s.nxt))
      <4>1. /\ DataSegment(r, s.nxt).ack = r.ack
            /\ DataSegment(r, s.nxt).seq = s.cseq + s.nxt
            /\ DataSegment(r, s.nxt).byte = s.nxt
            /\ DataSegment(r, s.nxt).flags = {"ACK"}
        BY <3>1 DEF DataSegment, Segment, Alike
      <4>2. IsSegment(DataSegment(r, s.nxt))
        BY <3>1, <4>1 DEF IsSegment, Flags, Typed
      <4>3. AckFits(t, DataSegment(r, s.nxt))
        BY <3>1, <3>4, <4>1 DEF AckFits, Fresh
      <4>4. s.nxt < t.nxt
        BY <3>1, <3>4 DEF Alike, Typed
      <4> QED BY <2>2, <4>1, <4>2, <4>3, <4>4
    <3> HIDE DEF Kept, Good
    <3> QED BY <3>3, <3>5, <3>6
  <2> QED BY <2>1, <2>2
<1>3. /\ Kept(u) /\ u.nxt = t.nxt /\ u.state = t.state /\ u.buf = t.buf /\ u.rcv = t.rcv
  <2>1. kept \subseteq t.timers
    OBVIOUS
  <2> HIDE DEF kept, new, t
  <2> QED BY <1>2, <2>1 DEF Typed, IsSocket, InStep, t
<1>4. \A a : Good(t, a) => Good(u, a)
  BY <1>3 DEF AckFits
<1>5. ASSUME NEW k \in kept \cap s.timers
      PROVE  Good(t, DataSegment(t, k))
  <2> HIDE DEF new, t
  <2>1. /\ DataSegment(t, k).ack = t.ack
        /\ DataSegment(t, k).seq = s.cseq + k
        /\ DataSegment(t, k).byte = k
        /\ DataSegment(t, k).flags = {"ACK"}
    BY <1>2 DEF DataSegment, Segment
  <2>2. k \in Nat /\ k < t.nxt /\ k # s.nxt
    BY <1>2 DEF Typed
  <2>3. IsSegment(DataSegment(t, k))
    BY <1>2, <2>1, <2>2 DEF IsSegment, Flags, Typed
  <2>4. AckFits(t, DataSegment(t, k))
    BY <1>2, <2>1 DEF AckFits, InStep
  <2> QED BY <2>1, <2>2, <2>3, <2>4
<1>6. /\ o.sock = u
      /\ \/ o.sent = new.sent
         \/ \E k \in kept \cap s.timers : o.sent = new.sent \o <<DataSegment(t, k)>>
  <2>1. \/ o = Outcome(u, new.sent)
        \/ \E k \in kept \cap s.timers : o = Outcome(u, new.sent \o <<DataSegment(t, k)>>)
    BY DEF Ticked
  <2> HIDE DEF new, u, kept, t
  <2>2. \A v, q : Outcome(v, q).sock = v /\ Outcome(v, q).sent = q
    BY DEF Outcome
  <2>3. CASE o = Outcome(u, new.sent)
    BY ONLY <2>2, <2>3
  <2>4. ASSUME NEW k \in kept \cap s.timers,
               o = Outcome(u, new.sent \o <<DataSegment(t, k)>>)
        PROVE  /\ o.sock = u
               /\ \E j \in kept \cap s.timers : o.sent = new.sent \o <<DataSegment(t, j)>>
    <3>1. o.sock = u /\ o.sent = new.sent \o <<DataSegment(t, k)>>
      BY ONLY <2>2, <2>4
    <3> QED BY <3>1, Zenon
  <2> QED BY ONLY <2>1, <2>3, <2>4, Zenon
<1>7. new.sent = <<>> \/ \E a : new.sent = <<a>>
  BY <1>1
<1> HIDE DEF new, t, u, Good
<1>8. \A i \in DOMAIN o.sent : Good(u, o.sent[i])
  <2>1. CASE o.sent = new.sent
    BY <1>2, <1>4, <2>1
  <2>2. ASSUME NEW k \in kept \cap s.timers, o.sent = new.sent \o <<DataSegment(t, k)>>
        PROVE  \A i \in DOMAIN o.sent : Good(u, o.sent[i])
    <3>1. Good(u, DataSegment(t, k))
      BY <1>4, <1>5
    <3>2. \A i \in DOMAIN new.sent : Good(u, new.sent[i])
      BY <1>2, <1>4
    <3>3. CASE new.sent = <<>>
      BY <2>2, <3>1, <3>3
    <3>4. ASSUME NEW a, new.sent = <<a>>
          PROVE  \A i \in DOMAIN o.sent : Good(u, o.sent[i])
      <4>1. Good(u, a)
        BY <3>2, <3>4
      <4>2. o.sent = <<a, DataSegment(t, k)>>
        BY ONLY <2>2, <3>4, OneAndOne
      <4> QED BY <3>1, <4>1, <4>2
    <3> QED BY <1>7, <3>3, <3>4
  <2> QED BY <1>6, <2>1, <2>2
<1>9. IsQueue(o.sent)
  <2>1. ASSUME NEW a, NEW b PROVE <<>> \in Seq({a}) /\ <<a>> \in Seq({a}) /\ <<a, b>> \in Seq({a, b})
    OBVIOUS
  <2>2. o.sent = <<>> \/ (\E a : o.sent = <<a>>) \/ (\E a, b : o.sent = <<a, b>>)
    <3>1. CASE o.sent = new.sent
      BY <1>7, <3>1
    <3>2. ASSUME NEW b, o.sent = new.sent \o <<b>>
          PROVE  (\E a : o.sent = <<a>>) \/ (\E a, c : o.sent = <<a, c>>)
      <4>1. CASE new.sent = <<>>
        BY <3>2, <4>1
      <4>2. ASSUME NEW a, new.sent = <<a>> PROVE o.sent = <<a, b>>
        BY ONLY <3>2, <4>2, OneAndOne
      <4> QED BY <1>7, <4>1, <4>2
    <3> QED BY <1>6, <3>1, <3>2
  <2>3. IsQueue(<<>>) /\ (\A a, b : IsQueue(<<a>>) /\ IsQueue(<<a, b>>))
    BY <2>1, Zenon DEF IsQueue
  <2> QED BY <2>2, <2>3, Zenon
<1> HIDE DEF Kept
<1> QED BY <1>3, <1>6, <1>8, <1>9 DEF Kept, Good
=============================================================================
