--------------------------- MODULE TcpStreamProofs ---------------------------
(***************************************************************************)
(* What holds of TcpStream for every ring, window, segment and stream      *)
(* size: the receiver keeps the bytes it accepted and delivers the stream  *)
(* in order on any network, and the sender keeps to the window on a        *)
(* network that keeps acknowledgements in order.                           *)
(***************************************************************************)
EXTENDS TcpStream, TLAPS, FiniteSetTheorems, FunctionTheorems

(* Division with remainder by the size of the ring.                        *)
LEMMA ModFacts ==
    ASSUME NEW p \in Int
    PROVE  /\ p % RingSize \in Slots
           /\ p \div RingSize \in Int
           /\ p = RingSize * (p \div RingSize) + (p % RingSize)
<1>1. RingSize \in Int /\ RingSize > 0
  BY ParametersAssumption
<1>2. p % RingSize \in Slots
  BY <1>1, SMT DEF Slots
<1>3. p \div RingSize \in Int
  BY <1>1, SMT
<1>4. p = RingSize * (p \div RingSize) + (p % RingSize)
  BY <1>1, Z3
<1> QED BY <1>2, <1>3, <1>4

(* No multiple of the ring size but 0 is less than one ring away from 0.   *)
LEMMA NoMultipleBetween ==
    ASSUME NEW k \in Int, RingSize * k > -RingSize, RingSize * k < RingSize
    PROVE  k = 0
<1>1. RingSize \in Int /\ RingSize > 0
  BY ParametersAssumption
<1>2. ASSUME k >= 1 PROVE FALSE
  <2>1. RingSize * k >= RingSize
    BY <1>1, <1>2, Z3
  <2> QED BY <1>1, <2>1, SMT
<1>3. ASSUME k <= -1 PROVE FALSE
  <2>1. RingSize * k <= -RingSize
    BY <1>1, <1>3, Z3
  <2> QED BY <1>1, <2>1, SMT
<1> QED BY <1>2, <1>3

(* Positions less than one ring apart that share a slot are the same.      *)
LEMMA ModUnique ==
    ASSUME NEW p \in Int, NEW q \in Int, p % RingSize = q % RingSize,
           p - q < RingSize, q - p < RingSize
    PROVE  p = q
<1> DEFINE k == p \div RingSize
           l == q \div RingSize
<1>1. RingSize \in Int /\ RingSize > 0
  BY ParametersAssumption
<1>2. k \in Int /\ p = RingSize * k + (p % RingSize) /\ p % RingSize \in Int
  BY ModFacts DEF Slots
<1>3. l \in Int /\ q = RingSize * l + (q % RingSize)
  BY ModFacts
<1> HIDE DEF k, l
<1>4. p - q = RingSize * (k - l)
  <2>1. RingSize * (k - l) = RingSize * k - RingSize * l
    BY <1>1, <1>2, <1>3, Z3
  <2> QED BY <1>1, <1>2, <1>3, <2>1, SMT
<1>5. k - l \in Int /\ RingSize * (k - l) > -RingSize /\ RingSize * (k - l) < RingSize
  BY <1>1, <1>2, <1>3, <1>4, SMT
<1>6. k - l = 0
  BY <1>5, NoMultipleBetween
<1>7. p - q = 0
  BY <1>1, <1>4, <1>6, SMT
<1> QED BY <1>7

(* A position in the first ring is its own slot.                           *)
LEMMA ModSmall ==
    ASSUME NEW d \in Int, 0 <= d, d < RingSize
    PROVE  d % RingSize = d
<1>1. RingSize \in Int /\ RingSize > 0
  BY ParametersAssumption
<1> QED BY <1>1, SMT

(* diff is exact for distances that are neither negative nor a ring long.  *)
LEMMA DiffExact ==
    ASSUME NEW a \in Int, NEW b \in Int, b <= a, a - b < RingSize
    PROVE  Diff(a, b, RingSize) = a - b
BY ModSmall DEF Diff

(* diff of two slots is the distance of the positions they stand for.      *)
LEMMA DiffOfSlots ==
    ASSUME NEW a \in Int, NEW b \in Int, b <= a, a - b < RingSize
    PROVE  Diff(a % RingSize, b % RingSize, RingSize) = a - b
<1> DEFINE r == a % RingSize
           s == b % RingSize
           d == (r - s) % RingSize
<1>1. RingSize \in Int /\ RingSize > 0
  BY ParametersAssumption
<1>2. /\ r \in Slots /\ s \in Slots
      /\ a \div RingSize \in Int /\ b \div RingSize \in Int
      /\ a = RingSize * (a \div RingSize) + r
      /\ b = RingSize * (b \div RingSize) + s
  BY ModFacts
<1>3. r - s \in Int
  BY <1>1, <1>2 DEF Slots
<1>4. d \in Slots /\ (r - s) \div RingSize \in Int
      /\ r - s = RingSize * ((r - s) \div RingSize) + d
  BY <1>3, ModFacts
<1> DEFINE k == (a \div RingSize) - (b \div RingSize) + ((r - s) \div RingSize)
<1>5. k \in Int
  BY <1>2, <1>4
<1>6. (a - b) - d = RingSize * k
  <2> DEFINE u == a \div RingSize
             v == b \div RingSize
             w == (r - s) \div RingSize
  <2>1. u \in Int /\ v \in Int /\ w \in Int /\ k = u - v + w
    BY <1>2, <1>4
  <2>2. a = RingSize * u + r /\ b = RingSize * v + s /\ r - s = RingSize * w + d
    BY <1>2, <1>4
  <2>3. r \in Int /\ s \in Int /\ d \in Int
    BY <1>1, <1>2, <1>4 DEF Slots
  <2> HIDE DEF u, v, w, r, s, d, k
  <2>4. RingSize * k = RingSize * u - RingSize * v + RingSize * w
    BY <1>1, <2>1, Z3
  <2> QED BY <1>1, <2>1, <2>2, <2>3, <2>4, SMT
<1>7. d \in Int /\ 0 <= d /\ d < RingSize
  BY <1>1, <1>4 DEF Slots
<1> HIDE DEF d, k
<1>8. RingSize * k > -RingSize /\ RingSize * k < RingSize
  BY <1>1, <1>6, <1>7
<1>9. k = 0
  BY <1>5, <1>8, NoMultipleBetween
<1>10. a - b = d
  BY <1>1, <1>6, <1>7, <1>9
<1> QED BY <1>10 DEF Diff, d

(* Positions whole rings apart share a slot.                               *)
LEMMA ModShift ==
    ASSUME NEW p \in Int, NEW q \in Int, NEW k \in Int, p - q = RingSize * k
    PROVE  p % RingSize = q % RingSize
<1> DEFINE u == p \div RingSize
           v == q \div RingSize
           r == p % RingSize
           s == q % RingSize
<1>1. RingSize \in Int /\ RingSize > 0
  BY ParametersAssumption
<1>2. /\ u \in Int /\ v \in Int /\ r \in Slots /\ s \in Slots
      /\ p = RingSize * u + r /\ q = RingSize * v + s
  BY ModFacts
<1> HIDE DEF u, v, r, s
<1>3. /\ r \in Int /\ 0 <= r /\ r < RingSize
      /\ s \in Int /\ 0 <= s /\ s < RingSize
  BY <1>1, <1>2 DEF Slots
<1>4. r - s = RingSize * (k - u + v)
  <2>1. RingSize * (k - u + v) = RingSize * k - RingSize * u + RingSize * v
    BY <1>1, <1>2, Z3
  <2> QED BY <1>1, <1>2, <1>3, <2>1, SMT
<1> DEFINE d == k - u + v
<1>5. d \in Int /\ r - s = RingSize * d
  BY <1>2, <1>4
<1> HIDE DEF d
<1>6. RingSize * d > -RingSize /\ RingSize * d < RingSize
  BY <1>1, <1>3, <1>5
<1>7. d = 0
  BY <1>5, <1>6, NoMultipleBetween
<1>8. r = s
  BY <1>1, <1>3, <1>5, <1>7
<1> QED BY <1>8 DEF r, s

(* Stepping on from a slot is stepping on from its position.               *)
LEMMA ModAdd ==
    ASSUME NEW a \in Int, NEW i \in Int
    PROVE  ((a % RingSize) + i) % RingSize = (a + i) % RingSize
<1> DEFINE r == a % RingSize
           k == a \div RingSize
<1>1. RingSize \in Int /\ r \in Int /\ k \in Int /\ a = RingSize * k + r
  BY ModFacts, ParametersAssumption DEF Slots
<1> HIDE DEF r, k
<1>2. (a + i) - (r + i) = RingSize * k
  <2>1. RingSize * k \in Int
    BY <1>1
  <2> QED BY <1>1, <2>1
<1>3. (a + i) % RingSize = (r + i) % RingSize
  <2> DEFINE p == a + i
             q == r + i
  <2>1. p \in Int /\ q \in Int /\ p - q = RingSize * k
    BY <1>1, <1>2
  <2> HIDE DEF p, q
  <2>2. p % RingSize = q % RingSize
    BY <1>1, <2>1, ModShift
  <2> QED BY <2>2 DEF p, q
<1> QED BY <1>3 DEF r

-----------------------------------------------------------------------------
(* The inductive invariant of the receiver                                 *)

(* Only what was sent is in flight or timed.                               *)
SegmentsWereSent ==
    \A t \in data \cup tcp_timers : t.start + t.size <= send_next

(* Only what was received is acknowledged.                                 *)
AcksFollow ==
    /\ send_unacknowledged <= rcv_nxt
    /\ \A m \in acks : m.ack <= rcv_nxt

(* Only what was sent is received, and rcv_nxt is the first gap.           *)
ReceivedWasSent ==
    /\ rcv_nxt <= send_next
    /\ \A p \in held : rcv_nxt < p /\ p < send_next

(* What a running Get remembers.                                           *)
GetLocals ==
    /\ get_i <= get_count
    /\ get_count > 0 => get_tmp = (consumed + get_count) % RingSize

IInv == /\ TypeOK /\ SegmentsWereSent /\ AcksFollow /\ ReceivedWasSent
        /\ GetLocals /\ CursorExact /\ RingIntegrity /\ InOrderDelivery

(* What the assumptions on the constants say, in the provers' words.       *)
LEMMA Constants ==
    /\ RingSize \in Nat /\ RingSize > 0
    /\ Window \in Nat /\ 0 < Window /\ Window < RingSize
    /\ Mss \in Nat /\ 0 < Mss
    /\ Available \in Nat /\ MaxTimers \in Nat
    /\ Reorder \in BOOLEAN /\ Lossy \in BOOLEAN
BY ParametersAssumption

(* The unread bytes lie within one window.                                 *)
LEMMA UnreadFits ==
    ASSUME TypeOK, CursorExact
    PROVE  consumed <= rcv_nxt /\ rcv_nxt <= consumed + Window
<1>1. consumed \in Nat /\ get_count \in Nat /\ rcv_nxt \in Nat
  BY Constants DEF TypeOK, Offsets
<1>2. consumed <= rcv_nxt
  BY <1>1 DEF CursorExact
<1>3. CASE consumed = rcv_nxt
  BY <1>1, <1>3, Constants
<1>4. CASE consumed < rcv_nxt
  <2>1. rcv_nxt - 1 \in Stored
    BY <1>1, <1>4 DEF Stored
  <2>2. rcv_nxt - 1 < consumed + Window
    BY <2>1 DEF CursorExact
  <2> QED BY <1>1, <1>2, <2>2, Constants
<1> QED BY <1>1, <1>2, <1>3, <1>4

(* The window advertised is exactly what is left of Window: diff on the    *)
(* two cursors kept modulo the ring is their true distance.                *)
LEMMA WindowExact ==
    ASSUME TypeOK, CursorExact, NEW next \in Nat,
           consumed <= next, next <= consumed + Window
    PROVE  UpdatedWindow(next) = consumed + Window - next
<1>1. consumed \in Nat /\ curr_seg_start = consumed % RingSize
  BY Constants DEF TypeOK, Offsets, CursorExact
<1>2. Diff(next % RingSize, curr_seg_start, RingSize) = next - consumed
  <2>1. next \in Int /\ consumed \in Int /\ next - consumed < RingSize
    BY <1>1, Constants
  <2> QED BY <1>1, <2>1, DiffOfSlots
<1> QED BY <1>1, <1>2, Constants DEF UpdatedWindow

(* What Get computes as unread is exactly what the application has not     *)
(* released.                                                               *)
LEMMA UnreadExact ==
    ASSUME TypeOK, CursorExact
    PROVE  Unread = rcv_nxt - consumed
<1>1. consumed \in Nat /\ curr_seg_start = consumed % RingSize /\ rcv_nxt \in Nat
  BY Constants DEF TypeOK, Offsets, CursorExact
<1>2. consumed <= rcv_nxt /\ rcv_nxt <= consumed + Window
  BY UnreadFits
<1>3. rcv_nxt \in Int /\ consumed \in Int /\ rcv_nxt - consumed < RingSize
  BY <1>1, <1>2, Constants
<1> QED BY <1>1, <1>2, <1>3, DiffOfSlots DEF Unread

-----------------------------------------------------------------------------
(* The sender's new segment                                                *)

(* SendData's size stays inside the stream and inside diff's room.         *)
LEMMA NewSizeBounds ==
    ASSUME TypeOK
    PROVE  /\ NewSize \in Nat
           /\ send_next + NewSize <= Available
           /\ NewSize <= Room
           /\ Room \in Nat
<1>1. /\ send_unacknowledged \in Nat /\ send_window \in Nat
      /\ send_next \in Nat /\ send_next <= Available
  BY Constants DEF TypeOK, Offsets
<1>2. Room \in Nat
  <2>1. (send_unacknowledged + send_window) - send_next \in Int
    BY <1>1
  <2> QED BY <2>1, ModFacts, Constants DEF Room, Diff, Slots
<1>3. send_next % RingSize \in Nat /\ send_next % RingSize < RingSize
  BY <1>1, ModFacts, Constants DEF Slots
<1> DEFINE offset == send_next % RingSize
           room == Room
<1>4. offset \in Nat /\ offset < RingSize /\ room \in Nat
  BY <1>2, <1>3
<1> HIDE DEF offset, room
<1>5. NewSize = IF room > 0 /\ send_next < Available
               THEN SmallerOf(SmallerOf(room, Mss),
                              SmallerOf(RingSize - offset, Available - send_next))
               ELSE 0
  BY DEF NewSize, SizeWithin, room, offset
<1>6. NewSize \in Nat /\ send_next + NewSize <= Available /\ NewSize <= room
  BY <1>1, <1>4, <1>5, Constants DEF SmallerOf
<1> QED BY <1>2, <1>6 DEF room

(* A new segment begins at send_next and is what send_next goes on by.     *)
LEMMA NewSegmentsSent ==
    ASSUME TypeOK
    PROVE  /\ NewSegments \subseteq Segments
           /\ \A t \in NewSegments : t.start = send_next /\ t.size = NewSize
<1>1. /\ NewSize \in Nat /\ send_next \in Nat /\ send_next <= Available
      /\ send_next + NewSize <= Available
  BY NewSizeBounds, Constants DEF TypeOK, Offsets
<1>2. CASE NewSize = 0
  BY <1>2 DEF NewSegments
<1>3. CASE NewSize # 0
  <2>1. NewSegments = {[start |-> send_next, size |-> NewSize]}
    BY <1>3 DEF NewSegments
  <2>2. send_next \in Offsets /\ NewSize \in 1 .. Available
    BY <1>1, <1>3, Constants DEF Offsets
  <2> QED BY <2>1, <2>2 DEF Segments
<1> QED BY <1>2, <1>3

-----------------------------------------------------------------------------
(* The steps                                                               *)

(* The initial state.                                                      *)
LEMMA InitIInv == Init => IInv
<1> SUFFICES ASSUME Init PROVE IInv
  OBVIOUS
<1> USE DEF Init
<1>1. TypeOK
  <2>1. circular_buffer \in [Slots -> Offsets]
    BY Constants DEF Offsets, Junk
  <2>2. delivered \in Seq(Offsets)
    BY SMT
  <2>3. 0 \in Offsets /\ 0 \in Slots /\ Window \in 0 .. Window
        /\ 0 \in 0 .. RingSize - 1
    BY Constants DEF Offsets, Slots
  <2> QED BY <2>1, <2>2, <2>3 DEF TypeOK
<1>2. SegmentsWereSent /\ AcksFollow /\ ReceivedWasSent /\ GetLocals
  BY Constants DEF SegmentsWereSent, AcksFollow, ReceivedWasSent, GetLocals
<1>3. Stored = {}
  BY DEF Stored
<1>4. 0 % RingSize = 0
  BY ModSmall, Constants
<1>5. CursorExact /\ RingIntegrity /\ InOrderDelivery
  BY <1>3, <1>4 DEF CursorExact, RingIntegrity, InOrderDelivery
<1> QED BY <1>1, <1>2, <1>5 DEF IInv

(* What the receiver has is not touched.                                   *)
LEMMA ReceiverKept ==
    ASSUME IInv, UNCHANGED <<receiver, reading>>
    PROVE  GetLocals' /\ CursorExact' /\ RingIntegrity' /\ InOrderDelivery'
<1> USE DEF receiver, reading, IInv
<1>1. Stored' = Stored
  BY DEF Stored
<1> QED BY <1>1 DEF GetLocals, CursorExact, RingIntegrity, InOrderDelivery

(* The tick only sends and times what is in the stream.                    *)
LEMMA ExpiredIInv ==
    ASSUME IInv, Expired
    PROVE  IInv'
<1> DEFINE new    == NewSegments
           timers == TimersWith(new)
           acked  == {t \in timers : IsAcked(t)}
<1>1. PICK resent \in SUBSET ((timers \ acked) \ new),
           kept \in LeftBehind(inactive \cup acked) :
            /\ tcp_timers' = timers \ acked
            /\ inactive' = kept
            /\ dropped' = (dropped \/ (new # {} /\ TableFull))
            /\ data' = data \cup new \cup resent
            /\ send_next' = send_next + NewSize
            /\ UNCHANGED <<send_unacknowledged, send_window, acks,
                           receiver, reading>>
  BY DEF Expired
<1>2. TypeOK
  BY DEF IInv
<1>3. /\ NewSize \in Nat /\ send_next \in Nat
      /\ send_next + NewSize <= Available
  BY <1>2, NewSizeBounds, Constants DEF TypeOK, Offsets
<1>4. /\ new \subseteq Segments
      /\ \A t \in new : t.start = send_next /\ t.size = NewSize
  BY <1>2, NewSegmentsSent
<1>5. timers \subseteq tcp_timers \cup new
  BY DEF TimersWith
<1>6. kept \subseteq inactive \cup acked
  BY DEF LeftBehind
<1>7. send_next' \in Offsets /\ send_next <= send_next'
  BY <1>1, <1>3, Constants DEF Offsets
<1> HIDE DEF new, timers, acked
<1>8. acked \subseteq timers
  BY DEF acked
<1>9. TypeOK'
  <2>1. /\ tcp_timers' \in SUBSET Segments /\ inactive' \in SUBSET Segments
        /\ data' \in SUBSET Segments
    BY <1>1, <1>2, <1>4, <1>5, <1>6, <1>8 DEF TypeOK
  <2> QED BY <1>1, <1>2, <1>7, <2>1 DEF TypeOK, receiver, reading
<1>10. SegmentsWereSent'
  <2> SUFFICES ASSUME NEW t \in (data \cup tcp_timers)' 
               PROVE  t.start + t.size <= send_next'
    BY DEF SegmentsWereSent
  <2>1. t \in data \cup tcp_timers \/ t \in new
    BY <1>1, <1>5
  <2>2. CASE t \in data \cup tcp_timers
    <3>1. t.start + t.size <= send_next
      BY <2>2 DEF IInv, SegmentsWereSent
    <3>2. t.start \in Nat /\ t.size \in Nat
      BY <1>2, <2>2, Constants DEF TypeOK, Segments, Offsets
    <3> QED BY <1>1, <1>3, <3>1, <3>2
  <2>3. CASE t \in new
    BY <1>1, <1>3, <1>4, <2>3
  <2> QED BY <2>1, <2>2, <2>3
<1>11. AcksFollow'
  BY <1>1 DEF AcksFollow, IInv, receiver
<1>12. ReceivedWasSent'
  <2>1. rcv_nxt \in Nat /\ held \subseteq Nat
    BY <1>2, Constants DEF TypeOK, Offsets
  <2> QED BY <1>1, <1>3, <2>1 DEF ReceivedWasSent, IInv, receiver
<1>13. GetLocals' /\ CursorExact' /\ RingIntegrity' /\ InOrderDelivery'
  BY <1>1, ReceiverKept
<1> QED BY <1>9, <1>10, <1>11, <1>12, <1>13 DEF IInv

(* Add, of bytes sent and within the window, keeps what was stored.        *)
LEMMA AddStores ==
    ASSUME IInv, NEW start \in Nat, NEW size \in Nat,
           rcv_nxt <= start, size > 0,
           start + size <= send_next, start + size <= consumed + Window,
           Add(start, size), UNCHANGED <<send_next, reading>>
    PROVE  /\ rcv_nxt' \in Offsets /\ held' \subseteq Offsets
           /\ circular_buffer' \in [Slots -> Offsets]
           /\ suspect' \in BOOLEAN
           /\ rcv_nxt <= rcv_nxt' /\ rcv_nxt' <= consumed + Window
           /\ ReceivedWasSent' /\ GetLocals' /\ CursorExact'
           /\ RingIntegrity' /\ InOrderDelivery'
<1> DEFINE added == start .. (start + size - 1)
           got   == held \cup added
<1>1. /\ rcv_nxt \in Nat /\ send_next \in Nat /\ consumed \in Nat
      /\ send_next <= Available
      /\ held \subseteq Nat /\ get_count \in Nat
      /\ consumed <= rcv_nxt /\ rcv_nxt <= consumed + Window
  BY UnreadFits, Constants DEF IInv, TypeOK, Offsets
<1>2. PICK n \in rcv_nxt .. Available :
           /\ rcv_nxt .. (n - 1) \subseteq got
           /\ n \notin got
           /\ rcv_nxt' = n
           /\ held' = {p \in got : p > n}
  BY DEF Add
<1>3. circular_buffer' =
         [s \in Slots |-> IF \E p \in added : p % RingSize = s
                          THEN CHOOSE p \in added : p % RingSize = s
                          ELSE circular_buffer[s]]
  BY DEF Add
<1>4. n \in Nat /\ rcv_nxt <= n
  BY <1>1, <1>2
<1>5. \A p \in added : p \in Nat /\ rcv_nxt <= p /\ p < send_next
                       /\ p < consumed + Window
  <2> SUFFICES ASSUME NEW p \in added
               PROVE  /\ p \in Nat /\ rcv_nxt <= p /\ p < send_next
                      /\ p < consumed + Window
    OBVIOUS
  <2>1. p \in Int /\ start <= p /\ p <= start + size - 1
    OBVIOUS
  <2> QED BY <1>1, <2>1, Constants
<1>6. \A p \in held : /\ p \in Nat /\ rcv_nxt < p /\ p < send_next
                       /\ p < consumed + Window
  BY <1>1 DEF IInv, ReceivedWasSent, CursorExact, Stored
<1>7. n <= send_next /\ n <= consumed + Window
  <2>1. CASE n = rcv_nxt
    BY <1>1, <2>1 DEF IInv, ReceivedWasSent
  <2>2. CASE n # rcv_nxt
    <3>1. n - 1 \in got
      BY <1>1, <1>2, <1>4, <2>2
    <3>2. n - 1 < send_next /\ n - 1 < consumed + Window
      BY <1>5, <1>6, <3>1
    <3> QED BY <1>1, <1>4, <3>2, Constants
  <2> QED BY <2>1, <2>2
<1>8. rcv_nxt' \in Offsets /\ held' \subseteq Offsets
  <2>1. \A p \in got : p \in 0 .. Available
    BY <1>1, <1>5, <1>6, Constants
  <2>2. n \in 0 .. Available
    BY <1>1, <1>4, <1>7, Constants
  <2> QED BY <1>2, <2>1, <2>2 DEF Offsets
<1>9. ReceivedWasSent'
  BY <1>2, <1>5, <1>6, <1>7 DEF ReceivedWasSent
<1>10. Stored' \subseteq Stored \cup added
  <2> SUFFICES ASSUME NEW p \in Stored' PROVE p \in Stored \cup added
    OBVIOUS
  <2>1. CASE p \in held'
    BY <1>2, <2>1 DEF Stored
  <2>2. CASE p \notin held'
    <3>1. p \in consumed .. n - 1
      BY <1>2, <2>2 DEF Stored, reading
    <3>2. CASE p < rcv_nxt
      BY <1>1, <3>1, <3>2 DEF Stored
    <3>3. CASE p >= rcv_nxt
      <4>1. p \in rcv_nxt .. (n - 1)
        BY <1>1, <1>4, <3>1, <3>3
      <4> QED BY <1>2, <4>1 DEF Stored
    <3> QED BY <1>1, <1>4, <3>1, <3>2, <3>3
  <2> QED BY <2>1, <2>2
<1>11. \A p \in Stored \cup added :
          p \in Nat /\ consumed <= p /\ p < consumed + Window
  <2>1. \A p \in Stored : p \in Nat /\ consumed <= p
    BY <1>1, <1>6 DEF Stored
  <2>2. \A p \in Stored : p < consumed + Window
    BY DEF IInv, CursorExact
  <2> QED BY <1>1, <1>5, <2>1, <2>2
<1>12. GetLocals' /\ InOrderDelivery'
  BY DEF reading, IInv, GetLocals, InOrderDelivery
<1>13. CursorExact'
  <2>1. (curr_seg_start = consumed % RingSize)'
    BY DEF reading, IInv, CursorExact
  <2>2. (consumed + get_count <= rcv_nxt)'
    BY <1>1, <1>2, <1>4 DEF reading, IInv, CursorExact
  <2>3. (\A p \in Stored : p < consumed + Window)'
    BY <1>10, <1>11 DEF reading
  <2> QED BY <2>1, <2>2, <2>3 DEF CursorExact
<1>14. \A s \in Slots : circular_buffer'[s] \in Offsets
  <2> SUFFICES ASSUME NEW s \in Slots PROVE circular_buffer'[s] \in Offsets
    OBVIOUS
  <2>1. CASE \E p \in added : p % RingSize = s
    <3>1. circular_buffer'[s] \in added
      BY <1>3, <2>1
    <3> QED BY <1>1, <1>5, <3>1, Constants DEF Offsets
  <2>2. CASE ~ \E p \in added : p % RingSize = s
    <3>1. circular_buffer'[s] = circular_buffer[s]
      BY <1>3, <2>2
    <3> QED BY <3>1 DEF IInv, TypeOK
  <2> QED BY <2>1, <2>2
<1>15. circular_buffer' \in [Slots -> Offsets]
  BY <1>3, <1>14
<1>16. RingIntegrity'
  <2> SUFFICES ASSUME NEW p \in Stored'
               PROVE  circular_buffer'[p % RingSize] = p
    BY DEF RingIntegrity
  <2>1. p \in Stored \cup added /\ p \in Int
    BY <1>10, <1>11
  <2>2. p % RingSize \in Slots
    BY <2>1, ModFacts
  <2>3. ASSUME NEW q \in added, q % RingSize = p % RingSize
        PROVE  q = p
    <3>1. q \in Int /\ q - p < RingSize /\ p - q < RingSize
      BY <1>1, <1>11, <2>1, <2>3, Constants
    <3> QED BY <2>1, <2>3, <3>1, ModUnique
  <2>4. CASE \E q \in added : q % RingSize = p % RingSize
    <3> DEFINE q == CHOOSE q \in added : q % RingSize = p % RingSize
    <3>1. q \in added /\ q % RingSize = p % RingSize
      BY <2>4
    <3>2. circular_buffer'[p % RingSize] = q
      BY <1>3, <2>2, <2>4
    <3> QED BY <2>3, <3>1, <3>2
  <2>5. CASE ~ \E q \in added : q % RingSize = p % RingSize
    <3>1. p \in Stored
      BY <2>1, <2>5
    <3>2. circular_buffer'[p % RingSize] = circular_buffer[p % RingSize]
      BY <1>3, <2>2, <2>5
    <3> QED BY <3>1, <3>2 DEF IInv, RingIntegrity
  <2> QED BY <2>4, <2>5
<1>17. suspect' \in BOOLEAN
  BY DEF Add, IInv, TypeOK
<1> QED BY <1>2, <1>4, <1>7, <1>8, <1>9, <1>12, <1>13, <1>15, <1>16, <1>17

(* The two things an arrival can do to the receiver: nothing, or one Add   *)
(* of bytes that were sent and that fit the window.                        *)
LEMMA ArrivalCases ==
    ASSUME IInv, NEW seg \in data, DataArrives(seg)
    PROVE  /\ data' \subseteq data
           /\ UNCHANGED <<sender, reading>> /\ wild' \in BOOLEAN
           /\ \/ /\ NothingAdded
                 /\ acks' \subseteq acks \cup {Reply(rcv_nxt)}
              \/ \E start \in Nat, size \in Nat :
                    /\ rcv_nxt <= start /\ size > 0
                    /\ start + size <= send_next
                    /\ start + size <= consumed + Window
                    /\ Add(start, size)
                    /\ acks' = acks \cup {Reply(rcv_nxt')}
<1>1. /\ rcv_nxt \in Nat /\ send_next \in Nat /\ consumed \in Nat
      /\ consumed <= rcv_nxt /\ rcv_nxt <= consumed + Window
  BY UnreadFits, Constants DEF IInv, TypeOK, Offsets
<1>2. /\ seg.start \in Nat /\ seg.size \in Nat /\ 0 < seg.size
      /\ seg.start + seg.size <= send_next
  BY Constants DEF IInv, TypeOK, SegmentsWereSent, Segments, Offsets
<1>3. UpdatedWindow(rcv_nxt) = consumed + Window - rcv_nxt
  BY <1>1, WindowExact DEF IInv
<1>4. data' \subseteq data /\ UNCHANGED <<sender, reading>> /\ wild' \in BOOLEAN
  BY DEF DataArrives
<1>5. CASE NothingAdded /\ UNCHANGED acks
  BY <1>4, <1>5
<1>6. CASE OnClosedWindow \/ OnUnacceptableSegment(seg)
  BY <1>4, <1>6 DEF OnClosedWindow, OnUnacceptableSegment, Acknowledge
<1>7. CASE OnSegmentAhead(seg)
  <2> DEFINE size == SmallerOf(seg.size, (consumed + Window) - seg.start)
  <2>1. seg.start > rcv_nxt /\ consumed + Window > seg.start
    BY <1>1, <1>2, <1>3, <1>7, Constants DEF OnSegmentAhead, StartsAhead
  <2>2. rcv_nxt + (consumed + Window - rcv_nxt) = consumed + Window
    BY <1>1, Constants
  <2>3. Add(seg.start, size) /\ acks' = acks \cup {Reply(rcv_nxt')}
    BY <1>3, <1>7, <2>2 DEF OnSegmentAhead, Acknowledge
  <2>4. /\ size \in Nat /\ size > 0
        /\ seg.start + size <= send_next /\ seg.start + size <= consumed + Window
    BY <1>1, <1>2, <2>1, Constants DEF SmallerOf
  <2> HIDE DEF size
  <2>5. rcv_nxt <= seg.start
    BY <1>1, <1>2, <2>1
  <2> QED BY <1>2, <1>4, <2>3, <2>4, <2>5
<1>8. CASE OnSegmentInOrder(seg)
  <2> DEFINE left == seg.size - (rcv_nxt - seg.start)
  <2>1. consumed + Window > seg.start + seg.size - 1
        /\ seg.start + seg.size >= rcv_nxt
    BY <1>1, <1>2, <1>3, <1>8, Constants DEF OnSegmentInOrder, CoversNext
  <2>2. CASE left > 0 /\ Add(rcv_nxt, left) /\ Acknowledge(rcv_nxt')
    <3>1. /\ left \in Nat /\ left > 0
          /\ rcv_nxt + left <= send_next
          /\ rcv_nxt + left <= consumed + Window
      BY <1>1, <1>2, <2>1, <2>2, Constants
    <3>2. Add(rcv_nxt, left) /\ acks' = acks \cup {Reply(rcv_nxt')}
      BY <2>2 DEF Acknowledge
    <3> HIDE DEF left
    <3> QED BY <1>1, <1>4, <3>1, <3>2
  <2>3. CASE NothingAdded /\ UNCHANGED acks
    BY <1>4, <2>3
  <2> QED BY <1>8, <2>2, <2>3 DEF OnSegmentInOrder
<1> QED BY <1>5, <1>6, <1>7, <1>8 DEF DataArrives

(* A segment that arrives is stored, answered or dropped.                  *)
LEMMA DataArrivesIInv ==
    ASSUME IInv, NEW seg \in data, DataArrives(seg)
    PROVE  IInv'
<1>1. /\ rcv_nxt \in Nat /\ consumed \in Nat /\ consumed <= rcv_nxt
      /\ rcv_nxt <= consumed + Window /\ rcv_nxt \in Offsets
  BY UnreadFits, Constants DEF IInv, TypeOK, Offsets
<1>2. data' \subseteq data /\ UNCHANGED <<sender, reading>> /\ wild' \in BOOLEAN
  BY ArrivalCases
<1>3. SegmentsWereSent'
  BY <1>2 DEF IInv, SegmentsWereSent, sender
<1>4. ASSUME NEW next \in Offsets, rcv_nxt <= next, next <= consumed + Window
      PROVE  Reply(next) \in Acks /\ Reply(next).ack = next
  <2>1. next \in Nat /\ consumed <= next
    BY <1>1, <1>4, Constants DEF Offsets
  <2>2. UpdatedWindow(next) = consumed + Window - next
    BY <1>4, <2>1, WindowExact DEF IInv
  <2>3. UpdatedWindow(next) \in 0 .. Window
    BY <1>1, <1>4, <2>1, <2>2, Constants
  <2> QED BY <2>3 DEF Reply, Acks
<1>5. CASE /\ NothingAdded
           /\ acks' \subseteq acks \cup {Reply(rcv_nxt)}
  <2>1. Reply(rcv_nxt) \in Acks /\ Reply(rcv_nxt).ack = rcv_nxt
    BY <1>1, <1>4
  <2>2. TypeOK'
    BY <1>2, <1>5, <2>1 DEF IInv, TypeOK, NothingAdded, sender, reading
  <2>3. AcksFollow'
    BY <1>1, <1>2, <1>5, <2>1 DEF IInv, AcksFollow, NothingAdded, sender
  <2>4. ReceivedWasSent'
    BY <1>2, <1>5 DEF IInv, ReceivedWasSent, NothingAdded, sender
  <2>5. Stored' = Stored
    BY <1>2, <1>5 DEF Stored, NothingAdded, reading
  <2>6. GetLocals' /\ CursorExact' /\ RingIntegrity' /\ InOrderDelivery'
    BY <1>2, <1>5, <2>5
       DEF IInv, GetLocals, CursorExact, RingIntegrity, InOrderDelivery,
           NothingAdded, reading
  <2> QED BY <1>3, <2>2, <2>3, <2>4, <2>6 DEF IInv
<1>6. CASE \E start \in Nat, size \in Nat :
              /\ rcv_nxt <= start /\ size > 0
              /\ start + size <= send_next
              /\ start + size <= consumed + Window
              /\ Add(start, size)
              /\ acks' = acks \cup {Reply(rcv_nxt')}
  <2>1. PICK start \in Nat, size \in Nat :
              /\ rcv_nxt <= start /\ size > 0
              /\ start + size <= send_next
              /\ start + size <= consumed + Window
              /\ Add(start, size)
              /\ acks' = acks \cup {Reply(rcv_nxt')}
    BY <1>6
  <2>2. UNCHANGED <<send_next, reading>>
    BY <1>2 DEF sender
  <2>3. /\ rcv_nxt' \in Offsets /\ held' \subseteq Offsets
        /\ circular_buffer' \in [Slots -> Offsets]
        /\ suspect' \in BOOLEAN
        /\ rcv_nxt <= rcv_nxt' /\ rcv_nxt' <= consumed + Window
        /\ ReceivedWasSent' /\ GetLocals' /\ CursorExact'
        /\ RingIntegrity' /\ InOrderDelivery'
    BY <2>1, <2>2, AddStores
  <2>4. Reply(rcv_nxt') \in Acks /\ Reply(rcv_nxt').ack = rcv_nxt'
    BY <1>4, <2>3
  <2>5. TypeOK'
    BY <1>2, <2>1, <2>3, <2>4 DEF IInv, TypeOK, sender, reading
  <2>6. AcksFollow'
    <3>1. send_unacknowledged \in Nat /\ \A m \in acks : m.ack \in Nat
      BY Constants DEF IInv, TypeOK, Acks, Offsets
    <3>2. rcv_nxt' \in Nat
      BY <2>3, Constants DEF Offsets
    <3> QED BY <1>1, <1>2, <2>1, <2>3, <2>4, <3>1, <3>2 DEF IInv, AcksFollow, sender
  <2> QED BY <1>3, <2>3, <2>5, <2>6 DEF IInv
<1> QED BY <1>5, <1>6, ArrivalCases

(* Losses, and acknowledgements that arrive, in any order.                 *)
LEMMA NetworkIInv ==
    ASSUME IInv,
           \/ \E seg \in data : DataLost(seg)
           \/ \E m \in acks : AckArrives(m) \/ AckLost(m)
    PROVE  IInv'
<1>1. /\ data' \subseteq data /\ acks' \subseteq acks
      /\ UNCHANGED <<send_next, tcp_timers, inactive, dropped, receiver, reading>>
  BY DEF DataLost, AckArrives, AckLost, sender
<1>2. \/ UNCHANGED <<send_unacknowledged, send_window>>
      \/ \E m \in acks : send_unacknowledged' = m.ack /\ send_window' = m.wnd
  BY DEF DataLost, AckArrives, AckLost, sender
<1>3. TypeOK'
  <2>1. send_unacknowledged' \in Offsets /\ send_window' \in 0 .. Window
    BY <1>2 DEF IInv, TypeOK, Acks
  <2> QED BY <1>1, <2>1 DEF IInv, TypeOK, receiver, reading
<1>4. SegmentsWereSent' /\ ReceivedWasSent'
  BY <1>1 DEF IInv, SegmentsWereSent, ReceivedWasSent, receiver
<1>5. AcksFollow'
  BY <1>1, <1>2 DEF IInv, AcksFollow, receiver
<1>6. GetLocals' /\ CursorExact' /\ RingIntegrity' /\ InOrderDelivery'
  BY <1>1, ReceiverKept
<1> QED BY <1>3, <1>4, <1>5, <1>6 DEF IInv

(* The three steps of Get, whatever came between them.                     *)
LEMMA GetIInv ==
    ASSUME IInv, GetBegin \/ GetByte \/ GetEnd
    PROVE  IInv'
<1>1. /\ rcv_nxt \in Nat /\ consumed \in Nat /\ consumed <= rcv_nxt
      /\ rcv_nxt <= consumed + Window /\ get_count \in Nat /\ get_i \in Nat
      /\ get_i <= get_count /\ consumed + get_count <= rcv_nxt
      /\ rcv_nxt <= Available
  BY UnreadFits, Constants
     DEF IInv, TypeOK, Offsets, GetLocals, CursorExact
<1>2. UNCHANGED <<sender, data, acks, receiver>>
  BY DEF GetBegin, GetByte, GetEnd
<1>3. SegmentsWereSent' /\ AcksFollow' /\ ReceivedWasSent'
  BY <1>2 DEF IInv, SegmentsWereSent, AcksFollow, ReceivedWasSent, sender, receiver
<1>4. 0 \in Slots /\ 0 \in 0 .. RingSize - 1
  BY Constants DEF Slots
<1>5. CASE GetBegin
  <2>1. Unread = rcv_nxt - consumed
    BY UnreadExact DEF IInv
  <2>2. /\ get_tmp' = rcv_nxt % RingSize /\ get_count' = rcv_nxt - consumed
        /\ get_i' = 0 /\ get_count = 0
        /\ UNCHANGED <<curr_seg_start, consumed, delivered>>
    BY <1>5, <2>1 DEF GetBegin
  <2>3. get_tmp' \in Slots /\ get_count' \in 0 .. RingSize - 1
    BY <1>1, <2>2, ModFacts, Constants
  <2>4. TypeOK'
    BY <1>2, <1>4, <2>2, <2>3 DEF IInv, TypeOK, sender, receiver
  <2>5. GetLocals'
    <3>1. consumed + (rcv_nxt - consumed) = rcv_nxt
      BY <1>1
    <3> QED BY <1>1, <2>2, <3>1 DEF GetLocals
  <2>6. Stored' = Stored
    BY <1>2, <2>2 DEF Stored, receiver
  <2>7. CursorExact' /\ RingIntegrity'
    BY <1>1, <1>2, <2>2, <2>6 DEF IInv, CursorExact, RingIntegrity, receiver
  <2>8. InOrderDelivery'
    <3>1. get_i = 0
      BY <1>1, <2>2
    <3> QED BY <2>2, <3>1 DEF IInv, InOrderDelivery
  <2> QED BY <1>3, <2>4, <2>5, <2>7, <2>8 DEF IInv
<1>6. CASE GetByte
  <2> DEFINE byte == circular_buffer[(curr_seg_start + get_i) % RingSize]
  <2>1. /\ get_i < get_count /\ delivered' = Append(delivered, byte)
        /\ get_i' = get_i + 1
        /\ UNCHANGED <<curr_seg_start, get_tmp, get_count, consumed>>
    BY <1>6 DEF GetByte
  <2>2. byte = consumed + get_i
    <3>1. curr_seg_start = consumed % RingSize
      BY DEF IInv, CursorExact
    <3>2. (curr_seg_start + get_i) % RingSize = (consumed + get_i) % RingSize
      BY <1>1, <3>1, ModAdd
    <3>3. consumed + get_i \in Stored
      BY <1>1, <2>1 DEF Stored
    <3> QED BY <3>2, <3>3 DEF IInv, RingIntegrity
  <2> HIDE DEF byte
  <2>3. byte \in Offsets
    BY <1>1, <2>1, <2>2, Constants DEF Offsets
  <2>4. delivered \in Seq(Offsets) /\ Len(delivered) = consumed + get_i
    BY DEF IInv, TypeOK, InOrderDelivery
  <2>5. delivered' \in Seq(Offsets)
    BY <2>1, <2>3, <2>4
  <2>6. TypeOK'
    <3>1. get_i' \in 0 .. RingSize - 1
      BY <1>1, <2>1, Constants DEF IInv, TypeOK
    <3> QED BY <1>2, <2>1, <2>5, <3>1 DEF IInv, TypeOK, sender, receiver
  <2>7. GetLocals'
    BY <1>1, <2>1 DEF IInv, GetLocals
  <2>8. Stored' = Stored
    BY <1>2, <2>1 DEF Stored, receiver
  <2>9. CursorExact' /\ RingIntegrity'
    BY <1>2, <2>1, <2>8 DEF IInv, CursorExact, RingIntegrity, receiver
  <2>10. InOrderDelivery'
    <3>1. Len(delivered') = Len(delivered) + 1
      BY <2>1, <2>3, <2>4
    <3>2. \A k \in 1 .. Len(delivered') : delivered'[k] = k - 1
      <4> SUFFICES ASSUME NEW k \in 1 .. Len(delivered')
                   PROVE  delivered'[k] = k - 1
        OBVIOUS
      <4>1. CASE k \in 1 .. Len(delivered)
        <5>1. delivered'[k] = delivered[k]
          BY <2>1, <2>4, <4>1
        <5> QED BY <4>1, <5>1 DEF IInv, InOrderDelivery
      <4>2. CASE k = Len(delivered) + 1
        <5>1. delivered'[k] = byte
          BY <2>1, <2>4, <4>2
        <5> QED BY <1>1, <2>2, <2>4, <4>2, <5>1
      <4> QED BY <1>1, <2>4, <3>1, <4>1, <4>2
    <3> QED BY <1>1, <2>1, <2>4, <3>1, <3>2 DEF InOrderDelivery
  <2> QED BY <1>3, <2>6, <2>7, <2>9, <2>10 DEF IInv
<1>7. CASE GetEnd
  <2>1. /\ get_count > 0 /\ get_i = get_count
        /\ curr_seg_start' = get_tmp /\ consumed' = consumed + get_count
        /\ get_count' = 0 /\ get_i' = 0 /\ get_tmp' = 0
        /\ UNCHANGED delivered
    BY <1>7 DEF GetEnd
  <2>2. get_tmp = consumed' % RingSize
    BY <2>1 DEF IInv, GetLocals
  <2>3. consumed' \in Offsets /\ consumed < consumed' /\ consumed' <= rcv_nxt
    BY <1>1, <2>1, Constants DEF Offsets
  <2>4. TypeOK'
    <3>1. curr_seg_start' \in Slots
      BY <2>1 DEF IInv, TypeOK
    <3> QED BY <1>2, <1>4, <2>1, <2>3, <3>1 DEF IInv, TypeOK, sender, receiver
  <2>5. GetLocals'
    BY <2>1 DEF GetLocals
  <2>6. Stored' \subseteq Stored
    <3>1. rcv_nxt' = rcv_nxt /\ held' = held
      BY <1>2 DEF receiver
    <3>2. consumed' \in Nat
      BY <1>1, <2>1
    <3> QED BY <1>1, <2>3, <3>1, <3>2 DEF Stored
  <2>7. CursorExact'
    <3>1. (curr_seg_start = consumed % RingSize)'
      BY <2>1, <2>2
    <3>2. (consumed + get_count <= rcv_nxt)'
      BY <1>1, <1>2, <2>1, <2>3 DEF receiver
    <3>3. (\A p \in Stored : p < consumed + Window)'
      <4> SUFFICES ASSUME NEW p \in Stored' PROVE p < consumed' + Window
        OBVIOUS
      <4>1. p \in Stored /\ p < consumed + Window
        BY <2>6 DEF IInv, CursorExact
      <4>2. p \in Int
        BY <1>1, <4>1, Constants DEF Stored, IInv, TypeOK, Offsets
      <4> QED BY <1>1, <2>1, <4>1, <4>2, Constants
    <3> QED BY <3>1, <3>2, <3>3 DEF CursorExact
  <2>8. RingIntegrity'
    BY <1>2, <2>6 DEF IInv, RingIntegrity, receiver
  <2>9. InOrderDelivery'
    BY <1>1, <2>1 DEF IInv, InOrderDelivery
  <2> QED BY <1>3, <2>4, <2>5, <2>7, <2>8, <2>9 DEF IInv
<1> QED BY <1>5, <1>6, <1>7

(* All steps keep the inductive invariant.                                 *)
LEMMA NextIInv == IInv /\ [Next]_vars => IInv'
<1> SUFFICES ASSUME IInv, [Next]_vars PROVE IInv'
  OBVIOUS
<1>1. CASE Expired
  BY <1>1, ExpiredIInv
<1>2. CASE \E seg \in data : DataArrives(seg)
  BY <1>2, DataArrivesIInv
<1>3. CASE \/ \E seg \in data : DataLost(seg)
           \/ \E m \in acks : AckArrives(m) \/ AckLost(m)
  BY <1>3, NetworkIInv
<1>4. CASE GetBegin \/ GetByte \/ GetEnd
  BY <1>4, GetIInv
<1>5. CASE UNCHANGED vars
  <2>1. UNCHANGED <<sender, data, acks, receiver, reading>>
    BY <1>5 DEF vars
  <2>2. TypeOK' /\ SegmentsWereSent' /\ AcksFollow' /\ ReceivedWasSent'
    BY <2>1 DEF IInv, TypeOK, SegmentsWereSent, AcksFollow, ReceivedWasSent,
                sender, receiver, reading
  <2> QED BY <2>1, <2>2, ReceiverKept DEF IInv
<1> QED BY <1>1, <1>2, <1>3, <1>4, <1>5 DEF Next

(* The strengthened invariant holds in every reachable state.              *)
THEOREM Invariance == Spec => []IInv
<1>1. Init => IInv
  BY InitIInv
<1>2. IInv /\ [Next]_vars => IInv'
  BY NextIInv
<1> QED BY <1>1, <1>2, PTL DEF Spec

(* Every variable keeps its type: no offset, window or cursor of the code  *)
(* leaves its range, whatever the network does.                            *)
THEOREM TypeCorrect == Spec => []TypeOK
<1>1. IInv => TypeOK
  BY DEF IInv
<1> QED BY <1>1, Invariance, PTL

(* No byte that was accepted and not yet released is overwritten.          *)
THEOREM RingKept == Spec => []RingIntegrity
<1>1. IInv => RingIntegrity
  BY DEF IInv
<1> QED BY <1>1, Invariance, PTL

(* The application receives the stream in order, without gap or            *)
(* repetition, whatever is lost, repeated or reordered.                    *)
THEOREM DeliveredInOrder == Spec => []InOrderDelivery
<1>1. IInv => InOrderDelivery
  BY DEF IInv
<1> QED BY <1>1, Invariance, PTL

(* The cursor kept modulo the ring stands for the true count.              *)
THEOREM CursorIsExact == Spec => []CursorExact
<1>1. IInv => CursorExact
  BY DEF IInv
<1> QED BY <1>1, Invariance, PTL

-----------------------------------------------------------------------------
(* The sender's window, when acknowledgements keep their order             *)

(* What the sender was granted is not more than what the receiver offers,  *)
(* and no acknowledgement on its way takes any of it back.                 *)
GrantInv ==
    ~Reorder =>
        /\ send_next <= send_unacknowledged + send_window
        /\ send_unacknowledged + send_window <= consumed + Window
        /\ \A m \in acks :
              /\ send_unacknowledged <= m.ack
              /\ send_unacknowledged + send_window <= m.ack + m.wnd
              /\ m.ack + m.wnd <= consumed + Window

(* The initial state.                                                      *)
LEMMA InitGrant == Init => GrantInv
BY Constants DEF Init, GrantInv

(* The types of what GrantInv compares.                                    *)
LEMMA SenderTypes ==
    ASSUME TypeOK
    PROVE  /\ send_unacknowledged \in Nat /\ send_window \in Nat
           /\ send_window <= Window /\ send_next \in Nat /\ consumed \in Nat
           /\ \A m \in acks : m.ack \in Nat /\ m.wnd \in Nat
BY Constants DEF TypeOK, Acks, Offsets

(* SendData sends within the window.                                       *)
LEMMA ExpiredGrant ==
    ASSUME IInv, GrantInv, Expired
    PROVE  GrantInv'
<1> SUFFICES ASSUME ~Reorder PROVE GrantInv'
  BY DEF GrantInv
<1>1. /\ send_unacknowledged \in Nat /\ send_window \in Nat
      /\ send_window <= Window /\ send_next \in Nat
  BY SenderTypes DEF IInv
<1>2. send_unacknowledged <= send_next
  BY <1>1, Constants DEF IInv, TypeOK, AcksFollow, ReceivedWasSent, Offsets
<1>3. Room = send_unacknowledged + send_window - send_next
  <2> DEFINE edge == send_unacknowledged + send_window
  <2>1. edge \in Int /\ send_next \in Int /\ send_next <= edge
        /\ edge - send_next < RingSize
    BY <1>1, <1>2, Constants DEF GrantInv
  <2> HIDE DEF edge
  <2>2. Diff(edge, send_next, RingSize) = edge - send_next
    BY <2>1, DiffExact
  <2> QED BY <1>1, <2>2 DEF Room, edge
<1>4. NewSize \in Nat /\ NewSize <= Room
  BY NewSizeBounds DEF IInv
<1>5. /\ send_next' = send_next + NewSize
      /\ UNCHANGED <<send_unacknowledged, send_window, acks, receiver, reading>>
  BY DEF Expired
<1>6. send_next' <= send_unacknowledged + send_window
  BY <1>1, <1>3, <1>4, <1>5
<1> QED BY <1>5, <1>6 DEF GrantInv, reading

(* A new acknowledgement grants no more than the receiver has room for,    *)
(* and no less than any earlier one.                                       *)
LEMMA DataArrivesGrant ==
    ASSUME IInv, GrantInv, NEW seg \in data, DataArrives(seg)
    PROVE  GrantInv'
<1> SUFFICES ASSUME ~Reorder PROVE GrantInv'
  BY DEF GrantInv
<1>1. /\ send_unacknowledged \in Nat /\ send_window \in Nat /\ consumed \in Nat
      /\ rcv_nxt \in Nat /\ consumed <= rcv_nxt /\ rcv_nxt <= consumed + Window
      /\ send_unacknowledged <= rcv_nxt
  BY SenderTypes, UnreadFits, Constants DEF IInv, TypeOK, Offsets, AcksFollow
<1>2. UNCHANGED <<sender, reading>>
  BY ArrivalCases
<1>3. ASSUME NEW next \in Nat, rcv_nxt <= next, next <= consumed + Window
      PROVE  /\ Reply(next).ack = next
             /\ Reply(next).ack + Reply(next).wnd = consumed + Window
  <2>1. UpdatedWindow(next) = consumed + Window - next
    BY <1>1, <1>3, WindowExact DEF IInv
  <2>2. Reply(next).ack = next /\ Reply(next).wnd = consumed + Window - next
    BY <2>1 DEF Reply
  <2> QED BY <1>1, <2>2, Constants
<1>4. PICK next \in Nat : /\ rcv_nxt <= next /\ next <= consumed + Window
                          /\ acks' \subseteq acks \cup {Reply(next)}
  <2>1. CASE NothingAdded /\ acks' \subseteq acks \cup {Reply(rcv_nxt)}
    BY <1>1, <2>1
  <2>2. ASSUME NEW start \in Nat, NEW size \in Nat,
               rcv_nxt <= start, size > 0, start + size <= send_next,
               start + size <= consumed + Window, Add(start, size),
               acks' = acks \cup {Reply(rcv_nxt')}
        PROVE  /\ rcv_nxt' \in Nat /\ rcv_nxt <= rcv_nxt'
               /\ rcv_nxt' <= consumed + Window
    <3>1. UNCHANGED <<send_next, reading>>
      BY <1>2 DEF sender
    <3>2. /\ rcv_nxt' \in Offsets /\ rcv_nxt <= rcv_nxt'
          /\ rcv_nxt' <= consumed + Window
      BY <2>2, <3>1, AddStores
    <3> QED BY <3>2, Constants DEF Offsets
  <2> QED BY <2>1, <2>2, ArrivalCases
<1>5. /\ Reply(next).ack = next
      /\ Reply(next).ack + Reply(next).wnd = consumed + Window
  BY <1>3, <1>4
<1>6. UNCHANGED <<send_next, send_unacknowledged, send_window, consumed>>
  BY <1>2 DEF sender, reading
<1>7. ASSUME NEW m \in acks'
      PROVE  /\ send_unacknowledged <= m.ack
             /\ send_unacknowledged + send_window <= m.ack + m.wnd
             /\ m.ack + m.wnd <= consumed + Window
  <2>1. CASE m \in acks
    BY <2>1 DEF GrantInv
  <2>2. CASE m = Reply(next)
    BY <1>1, <1>4, <1>5, <2>2, Constants DEF GrantInv
  <2> QED BY <1>4, <2>1, <2>2
<1> QED BY <1>6, <1>7 DEF GrantInv

(* The acknowledgement sent first takes nothing back.                      *)
LEMMA AckArrivesGrant ==
    ASSUME IInv, GrantInv, NEW m \in acks, AckArrives(m)
    PROVE  GrantInv'
<1> SUFFICES ASSUME ~Reorder PROVE GrantInv'
  BY DEF GrantInv
<1>1. /\ \A n \in acks : m.ack <= n.ack /\ m.ack + m.wnd <= n.ack + n.wnd
      /\ acks' \subseteq acks
      /\ send_unacknowledged' = m.ack /\ send_window' = m.wnd
      /\ UNCHANGED <<send_next, consumed>>
  BY DEF AckArrives, SentFirst, reading
<1>2. /\ send_unacknowledged \in Nat /\ send_window \in Nat
      /\ send_next \in Nat /\ m.ack \in Nat /\ m.wnd \in Nat
  BY SenderTypes DEF IInv
<1> QED BY <1>1, <1>2 DEF GrantInv

(* Get only adds to the room.                                              *)
LEMMA GetGrant ==
    ASSUME IInv, GrantInv, GetBegin \/ GetByte \/ GetEnd
    PROVE  GrantInv'
<1>1. UNCHANGED <<sender, acks>>
  BY DEF GetBegin, GetByte, GetEnd
<1>2. consumed' \in Nat /\ consumed <= consumed' /\ consumed \in Nat
  BY Constants DEF GetBegin, GetByte, GetEnd, IInv, TypeOK, Offsets
<1>3. /\ send_unacknowledged \in Nat /\ send_window \in Nat
      /\ \A m \in acks : m.ack \in Nat /\ m.wnd \in Nat
  BY SenderTypes DEF IInv
<1>4. CASE ~Reorder
  <2>1. UNCHANGED <<send_next, send_unacknowledged, send_window, acks>>
    BY <1>1 DEF sender
  <2> DEFINE old == consumed + Window
             edge == send_unacknowledged + send_window
             later == consumed' + Window
  <2>2. old \in Nat /\ later \in Nat /\ old <= later /\ edge \in Nat
    <3>1. \A a, b \in Nat : a <= b =>
             a + Window \in Nat /\ b + Window \in Nat /\ a + Window <= b + Window
      BY Constants
    <3> QED BY <1>2, <1>3, <3>1
  <2>3. edge <= old /\ \A m \in acks : m.ack + m.wnd \in Nat /\ m.ack + m.wnd <= old
    BY <1>3, <1>4 DEF GrantInv
  <2> HIDE DEF old, edge, later
  <2>4. edge <= later /\ \A m \in acks : m.ack + m.wnd <= later
    BY <2>2, <2>3
  <2> QED BY <1>4, <2>1, <2>4 DEF GrantInv, edge, later
<1> QED BY <1>4 DEF GrantInv

(* All steps keep what was granted.                                        *)
LEMMA NextGrant == IInv /\ GrantInv /\ [Next]_vars => GrantInv'
<1> SUFFICES ASSUME IInv, GrantInv, [Next]_vars PROVE GrantInv'
  OBVIOUS
<1>1. CASE Expired
  BY <1>1, ExpiredGrant
<1>2. CASE \E seg \in data : DataArrives(seg)
  BY <1>2, DataArrivesGrant
<1>3. CASE \E m \in acks : AckArrives(m)
  BY <1>3, AckArrivesGrant
<1>4. CASE (\E seg \in data : DataLost(seg)) \/ (\E m \in acks : AckLost(m))
  BY <1>4 DEF DataLost, AckLost, GrantInv, sender, reading
<1>5. CASE GetBegin \/ GetByte \/ GetEnd
  BY <1>5, GetGrant
<1>6. CASE UNCHANGED vars
  BY <1>6 DEF vars, GrantInv, sender, reading
<1> QED BY <1>1, <1>2, <1>3, <1>4, <1>5, <1>6 DEF Next

(* The right edge the sender knows is never past the receiver's, and no    *)
(* acknowledgement on its way takes any of it back (GrantInv).             *)
THEOREM Granted == Spec => []GrantInv
<1>1. Init => GrantInv
  BY InitGrant
<1>2. IInv /\ GrantInv /\ [Next]_vars => GrantInv'
  BY NextGrant
<1> QED BY <1>1, <1>2, Invariance, PTL DEF Spec

(* With acknowledgements in order, the sender never sends past the right   *)
(* edge it was granted, and diff in SendData never wraps.                  *)
THEOREM SenderStaysInWindow == Spec => []SenderWithinWindow
<1>1. IInv /\ GrantInv => SenderWithinWindow
  <2> SUFFICES ASSUME IInv, GrantInv, ~Reorder
               PROVE  /\ send_unacknowledged <= send_next
                      /\ send_next <= send_unacknowledged + send_window
    BY DEF SenderWithinWindow
  <2>1. send_unacknowledged <= send_next
    BY SenderTypes, Constants
       DEF IInv, TypeOK, AcksFollow, ReceivedWasSent, Offsets
  <2> QED BY <2>1 DEF GrantInv
<1> QED BY <1>1, Invariance, Granted, PTL

(* With acknowledgements in order, neither edge of the sender's window     *)
(* ever goes back.                                                         *)
THEOREM WindowNeverCloses == ~Reorder => (Spec => WindowOnlyOpens)
<1> SUFFICES ASSUME ~Reorder PROVE Spec => WindowOnlyOpens
  OBVIOUS
<1>1. ASSUME IInv, GrantInv, [Next]_vars
      PROVE  [/\ send_unacknowledged' >= send_unacknowledged
              /\ send_unacknowledged' + send_window'
                    >= send_unacknowledged + send_window]_vars
  <2>1. /\ send_unacknowledged \in Nat /\ send_window \in Nat
        /\ \A m \in acks : m.ack \in Nat /\ m.wnd \in Nat
    BY <1>1, SenderTypes DEF IInv
  <2>2. CASE UNCHANGED <<send_unacknowledged, send_window>>
    BY <2>1, <2>2
  <2>3. CASE \E m \in acks : AckArrives(m)
    <3>1. PICK m \in acks : AckArrives(m)
      BY <2>3
    <3>2. send_unacknowledged' = m.ack /\ send_window' = m.wnd
      BY <3>1 DEF AckArrives
    <3>3. /\ send_unacknowledged <= m.ack
          /\ send_unacknowledged + send_window <= m.ack + m.wnd
      BY <1>1 DEF GrantInv
    <3> QED BY <2>1, <3>2, <3>3
  <2>4. \/ UNCHANGED <<send_unacknowledged, send_window>>
        \/ \E m \in acks : AckArrives(m)
    BY <1>1 DEF Next, vars, sender, Expired, DataArrives, DataLost, AckLost,
                GetBegin, GetByte, GetEnd
  <2> QED BY <2>2, <2>3, <2>4
<1> QED BY <1>1, Invariance, Granted, PTL DEF Spec, WindowOnlyOpens

-----------------------------------------------------------------------------
(* A closed window                                                         *)

(* A tick of a stalled sender sends nothing, neither new nor again.        *)
LEMMA StalledTick ==
    ASSUME IInv, Stalled, Expired
    PROVE  Stalled'
<1> DEFINE new    == NewSegments
           timers == TimersWith(new)
           acked  == {t \in timers : IsAcked(t)}
<1>1. PICK resent \in SUBSET ((timers \ acked) \ new) :
          /\ data' = data \cup new \cup resent
          /\ send_next' = send_next + NewSize
          /\ UNCHANGED <<send_unacknowledged, send_window, acks>>
  BY DEF Expired
<1>2. send_next \in Nat /\ send_unacknowledged = send_next /\ send_window = 0
  BY Constants DEF IInv, TypeOK, Offsets, Stalled
<1>3. Room = 0
  <2>1. (send_unacknowledged + send_window) - send_next = 0
    BY <1>2
  <2>2. 0 % RingSize = 0
    BY Constants, SMT
  <2> QED BY <2>1, <2>2 DEF Room, Diff
<1>4. NewSize = 0 /\ new = {}
  BY <1>3 DEF NewSize, SizeWithin, NewSegments
<1>5. timers \subseteq tcp_timers
  BY <1>4 DEF TimersWith
<1>6. \A t \in tcp_timers : IsAcked(t)
  BY <1>2 DEF IInv, SegmentsWereSent, IsAcked
<1>7. resent = {}
  BY <1>5, <1>6
<1> QED BY <1>1, <1>2, <1>4, <1>7 DEF Stalled

(* A window that closed on an idle connection never opens again.           *)
THEOREM StallLasts == Spec => StallIsForever
<1>1. ASSUME IInv, [Next]_vars PROVE [Stalled => Stalled']_vars
  <2> SUFFICES ASSUME Stalled PROVE Stalled'
    OBVIOUS
  <2>1. CASE Expired
    BY <1>1, <2>1, StalledTick
  <2>2. CASE GetBegin \/ GetByte \/ GetEnd
    BY <2>2 DEF GetBegin, GetByte, GetEnd, Stalled, sender
  <2>3. CASE UNCHANGED vars
    BY <2>3 DEF vars, Stalled, sender
  <2> QED BY <1>1, <2>1, <2>2, <2>3 DEF Next, Stalled
<1> QED BY <1>1, Invariance, PTL DEF Spec, StallIsForever

-----------------------------------------------------------------------------
(* Every byte the receiver lacks has a timer                               *)

TimersOf == tcp_timers \cup inactive

(* One timer per segment, of a segment already sent.                       *)
OneTimerEach ==
    /\ IsFiniteSet(TimersOf)
    /\ tcp_timers \cap inactive = {}
    /\ \A t \in TimersOf : t.start < send_next
    /\ \A t, u \in TimersOf : t.start = u.start => t = u

(* AddTimer drops a timer only after as many bytes as it has entries.      *)
DropsLate == dropped => MaxTimers <= send_next

TimerInv == OneTimerEach /\ NoByteForgotten /\ DropsLate

(* The initial state.                                                      *)
LEMMA InitTimers == Init => TimerInv
<1> SUFFICES ASSUME Init PROVE TimerInv
  OBVIOUS
<1>1. TimersOf = {} /\ tcp_timers \cap inactive = {}
  BY DEF Init, TimersOf
<1>2. OneTimerEach
  BY <1>1, FS_EmptySet DEF OneTimerEach
<1>3. NoByteForgotten
  BY DEF Init, NoByteForgotten
<1>4. DropsLate
  BY DEF Init, DropsLate
<1> QED BY <1>2, <1>3, <1>4 DEF TimerInv

(* The table never has more timers than bytes were sent.                   *)
LEMMA TableSize ==
    ASSUME TypeOK, OneTimerEach
    PROVE  Cardinality(tcp_timers) + Cardinality(inactive) <= send_next
<1> DEFINE T == TimersOf
           S == 0 .. send_next - 1
           start == [t \in T |-> t.start]
<1>1. send_next \in Nat
  BY Constants DEF TypeOK, Offsets
<1>2. IsFiniteSet(tcp_timers) /\ IsFiniteSet(inactive)
  BY FS_Subset DEF OneTimerEach, TimersOf
<1>3. \A t \in T : t.start \in S
  <2> SUFFICES ASSUME NEW t \in T PROVE t.start \in S
    OBVIOUS
  <2>1. t.start \in Nat
    BY Constants DEF TypeOK, TimersOf, Segments, Offsets
  <2>2. t.start < send_next
    BY DEF OneTimerEach
  <2> QED BY <1>1, <2>1, <2>2
<1>4. start \in [T -> S]
  BY <1>3
<1>5. \A t, u \in T : start[t] = start[u] => t = u
  BY DEF OneTimerEach
<1>6. start \in Injection(T, S)
  BY <1>4, <1>5, Fun_IsInj
<1>7. IsFiniteSet(S) /\ Cardinality(S) = send_next
  <2>1. IsFiniteSet(S) /\ Cardinality(S) = IF 0 > send_next - 1 THEN 0
                                           ELSE (send_next - 1) - 0 + 1
    BY <1>1, FS_Interval
  <2> QED BY <1>1, <2>1
<1>8. Cardinality(T) <= Cardinality(S)
  BY <1>6, <1>7, FS_Injection
<1>9. Cardinality(T) = Cardinality(tcp_timers) + Cardinality(inactive)
                         - Cardinality(tcp_timers \cap inactive)
  BY <1>2, FS_Union DEF TimersOf
<1>10. Cardinality(tcp_timers \cap inactive) = 0
  BY FS_EmptySet DEF OneTimerEach
<1>11. Cardinality(tcp_timers) \in Nat /\ Cardinality(inactive) \in Nat
  BY <1>2, FS_CardinalityType
<1> QED BY <1>1, <1>7, <1>8, <1>9, <1>10, <1>11

(* The tick times what it sends, and drops only timers of what was         *)
(* acknowledged.                                                           *)
LEMMA ExpiredTimers ==
    ASSUME IInv, TimerInv, Expired
    PROVE  TimerInv'
<1> DEFINE new    == NewSegments
           timers == TimersWith(new)
           acked  == {t \in timers : IsAcked(t)}
<1>1. PICK resent \in SUBSET ((timers \ acked) \ new),
           kept \in LeftBehind(inactive \cup acked) :
            /\ tcp_timers' = timers \ acked
            /\ inactive' = kept
            /\ dropped' = (dropped \/ (new # {} /\ TableFull))
            /\ data' = data \cup new \cup resent
            /\ send_next' = send_next + NewSize
            /\ UNCHANGED <<send_unacknowledged, send_window, acks,
                           receiver, reading>>
  BY DEF Expired
<1>2. TypeOK /\ OneTimerEach /\ NoByteForgotten /\ DropsLate
  BY DEF IInv, TimerInv
<1>3. /\ NewSize \in Nat /\ send_next \in Nat /\ send_unacknowledged \in Nat
      /\ send_next + NewSize <= Available /\ rcv_nxt \in Nat
      /\ send_unacknowledged <= rcv_nxt /\ rcv_nxt <= send_next
  BY <1>2, NewSizeBounds, Constants
     DEF TypeOK, Offsets, IInv, AcksFollow, ReceivedWasSent
<1>4. \A t \in new : t.start = send_next /\ t.size = NewSize
  BY <1>2, NewSegmentsSent
<1>5. \/ NewSize = 0 /\ new = {}
      \/ NewSize > 0 /\ new = {[start |-> send_next, size |-> NewSize]}
  BY <1>3 DEF NewSegments
<1>6. timers \subseteq tcp_timers \cup new /\ tcp_timers \subseteq timers
  BY DEF TimersWith
<1>7. kept \subseteq inactive \cup acked
  BY DEF LeftBehind
<1>8. acked \subseteq timers /\ \A t \in timers : t \in acked <=> IsAcked(t)
  OBVIOUS
<1>9. ~TableFull => new \subseteq timers
  BY DEF TimersWith
<1> HIDE DEF new, timers, acked
<1>10. TimersOf' \subseteq TimersOf \cup new
  BY <1>1, <1>6, <1>7, <1>8 DEF TimersOf
<1>11. OneTimerEach'
  <2>1. IsFiniteSet(TimersOf')
    <3>1. IsFiniteSet(new)
      <4>1. CASE new = {}
        BY ONLY <4>1, FS_EmptySet
      <4>2. CASE new = {[start |-> send_next, size |-> NewSize]}
        BY ONLY <4>2, FS_Singleton
      <4> QED BY <1>5, <4>1, <4>2
    <3>2. IsFiniteSet(TimersOf \cup new)
      BY <1>2, <3>1, FS_Union DEF OneTimerEach
    <3> QED BY <1>10, <3>2, FS_Subset
  <2>2. \A t \in TimersOf : t.start \in Nat /\ t.start < send_next
    BY <1>2, Constants DEF OneTimerEach, TypeOK, TimersOf, Segments, Offsets
  <2>3. tcp_timers' \cap inactive' = {}
    <3> SUFFICES ASSUME NEW t \in tcp_timers', t \in inactive' PROVE FALSE
      OBVIOUS
    <3>1. t \in timers /\ t \notin acked /\ t \in inactive
      BY <1>1, <1>7
    <3>2. t \in tcp_timers \/ t \in new
      BY <1>6, <3>1
    <3>3. t \notin tcp_timers
      BY <1>2, <3>1 DEF OneTimerEach
    <3>4. t.start < send_next
      BY <1>2, <3>1 DEF OneTimerEach, TimersOf
    <3> QED BY <1>3, <1>4, <3>2, <3>3, <3>4
  <2>4. \A t \in TimersOf' : t.start < send_next'
    <3> SUFFICES ASSUME NEW t \in TimersOf' PROVE t.start < send_next'
      OBVIOUS
    <3>1. CASE t \in TimersOf
      BY <1>1, <1>3, <2>2, <3>1
    <3>2. CASE t \in new
      BY <1>1, <1>3, <1>4, <1>5, <3>2
    <3> QED BY <1>10, <3>1, <3>2
  <2>5. \A t, u \in TimersOf' : t.start = u.start => t = u
    <3> SUFFICES ASSUME NEW t \in TimersOf', NEW u \in TimersOf',
                        t.start = u.start
                 PROVE  t = u
      OBVIOUS
    <3>1. CASE t \in TimersOf /\ u \in TimersOf
      BY <1>2, <3>1 DEF OneTimerEach
    <3>2. CASE t \in new /\ u \in new
      BY <1>5, <3>2
    <3>3. CASE t \in TimersOf /\ u \in new
      BY <1>3, <1>4, <2>2, <3>3
    <3>4. CASE t \in new /\ u \in TimersOf
      BY <1>3, <1>4, <2>2, <3>4
    <3> QED BY <1>10, <3>1, <3>2, <3>3, <3>4
  <2> QED BY <2>1, <2>3, <2>4, <2>5 DEF OneTimerEach
<1>12. NoByteForgotten'
  <2> SUFFICES ASSUME ~dropped',
                      NEW p \in rcv_nxt .. send_next' - 1
               PROVE  \E t \in tcp_timers' : p \in Bytes(t)
    BY <1>1 DEF NoByteForgotten, receiver
  <2>1. p \in Nat /\ rcv_nxt <= p /\ p < send_next + NewSize
    BY <1>1, <1>3
  <2>4. ~dropped /\ (new # {} => ~TableFull)
    BY <1>1
  <2>2. CASE p < send_next
    <3>1. PICK t \in tcp_timers : p \in Bytes(t)
      BY <1>2, <1>3, <2>1, <2>2, <2>4 DEF NoByteForgotten
    <3>2. t.start \in Nat /\ t.size \in Nat
      BY <1>2, <3>1, Constants DEF TypeOK, Segments, Offsets
    <3>3. p < t.start + t.size
      BY <2>1, <3>1, <3>2 DEF Bytes
    <3>4. ~IsAcked(t)
      BY <1>3, <2>1, <3>2, <3>3 DEF IsAcked
    <3> QED BY <1>1, <1>6, <1>8, <3>1, <3>4
  <2>3. CASE p >= send_next
    <3>1. NewSize > 0
      BY <1>3, <2>1, <2>3
    <3> DEFINE t == [start |-> send_next, size |-> NewSize]
    <3>2. t \in new /\ t \in timers
      BY <1>3, <1>5, <1>9, <2>4, <3>1
    <3>3. p \in Bytes(t)
      BY <1>3, <2>1, <2>3 DEF Bytes
    <3>4. ~IsAcked(t)
      BY <1>3, <3>1 DEF IsAcked
    <3> QED BY <1>1, <1>8, <3>2, <3>3, <3>4
  <2> QED BY <1>3, <2>1, <2>2, <2>3
<1>13. DropsLate'
  <2>1. Cardinality(tcp_timers) + Cardinality(inactive) <= send_next
    BY <1>2, TableSize
  <2>2. Cardinality(tcp_timers) \in Nat /\ Cardinality(inactive) \in Nat
    BY <1>2, FS_Subset, FS_CardinalityType DEF OneTimerEach, TimersOf
  <2>3. TableFull => MaxTimers <= send_next
    BY <1>3, <2>1, <2>2, Constants DEF TableFull
  <2>4. MaxTimers <= send_next => MaxTimers <= send_next'
    BY <1>1, <1>3, Constants
  <2> QED BY <1>1, <1>2, <2>3, <2>4 DEF DropsLate
<1> QED BY <1>11, <1>12, <1>13 DEF TimerInv

(* All steps keep the timers.                                              *)
LEMMA NextTimers == IInv /\ TimerInv /\ [Next]_vars => TimerInv'
<1> SUFFICES ASSUME IInv, TimerInv, [Next]_vars PROVE TimerInv'
  OBVIOUS
<1>1. CASE Expired
  BY <1>1, ExpiredTimers
<1>2. CASE /\ UNCHANGED <<tcp_timers, inactive, dropped, send_next>>
           /\ rcv_nxt' \in Nat /\ rcv_nxt <= rcv_nxt'
  <2>1. TimersOf' = TimersOf
    BY <1>2 DEF TimersOf
  <2>2. OneTimerEach'
    BY <1>2, <2>1 DEF TimerInv, OneTimerEach
  <2>3. rcv_nxt \in Nat /\ send_next \in Nat
    BY Constants DEF IInv, TypeOK, Offsets
  <2>4. rcv_nxt' .. send_next - 1 \subseteq rcv_nxt .. send_next - 1
    BY <1>2, <2>3
  <2>5. NoByteForgotten'
    BY <1>2, <2>4 DEF TimerInv, NoByteForgotten
  <2>6. DropsLate'
    BY <1>2 DEF TimerInv, DropsLate
  <2> QED BY <2>2, <2>5, <2>6 DEF TimerInv
<1>3. rcv_nxt \in Nat
  BY Constants DEF IInv, TypeOK, Offsets
<1>4. CASE \E seg \in data : DataArrives(seg)
  <2>1. PICK seg \in data : DataArrives(seg)
    BY <1>4
  <2>2. UNCHANGED <<sender, reading>>
    BY <2>1, ArrivalCases
  <2>3. CASE NothingAdded
    BY <1>2, <1>3, <2>2, <2>3 DEF NothingAdded, sender
  <2>4. ASSUME NEW start \in Nat, NEW size \in Nat,
               rcv_nxt <= start, size > 0, start + size <= send_next,
               start + size <= consumed + Window, Add(start, size)
        PROVE  rcv_nxt' \in Nat /\ rcv_nxt <= rcv_nxt'
    <3>1. UNCHANGED <<send_next, reading>>
      BY <2>2 DEF sender
    <3>2. rcv_nxt' \in Offsets /\ rcv_nxt <= rcv_nxt'
      BY <2>4, <3>1, AddStores
    <3> QED BY <3>2, Constants DEF Offsets
  <2> QED BY <1>2, <2>1, <2>2, <2>3, <2>4, ArrivalCases DEF sender
<1>5. CASE \/ \E seg \in data : DataLost(seg)
           \/ \E m \in acks : AckArrives(m) \/ AckLost(m)
           \/ GetBegin \/ GetByte \/ GetEnd
  <2>1. UNCHANGED <<tcp_timers, inactive, dropped, send_next, rcv_nxt>>
    BY <1>5 DEF DataLost, AckArrives, AckLost, GetBegin, GetByte, GetEnd,
                sender, receiver
  <2> QED BY <1>2, <1>3, <2>1
<1>6. CASE UNCHANGED vars
  BY <1>2, <1>3, <1>6 DEF vars, sender, receiver
<1> QED BY <1>1, <1>4, <1>5, <1>6 DEF Next

(* Every segment has at most one timer, one that is needed is there, and   *)
(* none is dropped early (TimerInv).                                       *)
THEOREM Timed == Spec => []TimerInv
<1>1. Init => TimerInv
  BY InitTimers
<1>2. IInv /\ TimerInv /\ [Next]_vars => TimerInv'
  BY NextTimers
<1> QED BY <1>1, <1>2, Invariance, PTL DEF Spec

(* A byte the receiver lacks always has a retransmission timer at the      *)
(* sender, unless AddTimer dropped a timer.                                *)
THEOREM NothingForgotten == Spec => []NoByteForgotten
<1>1. TimerInv => NoByteForgotten
  BY DEF TimerInv
<1> QED BY <1>1, Timed, PTL

(* AddTimer drops no timer while fewer bytes were sent than its table has  *)
(* entries.                                                                *)
THEOREM TimersDropLate == Spec => [](dropped => MaxTimers <= send_next)
<1>1. TimerInv => (dropped => MaxTimers <= send_next)
  BY DEF TimerInv, DropsLate
<1> QED BY <1>1, Timed, PTL

============================================================================
