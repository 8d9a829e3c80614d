------------------------------ MODULE TcpStream ------------------------------
(***************************************************************************)
(* One direction of an ESTABLISHED connection: the sending socket, its     *)
(* retransmission timers and its tick handler; the IP network; the         *)
(* receiving socket, its reassembly buffer and the application that reads  *)
(* it.                                                                     *)
(*                                                                         *)
(* Positions are offsets in the byte stream: on the wire a byte at offset  *)
(* p carries sequence number control_sequenceNumber + p, and the receiver  *)
(* acknowledges control_sequenceNumber_aux + p.  Both counters are 1 for   *)
(* the whole ESTABLISHED life of a client, so they cancel.                 *)
(*                                                                         *)
(* All code here runs in interrupt handlers, which do not nest, except Get *)
(* which the main loop of the kernel calls: each handler is one step, and  *)
(* Get is one step per byte copied.                                        *)
(***************************************************************************)
EXTENDS Integers, FiniteSets, Sequences

CONSTANTS
    RingSize,   \* bytes in circular_buffer and in snd_buffer (2048)
    Window,     \* largest window the receiver advertises (1024)
    Mss,        \* smss, the largest segment the sender makes (536)
    Available,  \* send_available, bytes of the stream (100000)
    MaxTimers,  \* entries of tcp_timers (200)
    Reorder,    \* TRUE: acknowledgements may overtake each other
    Lossy       \* TRUE: segments and acknowledgements may be lost

ASSUME ParametersAssumption ==
    /\ RingSize \in Nat \ {0}
    /\ Window \in Nat \ {0} /\ Window < RingSize
    /\ Mss \in Nat \ {0}
    /\ Available \in Nat
    /\ MaxTimers \in Nat
    /\ Reorder \in BOOLEAN /\ Lossy \in BOOLEAN

Offsets  == 0 .. Available
Slots    == 0 .. RingSize - 1
Segments == [start : Offsets, size : 1 .. Available]
Acks     == [ack : Offsets, wnd : 0 .. Window]

(* A byte is identified by its offset; Junk is what no sender wrote.       *)
Junk == Available

VARIABLES
    send_unacknowledged, send_next, send_window,    \* the sending socket
    tcp_timers,         \* segments that have an active retransmission timer
    inactive,           \* acked ones whose timer is still in the table
    data, acks,         \* messages in flight
    rcv_nxt,            \* first offset the receiver still expects
    held,               \* offsets received above rcv_nxt
    circular_buffer,    \* what each slot of the receiver's ring holds
    curr_seg_start,     \* slot of the first unread byte
    get_tmp, get_count, get_i,  \* locals of a running Get, get_count = 0: none
    dropped,            \* history: AddTimer found the table full
    consumed,           \* history: bytes the completed Gets returned
    delivered,          \* history: the bytes copied to the application
    suspect, wild       \* a link of the chunk list is garbage / was followed

sender   == <<send_unacknowledged, send_next, send_window,
              tcp_timers, inactive, dropped>>
reading  == <<curr_seg_start, get_tmp, get_count, get_i, consumed, delivered>>
receiver == <<rcv_nxt, held, circular_buffer, suspect, wild>>
vars     == <<sender, data, acks, receiver, reading>>

(***************************************************************************)
(* diff(a, b, mod): how far a lies after b, round a counter of size mod.   *)
(* A negative distance wraps to a large one.                               *)
(***************************************************************************)
Diff(a, b, mod) == (a - b) % mod

SmallerOf(a, b) == IF a < b THEN a ELSE b

Bytes(seg) == seg.start .. (seg.start + seg.size - 1)

Init ==
    /\ send_unacknowledged = 0 /\ send_next = 0
    /\ send_window = Window     \* from the SYN|ACK, by Update
    /\ tcp_timers = {} /\ inactive = {} /\ dropped = FALSE
    /\ data = {} /\ acks = {}
    /\ rcv_nxt = 0 /\ held = {}
    /\ circular_buffer = [s \in Slots |-> Junk]
    /\ curr_seg_start = 0
    /\ get_tmp = 0 /\ get_count = 0 /\ get_i = 0
    /\ consumed = 0 /\ delivered = <<>>
    /\ suspect = FALSE /\ wild = FALSE

-----------------------------------------------------------------------------
(* The sender's timer tick                                                 *)

(* The size of the segment SendData emits, 0 for none: what the window     *)
(* leaves, at most Mss, not past the end of snd_buffer, and not past       *)
(* send_available.                                                         *)
Room == Diff(send_unacknowledged + send_window, send_next, RingSize)

SizeWithin(room) ==
    IF room > 0 /\ send_next < Available
    THEN SmallerOf(SmallerOf(room, Mss),
                   SmallerOf(RingSize - (send_next % RingSize),
                             Available - send_next))
    ELSE 0

(* Mutant: the window is not applied.                                      *)
NewSizeMss == IF Room > 0 THEN SizeWithin(Mss) ELSE 0

NewSize == SizeWithin(Room)

NewSegments == IF NewSize = 0 THEN {}
               ELSE {[start |-> send_next, size |-> NewSize]}

(* AddTimer drops the timer of a new segment when the table is full.       *)
TableFull == Cardinality(tcp_timers) + Cardinality(inactive) >= MaxTimers

TimersWith(new) == IF TableFull THEN tcp_timers ELSE tcp_timers \cup new

(* Mutant: a segment is acked with its first byte.                         *)
IsAckedStart(seg) == seg.start <= send_unacknowledged

IsAcked(seg) == seg.start + seg.size <= send_unacknowledged

(* The removal loop puts the last timer in the place of the one it frees   *)
(* and moves on, so the moved one waits for a later tick: of the inactive  *)
(* timers it leaves some, never more than it removes.                      *)
LeftBehind(done) ==
    {kept \in SUBSET done : 2 * Cardinality(kept) <= Cardinality(done)}

(* Expired, in state ESTABLISHED: SendData, then CheckTimers, which sends  *)
(* again any of the older unacknowledged segments (those whose timeout     *)
(* elapsed; the clock and the RTO are abstracted here), deactivates the    *)
(* timers of the acknowledged ones and frees inactive timers.              *)
Expired ==
    LET new    == NewSegments
        timers == TimersWith(new)
        acked  == {t \in timers : IsAcked(t)}
    IN  \E resent \in SUBSET ((timers \ acked) \ new),
           kept \in LeftBehind(inactive \cup acked) :
            /\ tcp_timers' = timers \ acked
            /\ inactive' = kept
            /\ dropped' = (dropped \/ (new # {} /\ TableFull))
            /\ data' = data \cup new \cup resent
            /\ send_next' = send_next + NewSize
            /\ UNCHANGED <<send_unacknowledged, send_window, acks,
                           receiver, reading>>

-----------------------------------------------------------------------------
(* The receiver                                                            *)

Unread == Diff(rcv_nxt % RingSize, curr_seg_start, RingSize)

(* Mutants: the whole window is offered whatever is unread; bytes held     *)
(* out of order are subtracted too.                                        *)
UpdatedWindowWhole(next) == Window

UpdatedWindowHeld(next) ==
    LET used == Diff(next % RingSize, curr_seg_start, RingSize)
                   + Cardinality(held)
    IN  IF Window > used THEN Window - used ELSE 0

(* GetUpdatedWindowSize(1024)                                              *)
UpdatedWindow(next) ==
    LET unread == Diff(next % RingSize, curr_seg_start, RingSize)
    IN  IF Window > unread THEN Window - unread ELSE 0

Reply(next) == [ack |-> next, wnd |-> UpdatedWindow(next)]

(* Add: the bytes go to the ring; the chunk list then holds them, and the  *)
(* first chunk absorbs all that touch it.  A segment that leaves a gap may *)
(* leave a chunk whose link was never initialised, or one that points to a *)
(* freed chunk: whether that does harm depends on what the memory holds.   *)
Add(start, size) ==
    LET added == start .. (start + size - 1)
        got   == held \cup added
    IN  /\ circular_buffer' =
              [s \in Slots |->
                  IF \E p \in added : p % RingSize = s
                  THEN CHOOSE p \in added : p % RingSize = s
                  ELSE circular_buffer[s]]
        /\ \E n \in rcv_nxt .. Available :
              /\ rcv_nxt .. (n - 1) \subseteq got
              /\ n \notin got
              /\ rcv_nxt' = n
              /\ held' = {p \in got : p > n}
        /\ \/ suspect' = suspect
           \/ start > rcv_nxt /\ suspect' = TRUE

NothingAdded == UNCHANGED <<rcv_nxt, held, circular_buffer, suspect>>

Acknowledge(next) == acks' = acks \cup {Reply(next)}

(* The window is closed: the segment is only acknowledged.                 *)
OnClosedWindow ==
    /\ UpdatedWindow(rcv_nxt) = 0
    /\ NothingAdded
    /\ Acknowledge(rcv_nxt)

(* The segment starts after the next expected byte, inside the window: it  *)
(* is cut to the window and stored.                                        *)
StartsAhead(seg) ==
    /\ seg.start > rcv_nxt
    /\ rcv_nxt + UpdatedWindow(rcv_nxt) > seg.start

OnSegmentAhead(seg) ==
    LET edge == rcv_nxt + UpdatedWindow(rcv_nxt) IN
    /\ UpdatedWindow(rcv_nxt) # 0
    /\ StartsAhead(seg)
    /\ Add(seg.start, SmallerOf(seg.size, edge - seg.start))
    /\ Acknowledge(rcv_nxt')

(* The segment covers the next expected byte and ends in the window, or    *)
(* ends exactly at the next expected byte: then nothing is left of it, and *)
(* nothing is sent.                                                        *)
CoversNext(seg) ==
    /\ seg.start + seg.size >= rcv_nxt
    /\ rcv_nxt + UpdatedWindow(rcv_nxt) > seg.start + seg.size - 1

OnSegmentInOrder(seg) ==
    LET left == seg.size - (rcv_nxt - seg.start) IN
    /\ UpdatedWindow(rcv_nxt) # 0
    /\ ~StartsAhead(seg) /\ CoversNext(seg)
    /\ \/ left > 0 /\ Add(rcv_nxt, left) /\ Acknowledge(rcv_nxt')
       \/ left = 0 /\ NothingAdded /\ UNCHANGED acks

OnUnacceptableSegment(seg) ==
    /\ UpdatedWindow(rcv_nxt) # 0
    /\ ~StartsAhead(seg) /\ ~CoversNext(seg)
    /\ NothingAdded
    /\ Acknowledge(rcv_nxt)

(* A segment arrives.  IP keeps no order, so any segment in flight may be  *)
(* the next one.  Once a garbage link has been followed nothing is known   *)
(* of the receiver, and it is not modelled any further.                    *)
DataArrives(seg) ==
    /\ ~wild
    /\ seg \in data
    /\ data' = data \ {seg}
    /\ \/ /\ \/ OnClosedWindow
             \/ OnSegmentAhead(seg)
             \/ OnSegmentInOrder(seg)
             \/ OnUnacceptableSegment(seg)
          /\ wild' = FALSE
       \/ /\ suspect /\ wild' = TRUE
          /\ NothingAdded /\ UNCHANGED acks
    /\ UNCHANGED <<sender, reading>>

-----------------------------------------------------------------------------
(* Acknowledgements reach the sender                                       *)

(* The receiver's answers never go back, neither in ack nor in right edge, *)
(* so the one sent first is the one that is least in both.                 *)
SentFirst(m) ==
    \A n \in acks : m.ack <= n.ack /\ m.ack + m.wnd <= n.ack + n.wnd

(* default: of OnInternetProtocolReceived for an empty in-order segment:   *)
(* Update(msg) takes the window and the acknowledgement as they come.      *)
AckArrives(m) ==
    /\ m \in acks
    /\ Reorder \/ SentFirst(m)
    /\ acks' = acks \ {m}
    /\ send_window' = m.wnd
    /\ send_unacknowledged' = m.ack
    /\ UNCHANGED <<send_next, tcp_timers, inactive, dropped, data, receiver, reading>>

DataLost(seg) ==
    /\ Lossy /\ seg \in data
    /\ data' = data \ {seg}
    /\ UNCHANGED <<sender, acks, receiver, reading>>

AckLost(m) ==
    /\ Lossy /\ m \in acks
    /\ acks' = acks \ {m}
    /\ UNCHANGED <<sender, data, receiver, reading>>

-----------------------------------------------------------------------------
(* The application's Get                                                   *)

GetBegin ==
    /\ ~wild /\ get_count = 0
    /\ Unread > 0
    /\ get_tmp' = rcv_nxt % RingSize
    /\ get_count' = Unread
    /\ get_i' = 0
    /\ UNCHANGED <<sender, data, acks, receiver,
                   curr_seg_start, consumed, delivered>>

GetByte ==
    /\ ~wild /\ get_i < get_count
    /\ delivered' =
          Append(delivered, circular_buffer[(curr_seg_start + get_i) % RingSize])
    /\ get_i' = get_i + 1
    /\ UNCHANGED <<sender, data, acks, receiver,
                   curr_seg_start, get_tmp, get_count, consumed>>

(* Mutant: rcv_nxt is read again at the end of the copy.                   *)
GetEndReread ==
    /\ ~wild /\ get_count > 0 /\ get_i = get_count
    /\ curr_seg_start' = rcv_nxt % RingSize
    /\ consumed' = consumed + get_count
    /\ get_count' = 0 /\ get_i' = 0 /\ get_tmp' = 0
    /\ UNCHANGED <<sender, data, acks, receiver, delivered>>

GetEnd ==
    /\ ~wild /\ get_count > 0 /\ get_i = get_count
    /\ curr_seg_start' = get_tmp
    /\ consumed' = consumed + get_count
    /\ get_count' = 0 /\ get_i' = 0 /\ get_tmp' = 0
    /\ UNCHANGED <<sender, data, acks, receiver, delivered>>

-----------------------------------------------------------------------------
Next ==
    \/ Expired
    \/ \E seg \in data : DataArrives(seg) \/ DataLost(seg)
    \/ \E m \in acks : AckArrives(m) \/ AckLost(m)
    \/ GetBegin \/ GetByte \/ GetEnd

Spec == Init /\ [][Next]_vars

-----------------------------------------------------------------------------
(* Properties                                                              *)

TypeOK ==
    /\ send_unacknowledged \in Offsets
    /\ send_next \in Offsets
    /\ send_window \in 0 .. Window
    /\ tcp_timers \in SUBSET Segments /\ inactive \in SUBSET Segments
    /\ data \in SUBSET Segments
    /\ acks \in SUBSET Acks
    /\ rcv_nxt \in Offsets
    /\ held \in SUBSET Offsets
    /\ circular_buffer \in [Slots -> Offsets]
    /\ curr_seg_start \in Slots /\ get_tmp \in Slots
    /\ get_count \in 0 .. RingSize - 1 /\ get_i \in 0 .. RingSize - 1
    /\ consumed \in Offsets
    /\ delivered \in Seq(Offsets)
    /\ suspect \in BOOLEAN /\ wild \in BOOLEAN /\ dropped \in BOOLEAN

(* The bytes the receiver accepted and the application has not released    *)
(* lie unharmed in their slots: no retransmission, overlap, out-of-order   *)
(* segment or overrun of the window writes over one of them.               *)
Stored == (consumed .. rcv_nxt - 1) \cup held

RingIntegrity == \A p \in Stored : circular_buffer[p % RingSize] = p

(* The application reads the stream: every byte once, in order, whatever   *)
(* interrupts come between two bytes of a Get.                             *)
InOrderDelivery ==
    /\ Len(delivered) = consumed + get_i
    /\ \A k \in 1 .. Len(delivered) : delivered[k] = k - 1

(* The cursor kept modulo the ring never aliases: it stands for the first  *)
(* byte not released, and what lies unread fits the advertised window.     *)
CursorExact ==
    /\ curr_seg_start = consumed % RingSize
    /\ consumed + get_count <= rcv_nxt
    /\ \A p \in Stored : p < consumed + Window

(* Nothing the receiver lacks is forgotten by the sender: each sent byte   *)
(* at or above rcv_nxt still has a retransmission timer, as long as        *)
(* AddTimer never found its table full.                                    *)
NoByteForgotten ==
    ~dropped => \A p \in rcv_nxt .. send_next - 1 :
                   \E t \in tcp_timers : p \in Bytes(t)

(* When acknowledgements keep their order the sender stays in the window   *)
(* it was granted, and diff never wraps.                                   *)
SenderWithinWindow ==
    ~Reorder =>
        /\ send_unacknowledged <= send_next
        /\ send_next <= send_unacknowledged + send_window

(* The acknowledgement and the right edge of the window seen by the sender *)
(* never go back, on a network that keeps acknowledgements in order.       *)
WindowOnlyOpens ==
    [][/\ send_unacknowledged' >= send_unacknowledged
       /\ send_unacknowledged' + send_window'
             >= send_unacknowledged + send_window]_vars

(* The window closed on an idle connection: all that was sent arrived and  *)
(* was acknowledged with window 0.  Get sends no update and the sender     *)
(* never probes.                                                           *)
Stalled ==
    /\ send_next < Available
    /\ send_unacknowledged = send_next /\ send_window = 0
    /\ data = {} /\ acks = {}

StallIsForever == [][Stalled => Stalled']_vars

(* "Unacceptable segment. Must be responded to with an empty               *)
(* acknowledgment": a segment with nothing new below the window.           *)
DuplicatesAreAcknowledged ==
    [][\A seg \in data :
          (DataArrives(seg) /\ seg.start + seg.size <= rcv_nxt /\ ~wild')
             => Reply(rcv_nxt) \in acks']_vars
=============================================================================
