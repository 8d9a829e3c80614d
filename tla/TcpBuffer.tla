------------------------------ MODULE TcpBuffer ------------------------------
(***************************************************************************)
(* The reassembly buffer's list of chunks, at the level of its pointers.   *)
(* A chunk says which sequence numbers in a row have been received; the    *)
(* first chunk ends at rcv_nxt.  Add runs in an interrupt handler, in one  *)
(* piece.                                                                  *)
(*                                                                         *)
(* A pointer that was never set leads to whatever the memory holds, and so *)
(* does one to a chunk that has been freed, even once malloc has given     *)
(* that memory away again: both are Unset here.  Once one is followed the  *)
(* buffer is wild and nothing more is said of it.                          *)
(***************************************************************************)
EXTENDS Integers, FiniteSets

CONSTANTS
    RcvWindow,    \* the window the callers keep segments within (1024)
    Top,          \* bound: all sequence numbers are below it
    MaxChunks     \* bound: chunks there is memory for

ASSUME BufferAssumption ==
    /\ RcvWindow \in Nat \ {0} /\ Top \in Nat \ {0}
    /\ MaxChunks \in Nat \ {0}

Null == 0
Unset == -1
Addresses == 1 .. MaxChunks
Pointers == Addresses \cup {Null, Unset}

VARIABLES
    chunk,       \* the DataChunks, by address
    used,        \* the addresses that are allocated
    first, rcv_nxt,
    wild         \* a bad pointer has been followed

bufferVars == <<chunk, used, first, rcv_nxt, wild>>

DataChunk(start, size, next, prev) ==
    [start |-> start, size |-> size, next |-> next, prev |-> prev]

(* The constructor, for acknowledgementNumber rcv_next.                    *)
BufferInit ==
    \E rcv_next \in 0 .. 1 :
        /\ chunk = [a \in Addresses |-> IF a = 1 THEN DataChunk(rcv_next, 0, Null, Null)
                                                 ELSE DataChunk(0, 0, Unset, Unset)]
        /\ used = {1}
        /\ first = 1
        /\ rcv_nxt = rcv_next
        /\ wild = FALSE

End(c) == c.start + c.size

(* Add's walk: its locals and what it has made of the list so far.         *)
Walker(start, size) ==
    [chunk |-> chunk, used |-> used, first |-> first, rcv |-> rcv_nxt,
     temp |-> first, last |-> Null, ans |-> Null,
     start |-> start, size |-> size, wild |-> FALSE]

Wild(w) == [w EXCEPT !.wild = TRUE]

Free(w) == Addresses \ w.used
(* The address malloc returns.                                             *)
Malloc(w) == CHOOSE a \in Free(w) : \A b \in Free(w) : a <= b

(* An isolated chunk goes before temp, if there is memory for it.          *)
(* (Mutant: temp is not told.)                                             *)
InsertOneWay(w) ==
    LET p == w.chunk[w.temp].prev
        a == Malloc(w)
        new == DataChunk(w.start, w.size, w.temp, IF p # Null THEN p ELSE Unset)
        linked == [w.chunk EXCEPT ![a] = new]
    IN  {w} \cup
        IF Free(w) = {} THEN {}
        ELSE IF p \in w.used
        THEN {[w EXCEPT !.used = @ \cup {a}, !.chunk = [linked EXCEPT ![p].next = a]]}
        ELSE IF p = Null
        THEN {[w EXCEPT !.used = @ \cup {a}, !.chunk = linked]}
        ELSE {Wild(w)}

Insert(w) ==
    LET p == w.chunk[w.temp].prev
        a == Malloc(w)
        new == DataChunk(w.start, w.size, w.temp, IF p # Null THEN p ELSE Unset)
        linked == [w.chunk EXCEPT ![a] = new, ![w.temp].prev = a]
    IN  {w} \cup
        IF Free(w) = {} THEN {}
        ELSE IF p \in w.used
        THEN {[w EXCEPT !.used = @ \cup {a}, !.chunk = [linked EXCEPT ![p].next = a]]}
        ELSE IF p = Null
        THEN {[w EXCEPT !.used = @ \cup {a}, !.chunk = linked]}
        ELSE {Wild(w)}

(* A last chunk goes behind all others; nobody sets its next, and nobody   *)
(* looks whether there was memory for it.                                  *)
Attach(w) ==
    LET a == Malloc(w)
        with(next) ==
            [w EXCEPT !.used = @ \cup {a},
                      !.chunk = [@ EXCEPT ![w.last].next = a,
                                          ![a] = DataChunk(w.start, w.size, next, w.last)]]
    IN  {Wild(w)} \cup IF Free(w) = {} THEN {} ELSE {with(Null), with(Unset)}

(* Chunk temp takes in the segment.                                        *)
Joined(w) ==
    LET t == w.chunk[w.temp]
        start == IF w.start < t.start THEN w.start ELSE t.start
        end == IF End(t) > End(w) THEN End(t) ELSE End(w)
        prev == IF w.ans = Null THEN t.prev ELSE w.chunk[w.ans].prev
    IN  [w EXCEPT !.chunk[w.temp] = DataChunk(start, end - start, t.next, prev),
                  !.start = start, !.size = end - start,
                  !.ans = w.temp]

Leads(w) == w.first \in {w.ans, w.temp}

AsFirst(w) == [w EXCEPT !.first = w.temp, !.rcv = End(w)]

Forgets(c, a) ==
    DataChunk(c.start, c.size, IF c.next = a THEN Unset ELSE c.next,
                               IF c.prev = a THEN Unset ELSE c.prev)

(* The chunk is freed, and what still points to it is a bad link.          *)
Freed(w, a) ==
    IF a = Null THEN w
    ELSE [w EXCEPT !.used = @ \ {a},
                   !.chunk = [b \in Addresses |-> Forgets(w.chunk[b], a)]]

(* It takes the place of the chunk before it that had taken the segment in *)
(* already, which is freed; the one before that is not told.               *)
Merge(w) ==
    LET j == Freed(Joined(w), w.ans)
    IN  IF Leads(w) THEN AsFirst(j) ELSE j

Follow(w) == [w EXCEPT !.last = w.temp, !.temp = w.chunk[w.temp].next]

IsIsolated(w) == End(w) < w.chunk[w.temp].start
TouchesInside(w) == End(w.chunk[w.temp]) > w.start     \* mutant
Touches(w) == End(w.chunk[w.temp]) >= w.start

(* The loop returns at temp, or has left the list or the memory.  After a  *)
(* merge it goes on only if the next chunk is reached too.                 *)
Halts(w) ==
    \/ w.temp \notin w.used
    \/ IsIsolated(w)
    \/ Touches(w) /\ w.chunk[w.temp].next = Null

OneStep(w) ==
    IF Halts(w) THEN w ELSE Follow(IF Touches(w) THEN Merge(w) ELSE w)

(* Each step goes one chunk on.                                            *)
Walked(w) ==
    LET upTo[n \in 0 .. MaxChunks] == IF n = 0 THEN w ELSE OneStep(upTo[n - 1])
    IN  upTo[MaxChunks]

Outcomes(w) ==
    IF w.temp = Null THEN IF End(w.chunk[w.last]) < w.start THEN Attach(w) ELSE {w}
    ELSE IF w.temp \notin w.used THEN {Wild(w)}
    ELSE IF ~IsIsolated(w) THEN {Merge(w)}
    ELSE IF w.ans # Null THEN {w}
    ELSE Insert(w)

TurnsInto(w) ==
    /\ chunk' = w.chunk /\ used' = w.used
    /\ first' = w.first /\ rcv_nxt' = w.rcv
    /\ wild' = w.wild

(* The callers cut a segment to what starts at rcv_nxt or after it and     *)
(* ends within the window.                                                 *)
Add(start, size) ==
    /\ ~wild
    /\ start >= rcv_nxt
    /\ start + size <= rcv_nxt + RcvWindow
    /\ IF start + size < rcv_nxt THEN UNCHANGED bufferVars
       ELSE \E w \in Outcomes(Walked(Walker(start, size))) : TurnsInto(w)

BufferNext == \E start \in 0 .. Top - 1 : \E size \in 1 .. Top - start : Add(start, size)

BufferSpec == BufferInit /\ [][BufferNext]_bufferVars

-----------------------------------------------------------------------------
Follows(a) == chunk[a].next

(* A live chunk has a link that is not set, or led to a chunk now freed.    *)
suspect == \E a \in used : Follows(a) = Unset

(* Type invariant: live chunks have a place in the sequence numbers, and   *)
(* point to live chunks unless the pointer is bad.                         *)
ChunksTyped ==
    /\ used \subseteq Addresses /\ first \in used
    /\ rcv_nxt \in 0 .. Top /\ wild \in BOOLEAN
    /\ \A a \in used : /\ chunk[a].start \in 0 .. Top /\ chunk[a].size \in 0 .. Top
                       /\ {chunk[a].next, chunk[a].prev} \subseteq used \cup {Null, Unset}

(* As long as no link is bad the list is in order: each chunk ends before  *)
(* the next begins, with a gap, and is its predecessor; only the first has *)
(* none, so "this always happens" (97) does; the first ends at rcv_nxt.    *)
(* And no chunk is lost: each but the first is the successor of one.       *)
InOrder ==
    /\ ChunksTyped
    /\ (~wild /\ ~suspect) =>
        /\ End(chunk[first]) = rcv_nxt
        /\ chunk[first].prev = Null
        /\ \A a \in used : Follows(a) # Null =>
               /\ End(chunk[a]) < chunk[Follows(a)].start
               /\ chunk[Follows(a)].prev = a
        /\ \A a \in used \ {first} : \E b \in used : Follows(b) = a

(* The list is what TcpStream takes it for: a set of bytes.                *)
held == UNION {chunk[a].start .. End(chunk[a]) - 1 : a \in used \ {first}}

Abstract == INSTANCE Reassembly WITH Sequence <- 0 .. Top

KeepsTheBytes == Abstract!Spec
=============================================================================
