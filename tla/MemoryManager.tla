---------------------------- MODULE MemoryManager ----------------------------
(***************************************************************************)
(* The kernel's heap: a list of chunks, each a header followed by its      *)
(* room, searched first fit.  Addresses count from the start of the heap   *)
(* in units of which a header takes HeaderSize.  malloc and free run to    *)
(* their end here; HeapInterrupts has what comes between their steps.      *)
(***************************************************************************)
EXTENDS Integers, FiniteSets

CONSTANTS
    HeapSize,      \* the size of the heap
    HeaderSize,    \* sizeof(MemoryChunk)
    Requests       \* the sizes that are asked for

ASSUME HeapAssumption ==
    /\ HeapSize \in Nat /\ HeaderSize \in Nat \ {0}
    /\ HeaderSize <= HeapSize
    /\ Requests \subseteq Nat

VARIABLES
    chunk,     \* the headers in the list, by address
    live       \* history: the blocks the callers have

vars == <<chunk, live>>

Null == -1

Header(next, prev, allocated, size) ==
    [next |-> next, prev |-> prev, allocated |-> allocated, size |-> size]

Init ==
    /\ chunk = [c \in {0} |-> Header(Null, Null, FALSE, HeapSize - HeaderSize)]
    /\ live = {}

(* The first chunk of the list that is free and larger than the request.   *)
(* (Mutant: or not free.)                                                  *)
FitsUsed(c, size) == chunk[c].size > size

Fits(c, size) == chunk[c].size > size /\ ~chunk[c].allocated

Search(size) ==
    LET from[c \in DOMAIN chunk \cup {Null}] ==
            CASE c = Null -> Null
              [] c # Null /\ Fits(c, size) -> c
              [] OTHER -> from[chunk[c].next]
    IN  from[0]

(* Set field next or prev of c, if there is a c.                           *)
Link(mem, c, field, to) ==
    IF c = Null THEN mem ELSE [mem EXCEPT ![c][field] = to]

(* The rest of chunk r becomes a chunk of its own, if there is room for a  *)
(* header and one unit.                                                    *)
HasRest(r, size) == chunk[r].size >= size + HeaderSize + 1

Split(r, size) ==
    LET temp == r + HeaderSize + size
        rest == Header(chunk[r].next, r, FALSE, chunk[r].size - size - HeaderSize)
        grown == [c \in DOMAIN chunk \cup {temp} |->
                     CASE c = temp -> rest
                       [] c = r -> [chunk[r] EXCEPT !.size = size, !.next = temp]
                       [] OTHER -> chunk[c]]
    IN  Link(grown, rest.next, "prev", temp)

Taken(mem, r) == [mem EXCEPT ![r].allocated = TRUE]

malloc(size) ==
    LET r == Search(size)
    IN  /\ r # Null
        /\ chunk' = Taken(IF HasRest(r, size) THEN Split(r, size) ELSE chunk, r)
        /\ live' = live \cup {[start |-> r + HeaderSize, size |-> size]}

Without(mem, c) == [d \in DOMAIN mem \ {c} |-> mem[d]]

IsFree(mem, c) == c # Null /\ ~mem[c].allocated

(* Chunk c swallows its successor.                                         *)
Merge(mem, c) ==
    LET n == mem[c].next
        grown == [mem EXCEPT ![c].size = @ + mem[n].size + HeaderSize,
                             ![c].next = mem[n].next]
    IN  Without(Link(grown, mem[n].next, "prev", c), n)

(* First with the chunk before it, then with the one after.  (Mutant: that *)
(* is forgotten.)                                                          *)
FreedBackward(c) ==
    LET mem == [chunk EXCEPT ![c].allocated = FALSE]
    IN  IF IsFree(mem, mem[c].prev) THEN Merge(mem, mem[c].prev) ELSE mem

Freed(c) ==
    LET mem    == [chunk EXCEPT ![c].allocated = FALSE]
        before == IsFree(mem, mem[c].prev)
        left   == IF before THEN mem[c].prev ELSE c
        joined == IF before THEN Merge(mem, left) ELSE mem
    IN  IF IsFree(joined, joined[left].next) THEN Merge(joined, left) ELSE joined

(* A caller frees a block it has.                                          *)
free(b) ==
    /\ b \in live
    /\ chunk' = Freed(b.start - HeaderSize)
    /\ live' = live \ {b}

Next ==
    \/ \E size \in Requests : malloc(size)
    \/ \E b \in live : free(b)

Spec == Init /\ [][Next]_vars

-----------------------------------------------------------------------------
(* Type invariant: the headers are within the heap.                        *)
TypeOK ==
    /\ DOMAIN chunk \subseteq 0 .. HeapSize - HeaderSize
    /\ \A c \in DOMAIN chunk :
           /\ chunk[c].next \in DOMAIN chunk \cup {Null}
           /\ chunk[c].prev \in DOMAIN chunk \cup {Null}
           /\ chunk[c].allocated \in BOOLEAN
           /\ chunk[c].size \in Nat
    /\ \A b \in live : b.start \in Nat /\ b.size \in Requests

End(c) == c + HeaderSize + chunk[c].size

(* The chunks tile the heap: the first is at its start, each ends where    *)
(* its successor begins and is that one's predecessor, the last ends with  *)
(* the heap.  No two neighbours are free: every free merges all it can,    *)
(* whatever the order of the frees was.  So once everything is freed the   *)
(* heap is as at the start: no sequence of calls loses memory or leaves it *)
(* in pieces.                                                              *)
Tiled ==
    /\ 0 \in DOMAIN chunk
    /\ \A c \in DOMAIN chunk :
           /\ IF chunk[c].next = Null THEN End(c) = HeapSize
                                      ELSE /\ chunk[c].next = End(c)
                                           /\ chunk[End(c)].prev = c
           /\ (chunk[c].prev = Null) <=> (c = 0)

Coalesced ==
    \A c \in DOMAIN chunk :
        (chunk[c].next # Null /\ ~chunk[c].allocated)
            => chunk[chunk[c].next].allocated

HeapInOrder == TypeOK /\ Tiled /\ Coalesced

(* Callers get what HeapPromise says: blocks of their own.                 *)
Promise == INSTANCE HeapPromise

KeepsPromise == Promise!Spec
=============================================================================
