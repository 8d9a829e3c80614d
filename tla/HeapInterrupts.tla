---------------------------- MODULE HeapInterrupts ----------------------------
(***************************************************************************)
(* The heap as the kernel uses it: the main loop calls malloc and free     *)
(* with interrupts on, and a handler may come between two of their steps   *)
(* and call both.  A handler is not interrupted, so its calls are those of *)
(* MemoryManager, whole.  The main loop keeps a pointer into the list      *)
(* across the handler; the state ends (disturbed) where a handler returns  *)
(* and the pointer is no longer what the main loop takes it for, or was at *)
(* work between the writes of a link: what the heap holds then is not said *)
(* here.                                                                   *)
(***************************************************************************)
EXTENDS MemoryManager

VARIABLES
    step,       \* where the main loop is in malloc or free
    at,         \* its pointer: chunk, then result
    want,       \* what it asked for
    inside,     \* a handler runs
    own,        \* the blocks it took and has not freed
    entry,      \* history: the list it found; <<>> once it freed another's block
    disturbed,  \* history: see above
    inPieces    \* history: a handler kept a block while the main loop had
                \* freed a chunk and not yet merged it

main     == <<step, at, want>>
handler  == <<inside, own, entry>>
history  == <<disturbed, inPieces>>
allVars  == <<chunk, live, main, handler, history>>

InitShared ==
    /\ Init
    /\ step = "idle" /\ at = Null /\ want = 0
    /\ inside = FALSE /\ own = {} /\ entry = <<>>
    /\ disturbed = FALSE /\ inPieces = FALSE

-----------------------------------------------------------------------------
(* The call returns and its locals are gone.                               *)
Done == step' = "idle" /\ at' = Null /\ want' = 0

(* malloc of the main loop, from its call to its return.                   *)
CallMalloc(s) ==
    /\ step = "idle"
    /\ step' = "search" /\ at' = 0 /\ want' = s
    /\ UNCHANGED <<chunk, live>>

(* One turn of the loop.                                                   *)
Look ==
    /\ step = "search" /\ at # Null
    /\ IF Fits(at, want) THEN step' = "found" /\ at' = at
                         ELSE step' = step /\ at' = chunk[at].next
    /\ UNCHANGED <<chunk, live, want>>

GiveUp ==
    /\ step = "search" /\ at = Null
    /\ Done
    /\ UNCHANGED <<chunk, live>>

Decide ==
    /\ step = "found"
    /\ step' = IF HasRest(at, want) THEN "carving" ELSE "mark"
    /\ UNCHANGED <<chunk, live, at, want>>

Carve ==
    /\ step = "carving"
    /\ chunk' = Split(at, want)
    /\ step' = "mark"
    /\ UNCHANGED <<live, at, want>>

Mark ==
    /\ step = "mark"
    /\ chunk' = Taken(chunk, at)
    /\ live' = live \cup {[start |-> at + HeaderSize, size |-> want]}
    /\ Done

(* free: the chunk is marked first, then merged with its neighbours.       *)
CallFree(b) ==
    /\ step = "idle"
    /\ at' = b.start - HeaderSize
    /\ chunk' = [chunk EXCEPT ![at'].allocated = FALSE]
    /\ live' = live \ {b}
    /\ step' = "freed"
    /\ UNCHANGED want

LookAround ==
    /\ step = "freed"
    /\ step' = "merging"
    /\ UNCHANGED <<chunk, live, at, want>>

MergeBoth ==
    /\ step = "merging"
    /\ chunk' = Freed(at)
    /\ Done
    /\ UNCHANGED live

MainLoop ==
    /\ ~inside
    /\ \/ \E s \in Requests : CallMalloc(s)
       \/ \E b \in live : CallFree(b)
       \/ Look \/ GiveUp \/ Decide \/ Carve \/ Mark
       \/ LookAround \/ MergeBoth
    /\ UNCHANGED <<handler, history>>

-----------------------------------------------------------------------------
(* A handler: it takes and frees blocks, its own or others that a timer or *)
(* a buffer has kept.                                                      *)
BetweenWrites == step \in {"carving", "merging"}

Interrupt ==
    /\ ~inside
    /\ inside' = TRUE /\ own' = {} /\ entry' = chunk
    /\ UNCHANGED <<chunk, live, main, history>>

HandlerMalloc(s) ==
    /\ inside
    /\ malloc(s)
    /\ own' = own \cup (live' \ live)
    /\ disturbed' = BetweenWrites
    /\ UNCHANGED <<main, inside, entry, inPieces>>

HandlerFree(b) ==
    /\ inside
    /\ free(b)
    /\ own' = own \ {b}
    /\ entry' = IF b \in own THEN entry ELSE <<>>
    /\ disturbed' = BetweenWrites
    /\ UNCHANGED <<main, inside, inPieces>>

(* What the main loop takes for granted of its pointer.                    *)
Stands ==
    /\ step = "search" /\ at # Null => at \in DOMAIN chunk
    /\ step = "found" => at \in DOMAIN chunk /\ Fits(at, want)
    /\ step = "mark" =>
          at \in DOMAIN chunk /\ ~chunk[at].allocated /\ chunk[at].size >= want
    /\ step = "freed" => at \in DOMAIN chunk /\ ~chunk[at].allocated

Return ==
    /\ inside
    /\ inside' = FALSE /\ own' = {} /\ entry' = <<>>
    /\ disturbed' = ~Stands
    /\ inPieces' = (inPieces \/ (step = "freed" /\ own # {}))
    /\ UNCHANGED <<chunk, live, main>>

NextShared ==
    /\ ~disturbed
    /\ \/ MainLoop
       \/ Interrupt \/ Return
       \/ \E s \in Requests : HandlerMalloc(s)
       \/ \E b \in live : HandlerFree(b)

SpecShared == InitShared /\ [][NextShared]_allVars

-----------------------------------------------------------------------------
(* Interrupts or not, the list tiles the heap.  No two free chunks are     *)
(* neighbours where the main loop is outside its writes, though a handler  *)
(* may change the list under the search or merge what malloc has just      *)
(* split - unless one took a part of a chunk that the main loop was about  *)
(* to merge, and kept it: free looks to both sides of the chunk it was     *)
(* called for, which then is another, and the rest stays in pieces.        *)
Quiet == step \in {"idle", "search", "found"} /\ ~inPieces

ListInOrder == TypeOK /\ Tiled /\ (Quiet => Coalesced)

(* A handler that frees all it took, in whatever order, leaves the list as *)
(* it was: the ARP and ICMP answers may interrupt the search or come just  *)
(* after it, and the chunk that was found is still there and still fits.   *)
LeavesNoTrace ==
    (Quiet /\ inside /\ own = {} /\ entry # <<>>) => chunk = entry

SharedInOrder == ~disturbed => ListInOrder /\ LeavesNoTrace

(* As long as nothing is disturbed, malloc and free keep their promise     *)
(* (KeepsPromise) to the main loop and to every handler.                   *)
=============================================================================
